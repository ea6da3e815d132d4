---------------------------- MODULE MCBarBuilder ----------------------------
EXTENDS BarBuilder

(* Two sessions of the grid; an opening auction before the first. *)
TwoSessions == <<[begin_sec |-> 6, end_sec |-> 12], [begin_sec |-> 18, end_sec |-> 24]>>

OpenAuction == <<[kind |-> "Open", session_index |-> 1, begin_sec |-> 3, end_sec |-> 4]>>

(* At trading seconds 4 (auction), 12 (the end of a session), 14 (no session)
   and 18, and at a time that is none. *)
TickClocks == {-1} \cup {to_clock(tsec) : tsec \in {4, 12, 14, 18}}

Rises == {<<1, 1>>, <<3, 0>>}
=============================================================================
