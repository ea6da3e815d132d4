------------------------------ MODULE FrameLog ------------------------------
(***************************************************************************)
(* What a shared-memory channel of libs/shm promises to its users: one     *)
(* append-only log of frames.  A reader that joins sees exactly the frames *)
(* committed after it joined, each of them once, in the order they were    *)
(* committed.  ShmChannel implements this module on page files.            *)
(***************************************************************************)
EXTENDS Naturals, Sequences

CONSTANTS Readers,   \* names of the processes that read the channel
          FrameIds   \* what tells one frame from another

VARIABLES log,       \* Seq(FrameIds): the frames committed so far
          joined,    \* the readers that have taken their start position
          cur,       \* cur[r]: how many frames of log lie before r's position
          last       \* last[r]: the frames r got at its latest delivery

logVars == <<log, joined, cur, last>>

LogInit == /\ log = <<>>
           /\ joined = {}
           /\ cur = [r \in Readers |-> 0]
           /\ last = [r \in Readers |-> <<>>]

\* A writer commits one frame.
Commit(f) == /\ log' = Append(log, f)
             /\ UNCHANGED <<joined, cur, last>>

\* A reader joins at the end of the log: history is not replayed.
Join(r) == /\ r \notin joined
           /\ joined' = joined \cup {r}
           /\ cur' = [cur EXCEPT ![r] = Len(log)]
           /\ last' = [last EXCEPT ![r] = <<>>]
           /\ UNCHANGED log

\* A reader gets the frame at its position and moves past it.
Deliver(r) == /\ r \in joined
              /\ cur[r] < Len(log)
              /\ cur' = [cur EXCEPT ![r] = @ + 1]
              /\ last' = [last EXCEPT ![r] = <<log[cur[r] + 1]>>]
              /\ UNCHANGED <<log, joined>>

Leave(r) == /\ r \in joined
            /\ joined' = joined \ {r}
            /\ cur' = [cur EXCEPT ![r] = 0]
            /\ last' = [last EXCEPT ![r] = <<>>]
            /\ UNCHANGED log

LogNext == \/ \E f \in FrameIds : Commit(f)
           \/ \E r \in Readers : Join(r) \/ Deliver(r) \/ Leave(r)

LogSpec == LogInit /\ [][LogNext]_logVars
=============================================================================
