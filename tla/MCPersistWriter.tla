-------------------------- MODULE MCPersistWriter --------------------------
(* Instances of PersistWriter for TLC: two position rows of one account and *)
(* day and one order row.                                                   *)
EXTENDS PersistWriter

CONSTANTS long, short, order, today, none

MCKeys == {long, short, order}
MCGroups == {today}
MCGroupOf == [k \in MCKeys |-> IF k = order THEN none ELSE today]
=============================================================================
