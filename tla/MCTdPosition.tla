---------------------------- MODULE MCTdPosition ----------------------------
(* Instances of TdPosition for TLC. *)
EXTENDS TdPosition

CONSTANTS o1, o2
=============================================================================
