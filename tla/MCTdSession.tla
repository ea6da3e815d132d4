---------------------------- MODULE MCTdSession ----------------------------
(* Instances of TdSession for TLC. *)
EXTENDS TdSession
=============================================================================
