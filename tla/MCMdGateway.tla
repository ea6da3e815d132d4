----------------------------- MODULE MCMdGateway -----------------------------
(* MdGateway for TLC.                                                      *)
EXTENDS MdGateway
===============================================================================
