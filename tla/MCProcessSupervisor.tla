------------------------ MODULE MCProcessSupervisor ------------------------
(* Small instances of ProcessSupervisor for TLC. *)
EXTENDS ProcessSupervisor, TLC

CONSTANTS m1, s1

\* One md gateway and one strategy on it.
PairNames == {m1, s1}
PairCat == (m1 :> "GatewayMd") @@ (s1 :> "Strategy")

SourceM1 == s1 :> m1
=============================================================================
