------------------------------ MODULE MCSysmon ------------------------------
(* Instances of the parts of the system monitor for TLC.  The parts share
   nothing but their process: every behaviour is one of one part. *)
EXTENDS SysmonHistory, SysmonMetrics, ClockProber

VARIABLE part

MCWindows == {[interval |-> 3, phase |-> 0], [interval |-> 4, phase |-> 1]}
MCFirst   == [interval |-> 3, phase |-> 0]
MCDims    == <<"d1", "d2">>
MCJumps   == {-3, 2}
MCAbsent  == [t \in {1, 5} |-> {"d2"}]

MCHosts   == {<<"a", "b", "a">>, <<>>}

Parts == <<part, vars, mvars, cvars>>

(* The parts that do not run stay in one of their initial states. *)
MCInit ==
    /\ part \in {"history", "metrics", "clock"} /\ Init /\ MetricsInit /\ ClockInit
    /\ part # "history" => ~ writer.open /\ config.enabled
    /\ part # "metrics" => kind = "memory" /\ conf.groups = Groups

MCNext ==
    \/ part = "history" /\ Next /\ UNCHANGED <<part, mvars, cvars>>
    \/ part = "metrics" /\ MetricsNext /\ UNCHANGED <<part, vars, cvars>>
    \/ part = "clock" /\ ClockNext /\ UNCHANGED <<part, vars, mvars>>

(* The fairness of FairSpec, for the behaviours of that part. *)
MCSpec ==
    /\ MCInit /\ [][MCNext]_Parts
    /\ WF_vars(part = "history" /\ Work)
    /\ WF_vars(part = "history" /\ (SetStop \/ Joined))
=============================================================================
