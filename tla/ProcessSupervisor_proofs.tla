---------------------- MODULE ProcessSupervisor_proofs ----------------------
(***************************************************************************)
(* dztraderd's tables agree with its children, no strategy waits for a     *)
(* ready source and nothing is started or left behind by a shutdown, for   *)
(* every set of processes and sources, every restart policy and every      *)
(* number of spawns and commands.                                          *)
(*                                                                         *)
(* What the run's invariants lack to be inductive: what a restart timer    *)
(* that is armed or queued knows of the restarts so far (RestartInv), who  *)
(* can be in pending_strategies_ (PendingInv), that no strategy runs       *)
(* before the channel of its source was opened once (FirstOpenInv), and    *)
(* in which phases a shutdown and its batch timer are (PhaseInv).          *)
(***************************************************************************)
EXTENDS ProcessSupervisor, TLAPS

\* A restart timer was armed with a count above the restarts made so far; a child
\* outside a shutdown has been restarted no more often than its count says.
RestartInv ==
  \A n \in Names :
    /\ rt[n] # 0 => autos[n] < rt[n]
    /\ rtQ[n] # 0 => autos[n] < rtQ[n]
    /\ Live(n) /\ ~shutting => autos[n] <= counts[n]

\* DeadNotShownAlive, in the boot phase too.
ShownInv == \A n \in Names : ~Live(n) => ui[n] \notin {"Running", "Stopping"}

\* Strategies wait for their own source, and none during a shutdown.
PendingInv ==
  /\ \A m \in Md : \A s \in pending[m] : Source[s] = m
  /\ shutting => \A m \in Md : pending[m] = {}

\* A strategy that runs before its source's channel was opened came from a restart
\* timer, so the clearing of the reader table at the first open costs nobody its entry.
FirstOpenInv ==
  \A s \in Strategies : mdst[Source[s]] = "none" /\ Live(s) => autos[s] > 0

PhaseInv ==
  /\ shutting => phase \in {"loop", "exit"}
  /\ bt => bidx \in 1..5

\* The part of the invariant that no shutdown is needed to state.
Tables ==
  /\ RestartInv
  /\ RestartsBounded
  /\ RemovalsAreOfChildren
  /\ UnconfiguredIsLeaving
  /\ ShownInv
  /\ LaunchedAsReader
  /\ FirstOpenInv
  /\ PendingInv
  /\ PendingServed

\* The part about the shutdown.
Ending ==
  /\ PhaseInv
  /\ ShutdownCovered
  /\ NoOrphans

IInv == TypeOK /\ Tables /\ Ending

USE SupervisorAssumption

-----------------------------------------------------------------------------
(* Types.                                                                  *)

LEMMA MdNames == Md \subseteq Names /\ Strategies \subseteq Names
                 /\ \A m \in Md : m \notin Strategies
BY DEF Md, Strategies

LEMMA RankType == \A n \in Names : Rank(n) \in 1..5
BY DEF Rank, Categories

LEMMA InitType == Init => TypeOK
<1>. SUFFICES ASSUME Init PROVE TypeOK
  OBVIOUS
<1>1. stQ \in [Names -> Seq(0..MaxSpawns)] /\ st \in [Names -> BOOLEAN]
  BY DEF Init
<1>2. readers \in [Md -> SUBSET Strategies] /\ pending \in [Md -> SUBSET Strategies]
  BY DEF Init
<1>3. /\ inc \in [Names -> 0..MaxSpawns] /\ counts \in [Names -> 0..MaxAttempts]
      /\ rt \in [Names -> 0..MaxAttempts] /\ rtQ \in [Names -> 0..MaxAttempts]
      /\ autos \in [Names -> Nat]
      /\ started \in [Md -> SUBSET (1..MaxSpawns)] /\ annc \in [Md -> 0..MaxSpawns]
  BY DEF Init
<1>4. /\ child \in [Names -> {"none", "Running", "Stopping"}]
      /\ wd \in [Md -> BOOLEAN] /\ wdQ \in [Md -> BOOLEAN] /\ ready \in [Md -> BOOLEAN]
      /\ mdst \in [Md -> {"none", "Running", "Stopped", "Tombstone"}]
      /\ ui \in [Names -> {"Starting", "Running", "Stopping", "Stopped", "Crashed"}]
  BY DEF Init
<1>5. /\ phase \in {"boot", "wait", "loop", "exit"} /\ promoted \subseteq Md
      /\ registry \subseteq Names /\ removing \subseteq Names /\ frozen \subseteq Names
      /\ bidx \in 0..6 /\ btQ \in 0..5 /\ cmds \in 0..MaxCmds
  BY DEF Init
<1>6. shutting \in BOOLEAN /\ bt \in BOOLEAN
  BY Zenon DEF Init
<1>. QED
  BY <1>1, <1>2, <1>3, <1>4, <1>5, <1>6 DEF TypeOK

\* Launching children keeps the types of what it changes.
LEMMA SpawnType ==
  ASSUME TypeOK, NEW L \in SUBSET Names, NEW out \in Outs(L),
         NEW timer \in [Names -> 0..MaxAttempts], Spawn(L, out, timer)
  PROVE  /\ child' \in [Names -> {"none", "Running", "Stopping"}]
         /\ inc' \in [Names -> 0..MaxSpawns]
         /\ rt' \in [Names -> 0..MaxAttempts]
<1>1. \A n \in Spawned(L, out) : n \in L /\ inc[n] < MaxSpawns
  BY DEF Spawned, Outs, CanCome
<1>2. \A n \in Spawned(L, out) : inc[n] + 1 \in 0..MaxSpawns
  BY <1>1 DEF TypeOK
<1>. QED
  BY <1>2 DEF Spawn, TypeOK

LEMMA LaunchType ==
  ASSUME TypeOK, NEW L \in SUBSET Names, NEW out \in Outs(L)
  PROVE  /\ LaunchCounts(L, out) \in [Names -> 0..MaxAttempts]
         /\ LaunchWd(L, out) \in [Md -> BOOLEAN]
         /\ LaunchUi(L, out) \in [Names -> {"Starting", "Running", "Stopping", "Stopped", "Crashed"}]
         /\ Launch(L, out) => autos' \in [Names -> Nat]
         /\ OpenChannels(L, out) =>
              /\ mdst' \in [Md -> {"none", "Running", "Stopped", "Tombstone"}]
              /\ ready' \in [Md -> BOOLEAN]
              /\ readers' \in [Md -> SUBSET Strategies]
<1>1. LaunchCounts(L, out) \in [Names -> 0..MaxAttempts]
  BY DEF LaunchCounts, TypeOK
<1>2. LaunchWd(L, out) \in [Md -> BOOLEAN]
  BY DEF LaunchWd, TypeOK
<1>3. LaunchUi(L, out) \in [Names -> {"Starting", "Running", "Stopping", "Stopped", "Crashed"}]
  BY DEF LaunchUi, TypeOK
<1>4. Launch(L, out) => autos' \in [Names -> Nat]
  BY DEF Launch, TypeOK
<1>5. OpenChannels(L, out) =>
              /\ mdst' \in [Md -> {"none", "Running", "Stopped", "Tombstone"}]
              /\ ready' \in [Md -> BOOLEAN]
              /\ readers' \in [Md -> SUBSET Strategies]
  BY DEF OpenChannels, TypeOK
<1>. QED
  BY <1>1, <1>2, <1>3, <1>4, <1>5

LEMMA StartAllType == TypeOK /\ StartAll => TypeOK'
<1>. SUFFICES ASSUME TypeOK, StartAll PROVE TypeOK'
  OBVIOUS
<1>. DEFINE L == registry \ Strategies
<1>1. L \in SUBSET Names
  BY DEF TypeOK
<1>2. PICK out \in Outs(L) :
          /\ Launch(L, out)
          /\ OpenChannels(L, out)
          /\ wd' = LaunchWd(L, out)
          /\ ui' = LaunchUi(L, out)
  BY DEF StartAll
<1>3. /\ child' \in [Names -> {"none", "Running", "Stopping"}]
      /\ inc' \in [Names -> 0..MaxSpawns]
      /\ rt' \in [Names -> 0..MaxAttempts]
  BY <1>1, <1>2, SpawnType DEF Launch, TypeOK
<1>4. counts' = LaunchCounts(L, out)
  BY <1>2 DEF Launch
<1>. HIDE DEF L
<1>5. /\ counts' \in [Names -> 0..MaxAttempts] /\ wd' \in [Md -> BOOLEAN]
      /\ ui' \in [Names -> {"Starting", "Running", "Stopping", "Stopped", "Crashed"}]
      /\ autos' \in [Names -> Nat]
      /\ mdst' \in [Md -> {"none", "Running", "Stopped", "Tombstone"}]
      /\ ready' \in [Md -> BOOLEAN]
      /\ readers' \in [Md -> SUBSET Strategies]
  BY <1>1, <1>2, <1>4, LaunchType
<1>. QED
  BY <1>3, <1>5 DEF StartAll, TypeOK, shutdownVars

LEMMA PromoteType == ASSUME NEW m \in Md PROVE TypeOK /\ PromoteReadySource(m) => TypeOK'
<1>. SUFFICES ASSUME TypeOK, PromoteReadySource(m) PROVE TypeOK'
  OBVIOUS
<1>. DEFINE L == {s \in BoundTo(m) : ~Live(s)}
<1>1. L \in SUBSET Names /\ L \subseteq Strategies
  BY DEF TypeOK, BoundTo, Strategies
<1>2. PICK out \in Outs(L) : Launch(L, out) /\ ui' = LaunchUi(L, out)
  BY DEF PromoteReadySource
<1>2a. PreRegister(L)
  BY DEF PromoteReadySource
<1>. HIDE DEF L
<1>3. /\ child' \in [Names -> {"none", "Running", "Stopping"}]
      /\ inc' \in [Names -> 0..MaxSpawns]
      /\ rt' \in [Names -> 0..MaxAttempts]
  BY <1>1, <1>2, SpawnType DEF Launch, TypeOK
<1>4. counts' = LaunchCounts(L, out)
  BY <1>2 DEF Launch
<1>5. /\ counts' \in [Names -> 0..MaxAttempts]
      /\ ui' \in [Names -> {"Starting", "Running", "Stopping", "Stopped", "Crashed"}]
      /\ autos' \in [Names -> Nat]
  BY <1>1, <1>2, <1>4, LaunchType
<1>6. mdst' = mdst /\ ready' = ready /\ readers' \in [Md -> SUBSET Strategies]
  BY <1>1, <1>2a DEF PreRegister, TypeOK
<1>. QED
  BY <1>3, <1>5, <1>6 DEF PromoteReadySource, TypeOK, shutdownVars

LEMMA WaitDoneType == TypeOK /\ WaitDone => TypeOK'
<1>. SUFFICES ASSUME TypeOK, WaitDone PROVE TypeOK'
  OBVIOUS
<1>1. pending' \in [Md -> SUBSET Strategies]
  BY DEF WaitDone, TypeOK, BoundTo
<1>2. ui' \in [Names -> {"Starting", "Running", "Stopping", "Stopped", "Crashed"}]
  BY DEF WaitDone, TypeOK, SnapshotUi, Live
<1>. QED
  BY <1>1, <1>2 DEF WaitDone, TypeOK, timers, channels, shutdownVars

LEMMA RefusedType ==
  ASSUME NEW n \in Names
  PROVE  TypeOK /\ (StartRefused(n) \/ StartConfigRejected(n)) => TypeOK'
<1>. SUFFICES ASSUME TypeOK, StartRefused(n) \/ StartConfigRejected(n) PROVE TypeOK'
  OBVIOUS
<1>1. /\ cmds' \in 0..MaxCmds /\ registry' \subseteq Names
      /\ UNCHANGED <<phase, promoted, child, inc, removing, counts, timers, pending, channels,
                     started, annc, shutdownVars, autos>>
  BY DEF StartRefused, StartConfigRejected, Command, TypeOK
<1>2. ui' = [ui EXCEPT ![n] = "Crashed"]
  BY DEF StartRefused, StartConfigRejected, Tell
<1>. QED
  BY <1>1, <1>2 DEF TypeOK, timers, channels, shutdownVars

LEMMA HandleStartType == ASSUME NEW n \in Names PROVE TypeOK /\ HandleStart(n) => TypeOK'
<1>. SUFFICES ASSUME TypeOK, HandleStart(n) PROVE TypeOK'
  OBVIOUS
<1>1. /\ cmds' \in 0..MaxCmds /\ registry' \subseteq Names
      /\ UNCHANGED <<phase, promoted, removing, rtQ, st, stQ, wdQ, started, annc, shutdownVars>>
  BY DEF HandleStart, StartProcess, Command, TypeOK
<1>2. CASE /\ Live(n)
           /\ Tell(n, child[n])
           /\ UNCHANGED <<child, inc, counts, rt, wd, channels, pending, autos>>
  BY <1>1, <1>2 DEF TypeOK, Tell, shutdownVars, channels, Live
<1>3. CASE /\ n \in Strategies /\ pending' = [pending EXCEPT ![Source[n]] = @ \cup {n}]
           /\ Tell(n, "Starting")
           /\ UNCHANGED <<child, inc, counts, rt, wd, channels, autos>>
  <2>1. Source[n] \in Md
    BY <1>3
  <2>2. pending' \in [Md -> SUBSET Strategies]
    BY <1>3, <2>1 DEF TypeOK
  <2>. QED
    BY <1>1, <1>3, <2>2 DEF TypeOK, Tell, shutdownVars, channels
<1>4. ASSUME NEW out \in Outs({n}),
             Launch({n}, out),
             IF n \in Strategies THEN PreRegister({n}) ELSE OpenChannels({n}, out),
             wd' = LaunchWd({n}, out),
             Tell(n, IF n \in Spawned({n}, out) THEN "Running" ELSE "Crashed"),
             UNCHANGED pending
      PROVE  TypeOK'
  <2>0. {n} \in SUBSET Names
    OBVIOUS
  <2>1. /\ child' \in [Names -> {"none", "Running", "Stopping"}]
        /\ inc' \in [Names -> 0..MaxSpawns]
        /\ rt' \in [Names -> 0..MaxAttempts]
    BY <1>4, <2>0, SpawnType DEF Launch, TypeOK
  <2>2. /\ counts' \in [Names -> 0..MaxAttempts] /\ wd' \in [Md -> BOOLEAN]
        /\ autos' \in [Names -> Nat]
    <3>1. counts' = LaunchCounts({n}, out)
      BY <1>4 DEF Launch
    <3>. QED
      BY <1>4, <2>0, <3>1, LaunchType
  <2>3. /\ mdst' \in [Md -> {"none", "Running", "Stopped", "Tombstone"}]
        /\ ready' \in [Md -> BOOLEAN]
        /\ readers' \in [Md -> SUBSET Strategies]
    <3>1. CASE n \in Strategies /\ PreRegister({n})
      BY <3>1 DEF PreRegister, TypeOK
    <3>2. CASE OpenChannels({n}, out)
      BY <2>0, <3>2, LaunchType
    <3>. QED
      BY <1>4, <3>1, <3>2
  <2>4. ui' \in [Names -> {"Starting", "Running", "Stopping", "Stopped", "Crashed"}]
    BY <1>4 DEF Tell, TypeOK
  <2>. QED
    BY <1>1, <1>4, <2>1, <2>2, <2>3, <2>4 DEF TypeOK, shutdownVars
<1>. QED
  BY <1>2, <1>3, <1>4 DEF HandleStart, StartProcess

LEMMA StopChildType ==
  ASSUME TypeOK, NEW n \in Names, StopChild(n)
  PROVE  st' \in [Names -> BOOLEAN] /\ stQ' \in [Names -> Seq(0..MaxSpawns)]
<1>1. Append(stQ[n], 0) \in Seq(0..MaxSpawns)
  BY DEF TypeOK
<1>. QED
  BY <1>1 DEF StopChild, TypeOK

LEMMA HandleStopType == ASSUME NEW n \in Names PROVE TypeOK /\ HandleStop(n) => TypeOK'
<1>. SUFFICES ASSUME TypeOK, HandleStop(n) PROVE TypeOK'
  OBVIOUS
<1>1. /\ cmds' \in 0..MaxCmds
      /\ UNCHANGED <<phase, promoted, registry, child, inc, removing, rtQ, wd, wdQ, pending,
                 channels, started, annc, shutdownVars, autos>>
  BY DEF HandleStop, Command, TypeOK
<1>2. ui' \in [Names -> {"Starting", "Running", "Stopping", "Stopped", "Crashed"}]
  BY DEF HandleStop, Tell, TypeOK
<1>3. st' \in [Names -> BOOLEAN] /\ stQ' \in [Names -> Seq(0..MaxSpawns)]
  <2>1. StopChild(n) \/ UNCHANGED <<st, stQ>>
    BY DEF HandleStop
  <2>. QED
    BY <2>1, StopChildType DEF TypeOK
<1>4. rt' \in [Names -> 0..MaxAttempts] /\ counts' \in [Names -> 0..MaxAttempts]
  <2>1. CancelRestart(n) \/ UNCHANGED <<rt, counts>>
    BY DEF HandleStop
  <2>2. rt \in [Names -> 0..MaxAttempts] /\ counts \in [Names -> 0..MaxAttempts]
    BY DEF TypeOK
  <2>3. 0 \in 0..MaxAttempts
    OBVIOUS
  <2>. QED
    BY <2>1, <2>2, <2>3 DEF CancelRestart
<1>. QED
  BY <1>1, <1>2, <1>3, <1>4 DEF TypeOK, channels, shutdownVars

\* tombstone_md_channel and close_md_channel.
LEMMA LeaveChannelType ==
  ASSUME TypeOK, NEW n \in Names, NEW status \in {"Stopped", "Tombstone"},
         LeaveChannel(n, status)
  PROVE  /\ mdst' \in [Md -> {"none", "Running", "Stopped", "Tombstone"}]
         /\ ready' \in [Md -> BOOLEAN]
BY DEF LeaveChannel, TypeOK

LEMMA HandleRemoveType == ASSUME NEW n \in Names PROVE TypeOK /\ HandleRemove(n) => TypeOK'
<1>. SUFFICES ASSUME TypeOK, HandleRemove(n) PROVE TypeOK'
  OBVIOUS
<1>1. /\ cmds' \in 0..MaxCmds
      /\ UNCHANGED <<phase, promoted, child, inc, rtQ, wd, wdQ, pending, readers, started, annc,
                 shutdownVars, autos>>
  BY DEF HandleRemove, Command, TypeOK
<1>2. ui' \in [Names -> {"Starting", "Running", "Stopping", "Stopped", "Crashed"}]
  BY DEF HandleRemove, Tell, TypeOK
<1>3. st' \in [Names -> BOOLEAN] /\ stQ' \in [Names -> Seq(0..MaxSpawns)]
  <2>1. StopChild(n) \/ UNCHANGED <<st, stQ>>
    BY DEF HandleRemove
  <2>. QED
    BY <2>1, StopChildType DEF TypeOK
<1>4. rt' \in [Names -> 0..MaxAttempts] /\ counts' \in [Names -> 0..MaxAttempts]
  <2>1. CancelRestart(n) \/ UNCHANGED <<rt, counts>>
    BY DEF HandleRemove
  <2>2. rt \in [Names -> 0..MaxAttempts] /\ counts \in [Names -> 0..MaxAttempts]
    BY DEF TypeOK
  <2>3. 0 \in 0..MaxAttempts
    OBVIOUS
  <2>. QED
    BY <2>1, <2>2, <2>3 DEF CancelRestart
<1>5. registry' \subseteq Names /\ removing' \subseteq Names
  BY DEF HandleRemove, MarkRemovePending, ConsumeRemovePending, TypeOK
<1>6. mdst' \in [Md -> {"none", "Running", "Stopped", "Tombstone"}] /\ ready' \in [Md -> BOOLEAN]
  BY LeaveChannelType DEF HandleRemove, TypeOK
<1>. QED
  BY <1>1, <1>2, <1>3, <1>4, <1>5, <1>6 DEF TypeOK, shutdownVars

LEMMA SnapshotType == TypeOK /\ Snapshot => TypeOK'
BY DEF Snapshot, SnapshotUi, Live, TypeOK, timers, channels, shutdownVars

LEMMA MdAnnounceType == ASSUME NEW m \in Md PROVE TypeOK /\ MdAnnounce(m) => TypeOK'
<1>. SUFFICES ASSUME TypeOK, MdAnnounce(m) PROVE TypeOK'
  OBVIOUS
<1>1. inc[m] \in 1..MaxSpawns /\ m \in Names
  BY MdNames DEF MdAnnounce, TypeOK
<1>2. started' \in [Md -> SUBSET (1..MaxSpawns)] /\ annc' \in [Md -> 0..MaxSpawns]
  BY <1>1 DEF MdAnnounce, TypeOK
<1>. QED
  BY <1>2 DEF MdAnnounce, TypeOK, timers, channels, shutdownVars

LEMMA MdStartedType == ASSUME NEW m \in Md PROVE TypeOK /\ MdStarted(m) => TypeOK'
<1>. SUFFICES ASSUME TypeOK, MdStarted(m) PROVE TypeOK'
  OBVIOUS
<1>1. started' \in [Md -> SUBSET (1..MaxSpawns)]
  BY DEF MdStarted, TypeOK
<1>2. UNCHANGED <<phase, promoted, registry, removing, rtQ, st, stQ, wdQ, annc,
                 shutdownVars, cmds>>
  BY DEF MdStarted
<1>3. CASE UNCHANGED <<child, inc, counts, rt, wd, channels, pending, autos, ui>>
  BY <1>1, <1>2, <1>3 DEF TypeOK, channels, shutdownVars
<1>4. CASE /\ mdst[m] = "Running"
           /\ pending' = [pending EXCEPT ![m] = {}]
           /\ LET L == pending[m] \cap registry
              IN /\ readers' = [readers EXCEPT ![m] = @ \cup L]
                 /\ \E out \in Outs(L) : Launch(L, out) /\ ui' = LaunchUi(L, out)
           /\ wd' = [wd EXCEPT ![m] = FALSE]
           /\ ready' = [ready EXCEPT ![m] = TRUE]
           /\ UNCHANGED mdst
  <2>. DEFINE L == pending[m] \cap registry
  <2>1. L \in SUBSET Names /\ L \subseteq Strategies
    BY DEF TypeOK
  <2>2. PICK out \in Outs(L) : Launch(L, out) /\ ui' = LaunchUi(L, out)
    BY <1>4
  <2>2a. readers' = [readers EXCEPT ![m] = @ \cup L]
    BY <1>4
  <2>. HIDE DEF L
  <2>3. /\ child' \in [Names -> {"none", "Running", "Stopping"}]
        /\ inc' \in [Names -> 0..MaxSpawns]
        /\ rt' \in [Names -> 0..MaxAttempts]
    BY <2>1, <2>2, SpawnType DEF Launch, TypeOK
  <2>4. counts' = LaunchCounts(L, out)
    BY <2>2 DEF Launch
  <2>5. /\ counts' \in [Names -> 0..MaxAttempts]
        /\ ui' \in [Names -> {"Starting", "Running", "Stopping", "Stopped", "Crashed"}]
        /\ autos' \in [Names -> Nat]
    BY <2>1, <2>2, <2>4, LaunchType
  <2>6. /\ readers' \in [Md -> SUBSET Strategies] /\ pending' \in [Md -> SUBSET Strategies]
        /\ wd' \in [Md -> BOOLEAN] /\ ready' \in [Md -> BOOLEAN]
    BY <1>4, <2>1, <2>2a DEF TypeOK
  <2>. QED
    BY <1>1, <1>2, <1>4, <2>3, <2>5, <2>6 DEF TypeOK, shutdownVars
<1>. QED
  BY <1>3, <1>4 DEF MdStarted

\* The first of some batches.
LEMMA LeastBatch ==
  ASSUME NEW S, S \subseteq 0..5, S # {}
  PROVE  LET j == CHOOSE k \in S : \A l \in S : k <= l
         IN  j \in S /\ \A l \in S : j <= l
<1>1. \E k \in S : \A l \in S : k <= l
  <2>1. CASE 0 \in S
    BY <2>1
  <2>2. CASE 0 \notin S /\ 1 \in S
    BY <2>2
  <2>3. CASE 0 \notin S /\ 1 \notin S /\ 2 \in S
    BY <2>3
  <2>4. CASE 0 \notin S /\ 1 \notin S /\ 2 \notin S /\ 3 \in S
    BY <2>4
  <2>5. CASE 0 \notin S /\ 1 \notin S /\ 2 \notin S /\ 3 \notin S /\ 4 \in S
    BY <2>5
  <2>6. CASE 0 \notin S /\ 1 \notin S /\ 2 \notin S /\ 3 \notin S /\ 4 \notin S
    <3>1. PICK x \in S : TRUE
      OBVIOUS
    <3>2. \A l \in S : l = 5
      BY <2>6
    <3>. QED
      BY <3>1, <3>2
  <2>. QED
    BY <2>1, <2>2, <2>3, <2>4, <2>5, <2>6
<1>. QED
  BY <1>1

\* The batch a shutdown goes on with.
LEMMA SendBatchType ==
  ASSUME TypeOK, NEW i \in 1..6, NEW names, NEW kids,
         NEW shown \in [Names -> {"Starting", "Running", "Stopping", "Stopped", "Crashed"}],
         SendBatch(i, names, kids, shown)
  PROVE  /\ bidx' \in 0..6 /\ bt' \in BOOLEAN /\ (bt' => bidx' \in 1..5)
         /\ phase' \in {phase, "exit"}
         /\ ui' \in [Names -> {"Starting", "Running", "Stopping", "Stopped", "Crashed"}]
<1>. DEFINE busy == {j \in i..5 : \E n \in Batch(j, names) : kids[n] # "none"}
            j == CHOOSE k \in busy : \A l \in busy : k <= l
<1>0. i..5 \subseteq 0..5 /\ i..5 \subseteq 1..5 /\ busy \subseteq i..5
  OBVIOUS
<1>1. CASE busy = {}
  <2>1. /\ bidx' = 6 /\ bt' = FALSE /\ ui' = shown
        /\ phase' = IF \A n \in Names : kids[n] = "none" THEN "exit" ELSE phase
    BY <1>1 DEF SendBatch
  <2>2. phase' = "exit" \/ phase' = phase
    BY <2>1
  <2>3. bt' \in BOOLEAN /\ ~bt'
    BY <2>1, Zenon
  <2>4. bidx' \in 0..6
    BY <2>1
  <2>. QED
    BY <2>1, <2>2, <2>3, <2>4
<1>2. CASE busy # {}
  <2>1. /\ bidx' = j /\ bt' = TRUE /\ phase' = phase
        /\ ui' = [n \in Names |-> IF n \in Batch(j, names) /\ kids[n] # "none"
                                  THEN "Stopping" ELSE shown[n]]
    BY <1>2 DEF SendBatch
  <2>2. j \in busy
    BY <1>0, <1>2, LeastBatch
  <2>. HIDE DEF j, busy
  <2>3. j \in 1..5
    BY <1>0, <2>2
  <2>. QED
    BY <2>1, <2>3
<1>. QED
  BY <1>1, <1>2

LEMMA ShutdownType == TypeOK /\ Shutdown => TypeOK'
<1>. SUFFICES ASSUME TypeOK, Shutdown PROVE TypeOK'
  OBVIOUS
<1>1. SendBatch(1, {n \in Names : Live(n)}, child, ui)
  BY DEF Shutdown
<1>2. /\ bidx' \in 0..6 /\ bt' \in BOOLEAN
      /\ phase' \in {phase, "exit"}
      /\ ui' \in [Names -> {"Starting", "Running", "Stopping", "Stopped", "Crashed"}]
  BY <1>1, SendBatchType DEF TypeOK
<1>3. stQ' \in [Names -> Seq(0..MaxSpawns)]
  <2>1. \A n \in Names : stQ[n] \in Seq(0..MaxSpawns) /\ Append(stQ[n], 0) \in Seq(0..MaxSpawns)
    BY DEF TypeOK
  <2>. QED
    BY <2>1 DEF Shutdown
<1>4. /\ st' \in [Names -> BOOLEAN] /\ wd' \in [Md -> BOOLEAN]
      /\ rt' \in [Names -> 0..MaxAttempts] /\ counts' \in [Names -> 0..MaxAttempts]
      /\ pending' \in [Md -> SUBSET Strategies]
      /\ frozen' \subseteq Names
  BY DEF Shutdown, DropPending
<1>5. shutting' \in BOOLEAN
  BY Zenon DEF Shutdown
<1>6. UNCHANGED <<promoted, registry, child, inc, removing, rtQ, wdQ, channels, started, annc,
                 btQ, autos, cmds>>
  BY DEF Shutdown
<1>. QED
  BY <1>2, <1>3, <1>4, <1>5, <1>6 DEF TypeOK, channels

LEMMA ForceExitType == TypeOK /\ ForceExit => TypeOK'
<1>. SUFFICES ASSUME TypeOK, ForceExit PROVE TypeOK'
  OBVIOUS
<1>1. child' \in [Names -> {"none", "Running", "Stopping"}]
  BY DEF ForceExit
<1>. QED
  BY <1>1 DEF ForceExit, TypeOK, timers, channels, shutdownVars

LEMMA ChildExitType ==
  ASSUME NEW n \in Names, NEW code \in 0..1
  PROVE  TypeOK /\ ChildExit(n, code) => TypeOK'
<1>. SUFFICES ASSUME TypeOK, ChildExit(n, code) PROVE TypeOK'
  OBVIOUS
<1>. DEFINE kids == [child EXCEPT ![n] = "none"]
            told == IF code = 0 THEN "Stopped" ELSE "Crashed"
            shown == [ui EXCEPT ![n] = told]
<1>0. shown \in [Names -> {"Starting", "Running", "Stopping", "Stopped", "Crashed"}]
  BY DEF TypeOK
<1>1. /\ child' = kids
      /\ UNCHANGED <<promoted, registry, inc, rtQ, wd, wdQ, pending, started, annc, shutting,
                    frozen, btQ, cmds>>
  BY DEF ChildExit
<1>2. child' \in [Names -> {"none", "Running", "Stopping"}]
  BY <1>1 DEF TypeOK
<1>3. removing' \subseteq Names
  BY DEF ChildExit, ConsumeRemovePending, TypeOK
<1>4. st' \in [Names -> BOOLEAN] /\ stQ' \in [Names -> Seq(0..MaxSpawns)]
  <2>1. Append(stQ[n], 0) \in Seq(0..MaxSpawns)
    BY DEF TypeOK
  <2>. QED
    BY <2>1 DEF ChildExit, TypeOK
<1>5. readers' \in [Md -> SUBSET Strategies]
  BY DEF ChildExit, TypeOK
<1>6. mdst' \in [Md -> {"none", "Running", "Stopped", "Tombstone"}] /\ ready' \in [Md -> BOOLEAN]
  <2>1. LeaveChannel(n, "Tombstone") \/ LeaveChannel(n, "Stopped")
    BY DEF ChildExit
  <2>. QED
    BY <2>1, LeaveChannelType
<1>7. autos' \in [Names -> Nat]
  BY DEF ChildExit, TypeOK
<1>8. rt' \in [Names -> 0..MaxAttempts] /\ counts' \in [Names -> 0..MaxAttempts]
  <2>0. rt \in [Names -> 0..MaxAttempts] /\ counts \in [Names -> 0..MaxAttempts]
    BY DEF TypeOK
  <2>1. CASE UNCHANGED <<counts, rt>>
    BY <2>0, <2>1
  <2>2. CASE ~shutting
    <3>. DEFINE again == ~(n \in removing) /\ code # 0 /\ MayRestart(n)
    <3>1. /\ counts' = [counts EXCEPT ![n] = IF again THEN @ + 1 ELSE 0]
          /\ rt' = [rt EXCEPT ![n] = IF again THEN counts[n] + 1 ELSE @]
      BY <2>2 DEF ChildExit
    <3>2. again => counts[n] + 1 \in 0..MaxAttempts
      BY <2>0 DEF MayRestart
    <3>3. 0 \in 0..MaxAttempts
      OBVIOUS
    <3>. HIDE DEF again
    <3>. QED
      BY <2>0, <3>1, <3>2, <3>3
  <2>. QED
    BY <2>1, <2>2 DEF ChildExit
<1>9. /\ bidx' \in 0..6 /\ bt' \in BOOLEAN /\ phase' \in {"boot", "wait", "loop", "exit"}
      /\ ui' \in [Names -> {"Starting", "Running", "Stopping", "Stopped", "Crashed"}]
  <2>1. CASE ui' = shown /\ UNCHANGED <<phase, bidx, bt>>
    BY <1>0, <2>1 DEF TypeOK
  <2>2. CASE bidx <= 5 /\ SendBatch(bidx + 1, frozen, kids, shown)
    <3>. HIDE DEF kids, shown
    <3>1. bidx + 1 \in 1..6
      BY <2>2 DEF TypeOK
    <3>. QED
      BY <1>0, <2>2, <3>1, SendBatchType DEF TypeOK
  <2>3. CASE shutting
    <3>1. AdvanceBatch(kids, shown)
      BY <2>3 DEF ChildExit
    <3>2. bidx \in 0..6
      BY DEF TypeOK
    <3>. QED
      BY <2>1, <2>2, <3>1, <3>2 DEF AdvanceBatch
  <2>4. CASE ~shutting
    <3>1. ui' = shown /\ UNCHANGED <<phase, bidx, bt>>
      BY <2>4 DEF ChildExit, Tell
    <3>. QED
      BY <2>1, <3>1
  <2>. QED
    BY <2>3, <2>4
<1>. QED
  BY <1>1, <1>2, <1>3, <1>4, <1>5, <1>6, <1>7, <1>8, <1>9 DEF TypeOK

LEMMA StopTimerType ==
  ASSUME NEW n \in Names
  PROVE  TypeOK /\ (StopTimerExpires(n) \/ OnSingleStopTimeout(n)) => TypeOK'
<1>. SUFFICES ASSUME TypeOK, StopTimerExpires(n) \/ OnSingleStopTimeout(n) PROVE TypeOK'
  OBVIOUS
<1>1. UNCHANGED <<phase, promoted, registry, inc, removing, counts, rt, rtQ, wd, wdQ, pending,
                 channels, started, annc, shutdownVars, ui, autos, cmds>>
  BY DEF StopTimerExpires, OnSingleStopTimeout
<1>2. st' \in [Names -> BOOLEAN]
  BY DEF StopTimerExpires, OnSingleStopTimeout, TypeOK
<1>3. child' \in [Names -> {"none", "Running", "Stopping"}]
  BY DEF StopTimerExpires, OnSingleStopTimeout, Terminate, TypeOK
<1>4. stQ' \in [Names -> Seq(0..MaxSpawns)]
  <2>1. stQ[n] \in Seq(0..MaxSpawns) /\ inc[n] \in 0..MaxSpawns /\ stQ \in [Names -> Seq(0..MaxSpawns)]
    BY DEF TypeOK
  <2>2. CASE StopTimerExpires(n)
    <3>1. Append(stQ[n], inc[n]) \in Seq(0..MaxSpawns)
      BY <2>1
    <3>. QED
      BY <2>1, <2>2, <3>1 DEF StopTimerExpires
  <2>3. CASE OnSingleStopTimeout(n)
    <3>1. stQ[n] # <<>>
      BY <2>3 DEF OnSingleStopTimeout
    <3>2. Tail(stQ[n]) \in Seq(0..MaxSpawns)
      BY <2>1, <3>1
    <3>3. Append(Tail(stQ[n]), 0) \in Seq(0..MaxSpawns)
      BY <3>2
    <3>4. stQ' = [stQ EXCEPT ![n] = IF st[n] THEN Append(Tail(@), 0) ELSE Tail(@)]
      BY <2>3 DEF OnSingleStopTimeout
    <3>. QED
      BY <2>1, <3>2, <3>3, <3>4
  <2>. QED
    BY <2>2, <2>3
<1>. QED
  BY <1>1, <1>2, <1>3, <1>4 DEF TypeOK, channels, shutdownVars

LEMMA RestartTimerType == ASSUME NEW n \in Names PROVE TypeOK /\ RestartTimerExpires(n) => TypeOK'
<1>. SUFFICES ASSUME TypeOK, RestartTimerExpires(n) PROVE TypeOK'
  OBVIOUS
<1>1. rt' \in [Names -> 0..MaxAttempts] /\ rtQ' \in [Names -> 0..MaxAttempts]
  BY DEF RestartTimerExpires, TypeOK
<1>. QED
  BY <1>1 DEF RestartTimerExpires, TypeOK, channels, shutdownVars

LEMMA OnRestartTimerType == ASSUME NEW n \in Names PROVE TypeOK /\ OnRestartTimer(n) => TypeOK'
<1>. SUFFICES ASSUME TypeOK, OnRestartTimer(n) PROVE TypeOK'
  OBVIOUS
<1>1. /\ UNCHANGED <<phase, promoted, registry, removing, st, stQ, wdQ, pending, started, annc,
                     shutdownVars, cmds>>
      /\ rtQ' = [rtQ EXCEPT ![n] = 0]
  BY DEF OnRestartTimer
<1>2. /\ rtQ' \in [Names -> 0..MaxAttempts] /\ [rt EXCEPT ![n] = 0] \in [Names -> 0..MaxAttempts]
      /\ rtQ[n] \in 0..MaxAttempts
  BY <1>1 DEF TypeOK
<1>3. CASE /\ rt' = [rt EXCEPT ![n] = 0]
           /\ UNCHANGED <<child, inc, counts, channels, wd, ui, autos>>
  BY <1>1, <1>2, <1>3 DEF TypeOK, channels, shutdownVars
<1>4. ASSUME NEW out \in Outs({n}),
             Spawn({n}, out, [rt EXCEPT ![n] = 0]),
             OpenChannels({n}, out),
             wd' = LaunchWd({n}, out),
             ui' = LaunchUi({n}, out),
             counts' = RestartCounts(n, out),
             autos' = [autos EXCEPT ![n] = IF n \in Spawned({n}, out) THEN @ + 1 ELSE @]
      PROVE  TypeOK'
  <2>0. {n} \in SUBSET Names
    OBVIOUS
  <2>1. /\ child' \in [Names -> {"none", "Running", "Stopping"}]
        /\ inc' \in [Names -> 0..MaxSpawns]
        /\ rt' \in [Names -> 0..MaxAttempts]
    BY <1>2, <1>4, <2>0, SpawnType
  <2>2. /\ wd' \in [Md -> BOOLEAN]
        /\ ui' \in [Names -> {"Starting", "Running", "Stopping", "Stopped", "Crashed"}]
        /\ mdst' \in [Md -> {"none", "Running", "Stopped", "Tombstone"}]
        /\ ready' \in [Md -> BOOLEAN]
        /\ readers' \in [Md -> SUBSET Strategies]
        /\ LaunchCounts({n}, out) \in [Names -> 0..MaxAttempts]
    BY <1>4, <2>0, LaunchType
  <2>3. counts' \in [Names -> 0..MaxAttempts]
    BY <1>2, <1>4, <2>2 DEF RestartCounts, TypeOK
  <2>4. autos' \in [Names -> Nat]
    BY <1>4 DEF TypeOK
  <2>. QED
    BY <1>1, <1>2, <2>1, <2>2, <2>3, <2>4 DEF TypeOK, shutdownVars
<1>. QED
  BY <1>3, <1>4 DEF OnRestartTimer

LEMMA WatchdogType ==
  ASSUME NEW m \in Md
  PROVE  TypeOK /\ (WatchdogExpires(m) \/ OnMdReadyTimeout(m)) => TypeOK'
<1>. SUFFICES ASSUME TypeOK, WatchdogExpires(m) \/ OnMdReadyTimeout(m) PROVE TypeOK'
  OBVIOUS
<1>1. UNCHANGED <<phase, promoted, registry, inc, removing, counts, rt, rtQ, st, stQ, pending,
                 channels, started, annc, shutdownVars, ui, autos, cmds>>
  BY DEF WatchdogExpires, OnMdReadyTimeout
<1>2. wd' \in [Md -> BOOLEAN] /\ wdQ' \in [Md -> BOOLEAN]
  BY DEF WatchdogExpires, OnMdReadyTimeout, TypeOK
<1>3. child' \in [Names -> {"none", "Running", "Stopping"}]
  BY DEF WatchdogExpires, OnMdReadyTimeout, Terminate, TypeOK
<1>. QED
  BY <1>1, <1>2, <1>3 DEF TypeOK, channels, shutdownVars

LEMMA BatchTimerType == TypeOK /\ PhaseInv /\ BatchTimerExpires => TypeOK'
<1>. SUFFICES ASSUME TypeOK, PhaseInv, BatchTimerExpires PROVE TypeOK'
  OBVIOUS
<1>1. btQ' \in 0..5
  BY DEF BatchTimerExpires, PhaseInv
<1>2. bt' \in BOOLEAN
  BY Zenon DEF BatchTimerExpires
<1>. QED
  BY <1>1, <1>2 DEF BatchTimerExpires, TypeOK, timers, channels

LEMMA ForceBatchType == TypeOK /\ ForceTerminateBatch => TypeOK'
<1>. SUFFICES ASSUME TypeOK, ForceTerminateBatch PROVE TypeOK'
  OBVIOUS
<1>1. child' \in [Names -> {"none", "Running", "Stopping"}] /\ btQ' \in 0..5
  BY DEF ForceTerminateBatch, TypeOK
<1>. QED
  BY <1>1 DEF ForceTerminateBatch, TypeOK, timers, channels

LEMMA NextType == TypeOK /\ PhaseInv /\ [Next]_vars => TypeOK'
<1>. SUFFICES ASSUME TypeOK, PhaseInv, [Next]_vars PROVE TypeOK'
  OBVIOUS
<1>1. CASE UNCHANGED vars
  BY <1>1 DEF vars, timers, channels, shutdownVars, TypeOK
<1>2. CASE StartAll \/ WaitDone \/ Snapshot \/ Shutdown \/ ForceExit
           \/ BatchTimerExpires \/ ForceTerminateBatch
  BY <1>2, StartAllType, WaitDoneType, SnapshotType, ShutdownType, ForceExitType,
     BatchTimerType, ForceBatchType
<1>3. ASSUME NEW n \in Names,
             \/ StartRefused(n) \/ StartConfigRejected(n) \/ HandleStart(n)
             \/ HandleStop(n) \/ HandleRemove(n)
             \/ \E code \in 0..1 : ChildExit(n, code)
             \/ StopTimerExpires(n) \/ OnSingleStopTimeout(n)
             \/ RestartTimerExpires(n) \/ OnRestartTimer(n)
      PROVE  TypeOK'
  BY <1>3, RefusedType, HandleStartType, HandleStopType, HandleRemoveType, ChildExitType,
     StopTimerType, RestartTimerType, OnRestartTimerType
<1>4. ASSUME NEW m \in Md,
             \/ PromoteReadySource(m) \/ MdAnnounce(m) \/ MdStarted(m)
             \/ WatchdogExpires(m) \/ OnMdReadyTimeout(m)
      PROVE  TypeOK'
  BY <1>4, PromoteType, MdAnnounceType, MdStartedType, WatchdogType
<1>. QED
  BY <1>1, <1>2, <1>3, <1>4 DEF Next

-----------------------------------------------------------------------------
(* What the tables say of each other.                                      *)

LEMMA InitTables == Init => Tables /\ Ending
<1>. SUFFICES ASSUME Init PROVE Tables /\ Ending
  OBVIOUS
<1>1. \A n \in Names : /\ child[n] = "none" /\ rt[n] = 0 /\ rtQ[n] = 0 /\ autos[n] = 0
                       /\ ui[n] = "Stopped"
  BY DEF Init
<1>2. \A m \in Md : pending[m] = {}
  BY DEF Init
<1>3. removing = {} /\ ~shutting /\ ~bt /\ phase = "boot"
  BY DEF Init
<1>4. RestartInv /\ RestartsBounded
  BY <1>1 DEF RestartInv, RestartsBounded, Live
<1>5. RemovalsAreOfChildren /\ UnconfiguredIsLeaving /\ ShownInv /\ LaunchedAsReader /\ FirstOpenInv
  BY <1>1, <1>3, MdNames DEF RemovalsAreOfChildren, UnconfiguredIsLeaving, ShownInv,
     LaunchedAsReader, FirstOpenInv, Live
<1>6. PendingInv /\ PendingServed
  BY <1>2 DEF PendingInv, PendingServed
<1>7. PhaseInv /\ ShutdownCovered /\ NoOrphans
  BY <1>3 DEF PhaseInv, ShutdownCovered, NoOrphans
<1>. QED
  BY <1>4, <1>5, <1>6, <1>7 DEF Tables, Ending

\* Only gateways are registered by a command.
RegistryGrows ==
  /\ registry \subseteq registry'
  /\ \A s \in Strategies : s \in registry' => s \in registry

\* A step that starts and ends no child, leaves counters, readers and channels alone
\* and shows no dead process as alive.
LEMMA CalmTables ==
  ASSUME TypeOK, Tables, TypeOK', ShownInv',
         \A n \in Names : (child'[n] = "none") <=> (child[n] = "none"),
         RegistryGrows,
         UNCHANGED <<rt, rtQ, counts, autos, removing, channels, pending, shutting>>
  PROVE  Tables'
<1>1. \A n \in Names : Live(n)' <=> Live(n)
  BY DEF Live
<1>2. RestartInv' /\ RestartsBounded'
  BY <1>1 DEF Tables, RestartInv, RestartsBounded
<1>3. RemovalsAreOfChildren' /\ UnconfiguredIsLeaving'
  BY <1>1 DEF Tables, RemovalsAreOfChildren, UnconfiguredIsLeaving, RegistryGrows, TypeOK
<1>4. LaunchedAsReader' /\ FirstOpenInv'
  BY <1>1, MdNames DEF Tables, LaunchedAsReader, FirstOpenInv, RegistryGrows, channels
<1>5. PendingInv' /\ PendingServed'
  BY DEF Tables, PendingInv, PendingServed, SourceReady, channels
<1>. QED
  BY <1>2, <1>3, <1>4, <1>5 DEF Tables

LEMMA GatewaysRegister ==
  ASSUME NEW n \in Names, n \in registry \cup Gateways, registry' = registry \cup {n}
  PROVE  RegistryGrows
BY DEF RegistryGrows, Gateways, Strategies

-----------------------------------------------------------------------------
(* Launches.                                                               *)

LEMMA SpawnedFacts ==
  ASSUME TypeOK, NEW L \in SUBSET Names, NEW out \in Outs(L)
  PROVE  /\ Spawned(L, out) \subseteq L
         /\ \A n \in Spawned(L, out) : ~Live(n) /\ out[n] \in {"ok", "reset"}
BY DEF Spawned

\* A launch that is not a restart starts the count of restarts anew.
LEMMA LaunchRestarts ==
  ASSUME TypeOK, Tables, NEW L \in SUBSET Names, NEW out \in Outs(L), Launch(L, out),
         UNCHANGED <<rtQ, shutting>>
  PROVE  RestartInv' /\ RestartsBounded'
<1>. SUFFICES ASSUME NEW n \in Names
              PROVE  /\ rt'[n] # 0 => autos'[n] < rt'[n]
                     /\ rtQ[n] # 0 => autos'[n] < rtQ[n]
                     /\ child'[n] # "none" /\ ~shutting => autos'[n] <= counts'[n]
                     /\ autos'[n] <= MaxAttempts
  BY DEF RestartInv, RestartsBounded, Live
<1>1. /\ rt[n] # 0 => autos[n] < rt[n]
      /\ rtQ[n] # 0 => autos[n] < rtQ[n]
      /\ child[n] # "none" /\ ~shutting => autos[n] <= counts[n]
      /\ autos[n] <= MaxAttempts
  BY DEF Tables, RestartInv, RestartsBounded, Live
<1>2. /\ rtQ[n] \in Nat /\ rt[n] \in Nat /\ counts[n] \in Nat /\ autos[n] \in Nat
  BY DEF TypeOK
<1>3. CASE n \in Spawned(L, out)
  <2>1. /\ rt'[n] = 0 /\ autos'[n] = 0 /\ counts'[n] = 0
    BY <1>3, SpawnedFacts DEF Launch, Spawn, LaunchCounts
  <2>. QED
    BY <1>2, <2>1
<1>4. CASE n \notin Spawned(L, out)
  <2>1. /\ rt'[n] = rt[n] /\ autos'[n] = autos[n] /\ child'[n] = child[n]
        /\ child[n] # "none" => counts'[n] = counts[n]
    BY <1>4 DEF Launch, Spawn, LaunchCounts, Live
  <2>. QED
    BY <1>1, <2>1
<1>. QED
  BY <1>3, <1>4

LEMMA LaunchConfigured ==
  ASSUME TypeOK, Tables, NEW L \in SUBSET Names, NEW out \in Outs(L), Launch(L, out),
         RegistryGrows, L \subseteq registry', UNCHANGED removing
  PROVE  RemovalsAreOfChildren' /\ UnconfiguredIsLeaving'
<1>1. \A n \in Names : Live(n) => Live(n)'
  BY DEF Live, Launch, Spawn
<1>2. RemovalsAreOfChildren'
  BY <1>1 DEF Tables, RemovalsAreOfChildren, TypeOK
<1>3. ASSUME NEW n \in Names, Live(n)', n \notin registry'
      PROVE  n \in removing \/ autos'[n] > 0
  <2>1. n \notin Spawned(L, out) /\ n \notin registry
    BY <1>3, SpawnedFacts DEF RegistryGrows
  <2>2. Live(n) /\ autos'[n] = autos[n]
    BY <1>3, <2>1 DEF Launch, Spawn, Live
  <2>. QED
    BY <2>1, <2>2 DEF Tables, UnconfiguredIsLeaving
<1>4. UnconfiguredIsLeaving'
  BY <1>3 DEF UnconfiguredIsLeaving
<1>. QED
  BY <1>2, <1>4

LEMMA LaunchShown ==
  ASSUME TypeOK, Tables, NEW L \in SUBSET Names, NEW out \in Outs(L), NEW timer,
         Spawn(L, out, timer), ui' = LaunchUi(L, out)
  PROVE  ShownInv'
<1>. SUFFICES ASSUME NEW n \in Names, child'[n] = "none"
              PROVE  ui'[n] \notin {"Running", "Stopping"}
  BY DEF ShownInv, Live
<1>1. n \notin Spawned(L, out) /\ ~Live(n)
  BY DEF Spawn, Live
<1>2. ui[n] \notin {"Running", "Stopping"}
  BY <1>1 DEF Tables, ShownInv
<1>. QED
  BY <1>1, <1>2 DEF LaunchUi

\* create_md_channel costs no running strategy its reader entry.
LEMMA OpenedReaders ==
  ASSUME TypeOK, Tables, NEW L \in SUBSET Names, NEW out \in Outs(L), OpenChannels(L, out),
         RegistryGrows,
         \A s \in Strategies : child'[s] # "none" /\ autos'[s] = 0 =>
                                 Live(s) /\ autos[s] = 0,
         autos' \in [Names -> Nat]
  PROVE  LaunchedAsReader' /\ FirstOpenInv'
<1>1. ASSUME NEW s \in Strategies, s \in registry', child'[s] # "none", autos'[s] = 0
      PROVE  s \in readers'[Source[s]]
  <2>. DEFINE m == Source[s]
  <2>0. m \in Md /\ s \in Names
    BY MdNames
  <2>1. s \in registry /\ Live(s) /\ autos[s] = 0
    BY <1>1 DEF RegistryGrows
  <2>2. s \in readers[m]
    BY <2>1 DEF Tables, LaunchedAsReader
  <2>3. mdst[m] # "none"
    BY <2>1 DEF Tables, FirstOpenInv
  <2>4. ~(m \in Created(L, out) /\ out[m] = "reset")
    <3>1. SUFFICES ASSUME m \in L, out[m] = "reset" PROVE FALSE
      BY DEF Created
    <3>2. \A t \in BoundTo(m) : ~Live(t)
      BY <3>1 DEF Outs, CanCome
    <3>. QED
      BY <2>1, <3>2 DEF BoundTo
  <2>. QED
    BY <2>0, <2>2, <2>3, <2>4 DEF OpenChannels
<1>2. ASSUME NEW s \in Strategies, mdst'[Source[s]] = "none", child'[s] # "none"
      PROVE  autos'[s] > 0
  <2>0. Source[s] \in Md /\ s \in Names
    BY MdNames
  <2>1. mdst[Source[s]] = "none"
    BY <1>2, <2>0 DEF OpenChannels
  <2>2. CASE autos'[s] = 0
    BY <1>2, <2>0, <2>1, <2>2 DEF Tables, FirstOpenInv, TypeOK
  <2>3. CASE autos'[s] # 0
    BY <2>0, <2>3
  <2>. QED
    BY <2>2, <2>3
<1>. QED
  BY <1>1, <1>2 DEF LaunchedAsReader, FirstOpenInv, Live

\* A strategy is entered as a reader before it is spawned, and its source is open.
LEMMA LaunchReaders ==
  ASSUME TypeOK, Tables, NEW L \in SUBSET Strategies, NEW out \in Outs(L), Launch(L, out),
         \A s \in L : mdst[Source[s]] = "Running",
         \A m \in Md : readers'[m] = readers[m] \cup {s \in L : Source[s] = m},
         RegistryGrows, UNCHANGED mdst
  PROVE  LaunchedAsReader' /\ FirstOpenInv'
<1>0. L \in SUBSET Names
  BY MdNames
<1>1. ASSUME NEW s \in Strategies, s \in registry', child'[s] # "none", autos'[s] = 0
      PROVE  s \in readers'[Source[s]]
  <2>0. Source[s] \in Md /\ s \in Names
    BY MdNames
  <2>1. CASE s \in Spawned(L, out)
    BY <1>0, <2>0, <2>1, SpawnedFacts
  <2>2. CASE s \notin Spawned(L, out)
    <3>1. child'[s] = child[s] /\ autos'[s] = autos[s]
      BY <2>0, <2>2 DEF Launch, Spawn
    <3>2. s \in readers[Source[s]]
      BY <1>1, <3>1 DEF Tables, LaunchedAsReader, RegistryGrows, Live
    <3>. QED
      BY <2>0, <3>2
  <2>. QED
    BY <2>1, <2>2
<1>2. ASSUME NEW s \in Strategies, mdst[Source[s]] = "none", child'[s] # "none"
      PROVE  autos'[s] > 0
  <2>1. s \notin Spawned(L, out) /\ s \in Names
    BY <1>0, <1>2, MdNames, SpawnedFacts
  <2>2. child'[s] = child[s] /\ autos'[s] = autos[s]
    BY <2>1 DEF Launch, Spawn
  <2>. QED
    BY <1>2, <2>2 DEF Tables, FirstOpenInv, Live
<1>. QED
  BY <1>1, <1>2 DEF LaunchedAsReader, FirstOpenInv, Live

\* A channel that is opened is not ready until its gateway has announced itself.
LEMMA OpenedPending ==
  ASSUME TypeOK, Tables, NEW L, NEW out, OpenChannels(L, out), UNCHANGED <<pending, shutting>>
  PROVE  PendingInv' /\ PendingServed'
<1>1. \A m \in Md : SourceReady(m)' => SourceReady(m)
  BY DEF OpenChannels, SourceReady
<1>. QED
  BY <1>1 DEF Tables, PendingInv, PendingServed

-----------------------------------------------------------------------------
(* The tables, action by action.                                           *)

LEMMA StartAllTables == TypeOK /\ TypeOK' /\ Tables /\ StartAll => Tables'
<1>. SUFFICES ASSUME TypeOK, TypeOK', Tables, StartAll PROVE Tables'
  OBVIOUS
<1>. DEFINE L == registry \ Strategies
<1>1. L \in SUBSET Names /\ L \subseteq registry /\ \A n \in L : n \notin Strategies
  BY DEF TypeOK
<1>2. PICK out \in Outs(L) :
          /\ Launch(L, out)
          /\ OpenChannels(L, out)
          /\ ui' = LaunchUi(L, out)
  BY DEF StartAll
<1>3. UNCHANGED <<registry, removing, rtQ, pending, shutting>>
  BY DEF StartAll, shutdownVars
<1>4. RegistryGrows
  BY <1>3 DEF RegistryGrows
<1>. HIDE DEF L
<1>5. RestartInv' /\ RestartsBounded'
  BY <1>1, <1>2, <1>3, LaunchRestarts
<1>6. RemovalsAreOfChildren' /\ UnconfiguredIsLeaving'
  BY <1>1, <1>2, <1>3, <1>4, LaunchConfigured
<1>7. Spawn(L, out, rt)
  BY <1>2 DEF Launch
<1>8. ShownInv'
  BY <1>1, <1>2, <1>7, LaunchShown
<1>9. LaunchedAsReader' /\ FirstOpenInv'
  <2>1. ASSUME NEW s \in Strategies
        PROVE  child'[s] = child[s] /\ autos'[s] = autos[s]
    <3>1. s \notin Spawned(L, out) /\ s \in Names
      BY <1>1, MdNames, SpawnedFacts
    <3>. QED
      BY <1>2, <3>1 DEF Launch, Spawn
  <2>2. autos' \in [Names -> Nat]
    BY DEF TypeOK
  <2>. QED
    BY <1>1, <1>2, <1>4, <2>1, <2>2, OpenedReaders DEF Live
<1>10. PendingInv' /\ PendingServed'
  BY <1>2, <1>3, OpenedPending
<1>. QED
  BY <1>5, <1>6, <1>8, <1>9, <1>10 DEF Tables

LEMMA PromoteTables ==
  ASSUME NEW m \in Md
  PROVE  TypeOK /\ TypeOK' /\ Tables /\ PromoteReadySource(m) => Tables'
<1>. SUFFICES ASSUME TypeOK, TypeOK', Tables, PromoteReadySource(m) PROVE Tables'
  OBVIOUS
<1>. DEFINE L == {s \in BoundTo(m) : ~Live(s)}
<1>1. /\ L \in SUBSET Names /\ L \in SUBSET Strategies /\ L \subseteq registry
      /\ \A s \in L : Source[s] = m
  BY MdNames DEF TypeOK, BoundTo
<1>2. PICK out \in Outs(L) : Launch(L, out) /\ ui' = LaunchUi(L, out)
  BY DEF PromoteReadySource
<1>2a. PreRegister(L) /\ mdst[m] = "Running"
  BY DEF PromoteReadySource, SourceReady
<1>3. UNCHANGED <<registry, removing, rtQ, pending, shutting, mdst, ready>>
  BY DEF PromoteReadySource, shutdownVars, PreRegister
<1>4. RegistryGrows
  BY <1>3 DEF RegistryGrows
<1>. HIDE DEF L
<1>5. RestartInv' /\ RestartsBounded'
  BY <1>1, <1>2, <1>3, LaunchRestarts
<1>6. RemovalsAreOfChildren' /\ UnconfiguredIsLeaving'
  BY <1>1, <1>2, <1>3, <1>4, LaunchConfigured
<1>7. Spawn(L, out, rt)
  BY <1>2 DEF Launch
<1>8. ShownInv'
  BY <1>1, <1>2, <1>7, LaunchShown
<1>9. LaunchedAsReader' /\ FirstOpenInv'
  <2>1. \A k \in Md : readers'[k] = readers[k] \cup {s \in L : Source[s] = k}
    BY <1>2a DEF PreRegister
  <2>. QED
    BY <1>1, <1>2, <1>2a, <1>3, <1>4, <2>1, LaunchReaders
<1>10. PendingInv' /\ PendingServed'
  BY <1>3 DEF Tables, PendingInv, PendingServed, SourceReady
<1>. QED
  BY <1>5, <1>6, <1>8, <1>9, <1>10 DEF Tables

LEMMA WaitDoneTables == TypeOK /\ TypeOK' /\ Tables /\ WaitDone /\ PhaseInv => Tables'
<1>. SUFFICES ASSUME TypeOK, TypeOK', Tables, WaitDone, PhaseInv PROVE Tables'
  OBVIOUS
<1>1. UNCHANGED <<registry, child, removing, counts, timers, channels, shutdownVars, autos>>
  BY DEF WaitDone
<1>2. /\ RestartInv' /\ RestartsBounded' /\ RemovalsAreOfChildren' /\ UnconfiguredIsLeaving'
      /\ LaunchedAsReader' /\ FirstOpenInv'
  BY <1>1 DEF Tables, RestartInv, RestartsBounded, RemovalsAreOfChildren,
     UnconfiguredIsLeaving, LaunchedAsReader, FirstOpenInv, Live, timers, channels, shutdownVars
<1>3. ShownInv'
  <2>. SUFFICES ASSUME NEW n \in Names, child[n] = "none"
                PROVE  ui'[n] \notin {"Running", "Stopping"}
    BY <1>1 DEF ShownInv, Live
  <2>1. ui[n] \notin {"Running", "Stopping"}
    BY DEF Tables, ShownInv, Live
  <2>. QED
    BY <2>1 DEF WaitDone, SnapshotUi, Live
<1>4. ASSUME NEW m \in Md
      PROVE  /\ \A s \in pending'[m] : Source[s] = m
             /\ SourceReady(m)' => pending'[m] = {}
  <2>1. pending'[m] = IF m \in promoted THEN pending[m]
                      ELSE pending[m] \cup {s \in BoundTo(m) : ~Live(s)}
    BY DEF WaitDone
  <2>2. SourceReady(m)' <=> SourceReady(m)
    BY <1>1 DEF SourceReady, channels
  <2>3. /\ \A s \in pending[m] : Source[s] = m
        /\ SourceReady(m) => pending[m] = {}
    BY DEF Tables, PendingInv, PendingServed
  <2>4. SourceReady(m) => m \in promoted \/ BoundTo(m) = {}
    BY DEF WaitDone, AllPromoted
  <2>. QED
    BY <2>1, <2>2, <2>3, <2>4 DEF BoundTo
<1>5. ~shutting'
  BY <1>1 DEF WaitDone, PhaseInv, shutdownVars
<1>6. PendingInv' /\ PendingServed'
  BY <1>4, <1>5 DEF PendingInv, PendingServed
<1>. QED
  BY <1>2, <1>3, <1>6 DEF Tables

LEMMA RefusedTables ==
  ASSUME NEW n \in Names
  PROVE  TypeOK /\ TypeOK' /\ Tables /\ (StartRefused(n) \/ StartConfigRejected(n)) => Tables'
<1>. SUFFICES ASSUME TypeOK, TypeOK', Tables, StartRefused(n) \/ StartConfigRejected(n)
              PROVE  Tables'
  OBVIOUS
<1>1. UNCHANGED <<child, rt, rtQ, counts, autos, removing, channels, pending, shutting>>
  BY DEF StartRefused, StartConfigRejected, timers, shutdownVars
<1>2. RegistryGrows
  <2>1. CASE StartRefused(n)
    BY <2>1 DEF StartRefused, RegistryGrows
  <2>2. CASE StartConfigRejected(n)
    BY <2>2, GatewaysRegister DEF StartConfigRejected
  <2>. QED
    BY <2>1, <2>2
<1>3. ui' = [ui EXCEPT ![n] = "Crashed"]
  BY DEF StartRefused, StartConfigRejected, Tell
<1>4. ShownInv'
  BY <1>1, <1>3 DEF Tables, ShownInv, Live, TypeOK
<1>. QED
  BY <1>1, <1>2, <1>4, CalmTables

LEMMA HandleStartTables ==
  ASSUME NEW n \in Names
  PROVE  TypeOK /\ TypeOK' /\ Tables /\ HandleStart(n) => Tables'
<1>. SUFFICES ASSUME TypeOK, TypeOK', Tables, HandleStart(n) PROVE Tables'
  OBVIOUS
<1>1. /\ UNCHANGED <<removing, rtQ, shutting>> /\ ~shutting
      /\ n \in registry \cup Gateways /\ registry' = registry \cup {n}
  BY DEF HandleStart, StartProcess, shutdownVars
<1>2. RegistryGrows
  BY <1>1, GatewaysRegister
<1>3. CASE /\ Live(n)
           /\ Tell(n, child[n])
           /\ UNCHANGED <<child, inc, counts, rt, wd, channels, pending, autos>>
  <2>1. ShownInv'
    BY <1>3 DEF Tables, ShownInv, Live, TypeOK, Tell
  <2>. QED
    BY <1>1, <1>2, <1>3, <2>1, CalmTables
<1>4. CASE /\ n \in Strategies /\ ~SourceReady(Source[n])
           /\ pending' = [pending EXCEPT ![Source[n]] = @ \cup {n}]
           /\ Tell(n, "Starting")
           /\ UNCHANGED <<child, inc, counts, rt, wd, channels, autos>>
  <2>1. ShownInv'
    BY <1>4 DEF Tables, ShownInv, Live, TypeOK, Tell
  <2>2. RestartInv' /\ RestartsBounded' /\ RemovalsAreOfChildren'
    BY <1>1, <1>4 DEF Tables, RestartInv, RestartsBounded, RemovalsAreOfChildren, Live
  <2>3. UnconfiguredIsLeaving' /\ LaunchedAsReader' /\ FirstOpenInv'
    BY <1>1, <1>2, <1>4 DEF Tables, UnconfiguredIsLeaving, LaunchedAsReader, FirstOpenInv,
       Live, RegistryGrows, channels
  <2>4. Source[n] \in Md
    BY <1>4
  <2>5. ASSUME NEW m \in Md
        PROVE  /\ \A s \in pending'[m] : Source[s] = m
               /\ SourceReady(m)' => pending'[m] = {}
    <3>1. SourceReady(m)' <=> SourceReady(m)
      BY <1>4 DEF SourceReady, channels
    <3>2. /\ \A s \in pending[m] : Source[s] = m
          /\ SourceReady(m) => pending[m] = {}
      BY DEF Tables, PendingInv, PendingServed
    <3>. QED
      BY <1>4, <2>4, <3>1, <3>2 DEF TypeOK
  <2>6. PendingInv' /\ PendingServed'
    BY <1>1, <2>5 DEF PendingInv, PendingServed
  <2>. QED
    BY <2>1, <2>2, <2>3, <2>6 DEF Tables
<1>5. ASSUME ~Live(n), n \in Strategies => SourceReady(Source[n]),
             NEW out \in Outs({n}),
             Launch({n}, out),
             IF n \in Strategies THEN PreRegister({n}) ELSE OpenChannels({n}, out),
             Tell(n, IF n \in Spawned({n}, out) THEN "Running" ELSE "Crashed"),
             UNCHANGED pending
      PROVE  Tables'
  <2>0. {n} \in SUBSET Names /\ {n} \subseteq registry'
    BY <1>1
  <2>1. RestartInv' /\ RestartsBounded'
    BY <1>1, <1>5, <2>0, LaunchRestarts
  <2>2. RemovalsAreOfChildren' /\ UnconfiguredIsLeaving'
    BY <1>1, <1>2, <1>5, <2>0, LaunchConfigured
  <2>3. ShownInv'
    <3>. SUFFICES ASSUME NEW k \in Names, child'[k] = "none"
                  PROVE  ui'[k] \notin {"Running", "Stopping"}
      BY DEF ShownInv, Live
    <3>1. k \notin Spawned({n}, out) /\ ~Live(k)
      BY <1>5 DEF Launch, Spawn, Live
    <3>2. ui[k] \notin {"Running", "Stopping"}
      BY <3>1 DEF Tables, ShownInv
    <3>. QED
      BY <1>5, <3>1, <3>2 DEF Tell, TypeOK
  <2>4. CASE n \in Strategies
    <3>1. {n} \in SUBSET Strategies /\ mdst[Source[n]] = "Running"
      BY <1>5, <2>4 DEF SourceReady
    <3>2. /\ \A k \in Md : readers'[k] = readers[k] \cup {s \in {n} : Source[s] = k}
          /\ UNCHANGED <<mdst, ready>>
      BY <1>5, <2>4 DEF PreRegister
    <3>3. LaunchedAsReader' /\ FirstOpenInv'
      BY <1>2, <1>5, <3>1, <3>2, LaunchReaders
    <3>4. PendingInv' /\ PendingServed'
      BY <1>1, <1>5, <3>2 DEF Tables, PendingInv, PendingServed, SourceReady
    <3>. QED
      BY <2>1, <2>2, <2>3, <3>3, <3>4 DEF Tables
  <2>5. CASE n \notin Strategies
    <3>1. OpenChannels({n}, out)
      BY <1>5, <2>5
    <3>2. ASSUME NEW s \in Strategies
          PROVE  child'[s] = child[s] /\ autos'[s] = autos[s]
      <4>1. s \notin Spawned({n}, out) /\ s \in Names
        BY <2>0, <2>5, MdNames, SpawnedFacts
      <4>. QED
        BY <1>5, <4>1 DEF Launch, Spawn
    <3>3. autos' \in [Names -> Nat]
      BY DEF TypeOK
    <3>4. LaunchedAsReader' /\ FirstOpenInv'
      BY <1>2, <2>0, <3>1, <3>2, <3>3, OpenedReaders DEF Live
    <3>5. PendingInv' /\ PendingServed'
      BY <1>1, <1>5, <3>1, OpenedPending
    <3>. QED
      BY <2>1, <2>2, <2>3, <3>4, <3>5 DEF Tables
  <2>. QED
    BY <2>4, <2>5
<1>. QED
  BY <1>3, <1>4, <1>5 DEF HandleStart, StartProcess

LEMMA HandleStopTables ==
  ASSUME NEW n \in Names
  PROVE  TypeOK /\ TypeOK' /\ Tables /\ HandleStop(n) => Tables'
<1>. SUFFICES ASSUME TypeOK, TypeOK', Tables, HandleStop(n) PROVE Tables'
  OBVIOUS
<1>1. UNCHANGED <<registry, child, removing, rtQ, pending, channels, shutting, autos>>
  BY DEF HandleStop, shutdownVars
<1>2. ShownInv'
  <2>1. ui' = [ui EXCEPT ![n] = "Stopped"] \/ (Live(n) /\ ui' = [ui EXCEPT ![n] = "Stopping"])
    BY DEF HandleStop, Tell
  <2>. QED
    BY <1>1, <2>1, ZenonT(60) DEF Tables, ShownInv, Live, TypeOK
<1>3. RestartInv' /\ RestartsBounded'
  <2>1. UNCHANGED <<rt, counts>> \/ (~Live(n) /\ CancelRestart(n))
    BY DEF HandleStop
  <2>. QED
    BY <1>1, <2>1, ZenonT(60) DEF Tables, RestartInv, RestartsBounded, Live, CancelRestart, TypeOK
<1>4. /\ RemovalsAreOfChildren' /\ UnconfiguredIsLeaving' /\ LaunchedAsReader' /\ FirstOpenInv'
      /\ PendingInv' /\ PendingServed'
  BY <1>1 DEF Tables, RemovalsAreOfChildren, UnconfiguredIsLeaving, LaunchedAsReader,
     FirstOpenInv, PendingInv, PendingServed, SourceReady, Live, channels
<1>. QED
  BY <1>2, <1>3, <1>4 DEF Tables

\* A channel that is left is not ready, and one that was never opened is not touched.
LEMMA LeftChannel ==
  ASSUME TypeOK, NEW n \in Names, NEW status \in {"Stopped", "Tombstone"},
         LeaveChannel(n, status)
  PROVE  /\ \A m \in Md : (mdst[m] = "Running" /\ ready[m]) \/ ~(mdst'[m] = "Running" /\ ready'[m])
         /\ \A m \in Md : mdst'[m] = "none" <=> mdst[m] = "none"
<1>1. CASE n \in Md /\ mdst[n] # "none"
  <2>1. mdst' = [mdst EXCEPT ![n] = status] /\ ready' = [ready EXCEPT ![n] = FALSE]
    BY <1>1 DEF LeaveChannel
  <2>. QED
    BY <1>1, <2>1 DEF TypeOK
<1>2. CASE ~(n \in Md /\ mdst[n] # "none")
  BY <1>2 DEF LeaveChannel
<1>. QED
  BY <1>1, <1>2

LEMMA HandleRemoveTables ==
  ASSUME NEW n \in Names
  PROVE  TypeOK /\ TypeOK' /\ Tables /\ HandleRemove(n) => Tables'
<1>. SUFFICES ASSUME TypeOK, TypeOK', Tables, HandleRemove(n) PROVE Tables'
  OBVIOUS
<1>1. UNCHANGED <<child, rtQ, pending, readers, shutting, autos>>
  BY DEF HandleRemove, shutdownVars
<1>2. ShownInv'
  <2>1. ui' = [ui EXCEPT ![n] = "Stopped"] \/ (Live(n) /\ ui' = [ui EXCEPT ![n] = "Stopping"])
    BY DEF HandleRemove, Tell
  <2>. QED
    BY <1>1, <2>1, ZenonT(60) DEF Tables, ShownInv, Live, TypeOK
<1>3. RestartInv' /\ RestartsBounded'
  <2>1. UNCHANGED <<rt, counts>> \/ (~Live(n) /\ CancelRestart(n))
    BY DEF HandleRemove
  <2>. QED
    BY <1>1, <2>1, ZenonT(60) DEF Tables, RestartInv, RestartsBounded, Live, CancelRestart, TypeOK
<1>4. RemovalsAreOfChildren' /\ UnconfiguredIsLeaving'
  <2>1. \/ UNCHANGED <<registry, removing>>
        \/ Live(n) /\ registry' = registry \ {n} /\ removing' = removing \cup {n}
        \/ ~Live(n) /\ registry' = registry \ {n} /\ removing' = removing \ {n}
    BY DEF HandleRemove, MarkRemovePending, ConsumeRemovePending
  <2>. QED
    BY <1>1, <2>1 DEF Tables, RemovalsAreOfChildren, UnconfiguredIsLeaving, Live
<1>5. /\ \A m \in Md : SourceReady(m)' => SourceReady(m)
      /\ \A m \in Md : mdst'[m] = "none" <=> mdst[m] = "none"
  <2>1. UNCHANGED <<mdst, ready>> \/ LeaveChannel(n, "Tombstone")
    BY DEF HandleRemove
  <2>. QED
    BY <2>1, LeftChannel DEF SourceReady
<1>6. registry' \subseteq registry
  BY DEF HandleRemove
<1>7. LaunchedAsReader' /\ FirstOpenInv'
  BY <1>1, <1>5, <1>6 DEF Tables, LaunchedAsReader, FirstOpenInv, Live
<1>8. PendingInv' /\ PendingServed'
  BY <1>1, <1>5 DEF Tables, PendingInv, PendingServed
<1>. QED
  BY <1>2, <1>3, <1>4, <1>7, <1>8 DEF Tables

\* Snapshots, announcements and timers that expire or kill.
LEMMA SnapshotTables == TypeOK /\ TypeOK' /\ Tables /\ Snapshot => Tables'
<1>. SUFFICES ASSUME TypeOK, TypeOK', Tables, Snapshot PROVE Tables'
  OBVIOUS
<1>1. UNCHANGED <<registry, child, rt, rtQ, counts, autos, removing, channels, pending, shutting>>
  BY DEF Snapshot, timers, shutdownVars
<1>2. ShownInv'
  <2>. SUFFICES ASSUME NEW n \in Names, child[n] = "none"
                PROVE  ui'[n] \notin {"Running", "Stopping"}
    BY <1>1 DEF ShownInv, Live
  <2>1. ui[n] \notin {"Running", "Stopping"}
    BY DEF Tables, ShownInv, Live
  <2>. QED
    BY <2>1 DEF Snapshot, SnapshotUi, Live
<1>3. RegistryGrows
  BY <1>1 DEF RegistryGrows
<1>. QED
  BY <1>1, <1>2, <1>3, CalmTables

LEMMA CalmActions ==
  ASSUME TypeOK, TypeOK', Tables,
         \/ \E m \in Md : MdAnnounce(m) \/ WatchdogExpires(m) \/ OnMdReadyTimeout(m)
         \/ \E n \in Names : StopTimerExpires(n) \/ OnSingleStopTimeout(n)
         \/ BatchTimerExpires \/ ForceTerminateBatch \/ ForceExit
  PROVE  Tables'
<1>1. UNCHANGED <<registry, rt, rtQ, counts, autos, removing, channels, pending, shutting, ui>>
  BY DEF MdAnnounce, WatchdogExpires, OnMdReadyTimeout, StopTimerExpires, OnSingleStopTimeout,
     BatchTimerExpires, ForceTerminateBatch, ForceExit, timers, shutdownVars
<1>2. \A n \in Names : (child'[n] = "none") <=> (child[n] = "none")
  <2>0. child \in [Names -> {"none", "Running", "Stopping"}] /\ Md \subseteq Names
    BY MdNames DEF TypeOK
  <2>1. CASE \E m \in Md : MdAnnounce(m) \/ WatchdogExpires(m) \/ OnMdReadyTimeout(m)
    BY <2>0, <2>1 DEF MdAnnounce, WatchdogExpires, OnMdReadyTimeout, Terminate, Live
  <2>2. CASE \E n \in Names : StopTimerExpires(n) \/ OnSingleStopTimeout(n)
    BY <2>0, <2>2 DEF StopTimerExpires, OnSingleStopTimeout, Terminate, Live
  <2>3. CASE BatchTimerExpires \/ ForceTerminateBatch \/ ForceExit
    BY <2>0, <2>3 DEF BatchTimerExpires, ForceTerminateBatch, ForceExit, Live
  <2>. QED
    BY <2>1, <2>2, <2>3
<1>3. ShownInv'
  BY <1>1, <1>2 DEF Tables, ShownInv, Live
<1>4. RegistryGrows
  BY <1>1 DEF RegistryGrows
<1>. QED
  BY <1>1, <1>2, <1>3, <1>4, CalmTables

LEMMA RestartExpiresTables ==
  ASSUME NEW n \in Names
  PROVE  TypeOK /\ TypeOK' /\ Tables /\ RestartTimerExpires(n) => Tables'
<1>. SUFFICES ASSUME TypeOK, TypeOK', Tables, RestartTimerExpires(n) PROVE Tables'
  OBVIOUS
<1>1. UNCHANGED <<registry, child, counts, autos, removing, channels, pending, shutting, ui>>
  BY DEF RestartTimerExpires, shutdownVars
<1>2. RestartInv' /\ RestartsBounded'
  BY <1>1 DEF Tables, RestartInv, RestartsBounded, RestartTimerExpires, Live, TypeOK
<1>3. /\ RemovalsAreOfChildren' /\ UnconfiguredIsLeaving' /\ LaunchedAsReader' /\ FirstOpenInv'
      /\ PendingInv' /\ PendingServed' /\ ShownInv'
  BY <1>1 DEF Tables, RemovalsAreOfChildren, UnconfiguredIsLeaving, LaunchedAsReader, ShownInv,
     FirstOpenInv, PendingInv, PendingServed, SourceReady, Live, channels
<1>. QED
  BY <1>2, <1>3 DEF Tables

\* A restart counts one more and puts the count back that the launch has erased.
LEMMA OnRestartTables ==
  ASSUME NEW n \in Names
  PROVE  TypeOK /\ TypeOK' /\ Tables /\ OnRestartTimer(n) => Tables'
<1>. SUFFICES ASSUME TypeOK, TypeOK', Tables, OnRestartTimer(n) PROVE Tables'
  OBVIOUS
<1>1. /\ UNCHANGED <<registry, removing, pending, shutting>>
      /\ rtQ' = [rtQ EXCEPT ![n] = 0] /\ rtQ[n] # 0
  BY DEF OnRestartTimer, shutdownVars
<1>2. RegistryGrows
  BY <1>1 DEF RegistryGrows
<1>3. CASE /\ rt' = [rt EXCEPT ![n] = 0]
           /\ UNCHANGED <<child, inc, counts, channels, wd, ui, autos>>
  <2>1. RestartInv' /\ RestartsBounded'
    BY <1>1, <1>3 DEF Tables, RestartInv, RestartsBounded, Live, TypeOK
  <2>2. /\ RemovalsAreOfChildren' /\ UnconfiguredIsLeaving' /\ LaunchedAsReader' /\ FirstOpenInv'
        /\ PendingInv' /\ PendingServed' /\ ShownInv'
    BY <1>1, <1>3 DEF Tables, RemovalsAreOfChildren, UnconfiguredIsLeaving, LaunchedAsReader,
       ShownInv, FirstOpenInv, PendingInv, PendingServed, SourceReady, Live, channels
  <2>. QED
    BY <2>1, <2>2 DEF Tables
<1>4. ASSUME NEW out \in Outs({n}),
             Spawn({n}, out, [rt EXCEPT ![n] = 0]),
             OpenChannels({n}, out),
             ui' = LaunchUi({n}, out),
             counts' = RestartCounts(n, out),
             autos' = [autos EXCEPT ![n] = IF n \in Spawned({n}, out) THEN @ + 1 ELSE @]
      PROVE  Tables'
  <2>0. {n} \in SUBSET Names
    OBVIOUS
  <2>1. /\ autos \in [Names -> Nat] /\ rt \in [Names -> 0..MaxAttempts]
        /\ rtQ \in [Names -> 0..MaxAttempts] /\ counts \in [Names -> 0..MaxAttempts]
    BY DEF TypeOK
  <2>2. ASSUME NEW k \in Names
        PROVE  /\ rt'[k] # 0 => autos'[k] < rt'[k]
               /\ rtQ'[k] # 0 => autos'[k] < rtQ'[k]
               /\ child'[k] # "none" /\ ~shutting => autos'[k] <= counts'[k]
               /\ autos'[k] <= MaxAttempts
    <3>1. /\ rt[k] # 0 => autos[k] < rt[k]
          /\ rtQ[k] # 0 => autos[k] < rtQ[k]
          /\ child[k] # "none" /\ ~shutting => autos[k] <= counts[k]
          /\ autos[k] <= MaxAttempts
      BY DEF Tables, RestartInv, RestartsBounded, Live
    <3>2. CASE k # n
      <4>1. /\ rt'[k] = rt[k] /\ rtQ'[k] = rtQ[k] /\ autos'[k] = autos[k]
            /\ child'[k] = child[k]
        BY <1>1, <1>4, <2>1, <3>2 DEF Spawn, Spawned
      <4>2. counts'[k] = counts[k]
        BY <1>4, <2>1, <3>2 DEF RestartCounts, LaunchCounts
      <4>. QED
        BY <3>1, <4>1, <4>2
    <3>3. CASE k = n /\ n \in Spawned({n}, out)
      <4>1. /\ rt'[k] = 0 /\ rtQ'[k] = 0 /\ autos'[k] = autos[k] + 1
            /\ counts'[k] = rtQ[k]
        BY <1>1, <1>4, <2>1, <3>3 DEF Spawn, RestartCounts
      <4>. QED
        BY <1>1, <2>1, <3>1, <3>3, <4>1
    <3>4. CASE k = n /\ n \notin Spawned({n}, out)
      <4>1. /\ rt'[k] = 0 /\ rtQ'[k] = 0 /\ autos'[k] = autos[k]
            /\ child'[k] = child[k]
        BY <1>1, <1>4, <2>1, <3>4 DEF Spawn
      <4>2. child[k] # "none" => counts'[k] = counts[k]
        BY <1>4, <2>1, <3>4 DEF RestartCounts, LaunchCounts, Live
      <4>. QED
        BY <3>1, <4>1, <4>2
    <3>. QED
      BY <3>2, <3>3, <3>4
  <2>3. RestartInv' /\ RestartsBounded'
    BY <1>1, <2>2 DEF RestartInv, RestartsBounded, Live
  <2>4. \A k \in Names : /\ Live(k) => Live(k)'
                         /\ Live(k)' => Live(k) \/ (k = n /\ autos'[k] > 0)
                         /\ autos'[k] >= autos[k]
    BY <1>4, <2>1 DEF Live, Spawn, Spawned
  <2>5. RemovalsAreOfChildren' /\ UnconfiguredIsLeaving'
    <3>1. RemovalsAreOfChildren'
      BY <1>1, <2>4 DEF Tables, RemovalsAreOfChildren, TypeOK
    <3>2. ASSUME NEW k \in Names, Live(k)', k \notin registry
          PROVE  k \in removing \/ autos'[k] > 0
      <4>1. CASE Live(k)
        <5>1. k \in removing \/ autos[k] > 0
          BY <3>2, <4>1 DEF Tables, UnconfiguredIsLeaving
        <5>2. autos[k] \in Nat /\ autos'[k] \in Nat
          BY DEF TypeOK
        <5>. QED
          BY <2>4, <5>1, <5>2
      <4>. QED
        BY <2>4, <3>2, <4>1
    <3>. QED
      BY <1>1, <3>1, <3>2 DEF UnconfiguredIsLeaving
  <2>6. ShownInv'
    BY <1>4, <2>0, LaunchShown
  <2>7. LaunchedAsReader' /\ FirstOpenInv'
    <3>1. autos' \in [Names -> Nat]
      BY DEF TypeOK
    <3>2. ASSUME NEW s \in Strategies, child'[s] # "none", autos'[s] = 0
          PROVE  Live(s) /\ autos[s] = 0
      <4>1. s \in Names /\ autos[s] \in Nat
        BY <2>1, MdNames
      <4>. QED
        BY <2>4, <3>2, <4>1 DEF Live
    <3>. QED
      BY <1>2, <1>4, <2>0, <3>1, <3>2, OpenedReaders
  <2>8. PendingInv' /\ PendingServed'
    BY <1>1, <1>4, OpenedPending
  <2>. QED
    BY <2>3, <2>5, <2>6, <2>7, <2>8 DEF Tables
<1>. QED
  BY <1>3, <1>4 DEF OnRestartTimer

\* mark_md_channel_ready empties the waiting list it starts the strategies from.
LEMMA MdStartedTables ==
  ASSUME NEW m \in Md
  PROVE  TypeOK /\ TypeOK' /\ Tables /\ MdStarted(m) => Tables'
<1>. SUFFICES ASSUME TypeOK, TypeOK', Tables, MdStarted(m) PROVE Tables'
  OBVIOUS
<1>1. UNCHANGED <<registry, removing, rtQ, shutting>>
  BY DEF MdStarted, shutdownVars
<1>2. RegistryGrows
  BY <1>1 DEF RegistryGrows
<1>3. CASE UNCHANGED <<child, inc, counts, rt, wd, channels, pending, autos, ui>>
  <2>1. ShownInv'
    BY <1>3 DEF Tables, ShownInv, Live
  <2>. QED
    BY <1>1, <1>2, <1>3, <2>1, CalmTables
<1>4. CASE /\ mdst[m] = "Running"
           /\ pending' = [pending EXCEPT ![m] = {}]
           /\ LET L == pending[m] \cap registry
              IN /\ readers' = [readers EXCEPT ![m] = @ \cup L]
                 /\ \E out \in Outs(L) : Launch(L, out) /\ ui' = LaunchUi(L, out)
           /\ wd' = [wd EXCEPT ![m] = FALSE]
           /\ ready' = [ready EXCEPT ![m] = TRUE]
           /\ UNCHANGED mdst
  <2>. DEFINE L == pending[m] \cap registry
  <2>1. /\ L \in SUBSET Names /\ L \in SUBSET Strategies /\ L \subseteq registry
        /\ \A s \in L : Source[s] = m
    BY DEF TypeOK, Tables, PendingInv
  <2>2. PICK out \in Outs(L) : Launch(L, out) /\ ui' = LaunchUi(L, out)
    BY <1>4
  <2>3. readers' = [readers EXCEPT ![m] = @ \cup L]
    BY <1>4
  <2>. HIDE DEF L
  <2>4. RestartInv' /\ RestartsBounded'
    BY <1>1, <2>1, <2>2, LaunchRestarts
  <2>5. RemovalsAreOfChildren' /\ UnconfiguredIsLeaving'
    BY <1>1, <1>2, <2>1, <2>2, LaunchConfigured
  <2>6. Spawn(L, out, rt)
    BY <2>2 DEF Launch
  <2>7. ShownInv'
    BY <2>1, <2>2, <2>6, LaunchShown
  <2>8. LaunchedAsReader' /\ FirstOpenInv'
    <3>1. \A k \in Md : readers'[k] = readers[k] \cup {s \in L : Source[s] = k}
      <4>. SUFFICES ASSUME NEW k \in Md
                    PROVE  readers'[k] = readers[k] \cup {s \in L : Source[s] = k}
        OBVIOUS
      <4>1. CASE k = m
        <5>1. {s \in L : Source[s] = k} = L
          BY <2>1, <4>1
        <5>. QED
          BY <2>3, <4>1, <5>1 DEF TypeOK
      <4>2. CASE k # m
        <5>1. {s \in L : Source[s] = k} = {}
          BY <2>1, <4>2
        <5>. QED
          BY <2>3, <4>2, <5>1 DEF TypeOK
      <4>. QED
        BY <4>1, <4>2
    <3>2. \A s \in L : mdst[Source[s]] = "Running"
      BY <1>4, <2>1
    <3>. QED
      BY <1>2, <1>4, <2>1, <2>2, <3>1, <3>2, LaunchReaders
  <2>9. PendingInv' /\ PendingServed'
    <3>1. ASSUME NEW k \in Md
          PROVE  /\ \A s \in pending'[k] : Source[s] = k
                 /\ SourceReady(k)' => pending'[k] = {}
                 /\ pending'[k] \subseteq pending[k]
      <4>1. CASE k = m
        BY <1>4, <4>1 DEF TypeOK
      <4>2. CASE k # m
        <5>1. pending'[k] = pending[k] /\ ready'[k] = ready[k] /\ mdst'[k] = mdst[k]
          BY <1>4, <4>2 DEF TypeOK
        <5>. QED
          BY <5>1 DEF Tables, PendingInv, PendingServed, SourceReady
      <4>. QED
        BY <4>1, <4>2
    <3>2. shutting' => \A k \in Md : pending'[k] = {}
      BY <1>1, <3>1 DEF Tables, PendingInv
    <3>. QED
      BY <3>1, <3>2 DEF PendingInv, PendingServed
  <2>. QED
    BY <2>4, <2>5, <2>7, <2>8, <2>9 DEF Tables
<1>. QED
  BY <1>3, <1>4 DEF MdStarted

\* What SendBatch shows.
LEMMA SendBatchShown ==
  ASSUME NEW i, NEW names, NEW kids, NEW shown, SendBatch(i, names, kids, shown),
         shown \in [Names -> {"Starting", "Running", "Stopping", "Stopped", "Crashed"}],
         NEW n \in Names, kids[n] = "none"
  PROVE  ui'[n] = shown[n]
<1>. DEFINE busy == {j \in i..5 : \E k \in Batch(j, names) : kids[k] # "none"}
            j == CHOOSE k \in busy : \A l \in busy : k <= l
<1>1. CASE busy = {}
  BY <1>1 DEF SendBatch
<1>2. CASE busy # {}
  <2>1. ui' = [k \in Names |-> IF k \in Batch(j, names) /\ kids[k] # "none"
                               THEN "Stopping" ELSE shown[k]]
    BY <1>2 DEF SendBatch
  <2>. QED
    BY <2>1
<1>. QED
  BY <1>1, <1>2

LEMMA ShutdownTables == TypeOK /\ TypeOK' /\ Tables /\ Shutdown => Tables'
<1>. SUFFICES ASSUME TypeOK, TypeOK', Tables, Shutdown PROVE Tables'
  OBVIOUS
<1>1. UNCHANGED <<registry, child, removing, rtQ, channels, autos>>
  BY DEF Shutdown
<1>2. shutting' /\ \A n \in Names : rt'[n] = 0
  BY DEF Shutdown
<1>3. RestartInv' /\ RestartsBounded'
  BY <1>1, <1>2 DEF Tables, RestartInv, RestartsBounded
<1>4. RemovalsAreOfChildren' /\ UnconfiguredIsLeaving' /\ LaunchedAsReader' /\ FirstOpenInv'
  BY <1>1 DEF Tables, RemovalsAreOfChildren, UnconfiguredIsLeaving, LaunchedAsReader,
     FirstOpenInv, Live, channels
<1>5. ShownInv'
  <2>1. SendBatch(1, {n \in Names : Live(n)}, child, ui)
    BY DEF Shutdown
  <2>2. ASSUME NEW n \in Names, child[n] = "none" PROVE ui'[n] = ui[n]
    <3>. DEFINE all == {k \in Names : Live(k)}
    <3>1. ui \in [Names -> {"Starting", "Running", "Stopping", "Stopped", "Crashed"}]
      BY DEF TypeOK
    <3>2. SendBatch(1, all, child, ui)
      BY <2>1
    <3>. HIDE DEF all
    <3>. QED
      BY <2>2, <3>1, <3>2, SendBatchShown
  <2>. QED
    BY <1>1, <2>2 DEF Tables, ShownInv, Live
<1>6. \A m \in Md : pending'[m] = {}
  BY DEF Shutdown, DropPending
<1>7. PendingInv' /\ PendingServed'
  BY <1>6 DEF PendingInv, PendingServed
<1>. QED
  BY <1>3, <1>4, <1>5, <1>7 DEF Tables

LEMMA ChildExitTables ==
  ASSUME NEW n \in Names, NEW code \in 0..1
  PROVE  TypeOK /\ TypeOK' /\ Tables /\ ChildExit(n, code) => Tables'
<1>. SUFFICES ASSUME TypeOK, TypeOK', Tables, ChildExit(n, code) PROVE Tables'
  OBVIOUS
<1>. DEFINE kids == [child EXCEPT ![n] = "none"]
            told == IF code = 0 THEN "Stopped" ELSE "Crashed"
            shown == [ui EXCEPT ![n] = told]
<1>1. /\ child' = kids /\ child[n] # "none" /\ removing' = removing \ {n}
      /\ autos' = [autos EXCEPT ![n] = IF code = 0 THEN 0 ELSE @]
      /\ readers' = [m \in Md |-> readers[m] \ {n}]
      /\ UNCHANGED <<registry, rtQ, pending, shutting>>
  BY DEF ChildExit, ConsumeRemovePending, Live
<1>2. /\ child'[n] = "none" /\ \A k \in Names : k # n => child'[k] = child[k] /\ autos'[k] = autos[k]
      /\ autos'[n] <= autos[n] /\ autos \in [Names -> Nat]
  BY <1>1 DEF TypeOK
<1>3. RestartInv' /\ RestartsBounded'
  <2>. SUFFICES ASSUME NEW k \in Names
                PROVE  /\ rt'[k] # 0 => autos'[k] < rt'[k]
                       /\ rtQ[k] # 0 => autos'[k] < rtQ[k]
                       /\ child'[k] # "none" /\ ~shutting => autos'[k] <= counts'[k]
                       /\ autos'[k] <= MaxAttempts
    BY <1>1 DEF RestartInv, RestartsBounded, Live
  <2>1. /\ rt[k] # 0 => autos[k] < rt[k]
        /\ rtQ[k] # 0 => autos[k] < rtQ[k]
        /\ child[k] # "none" /\ ~shutting => autos[k] <= counts[k]
        /\ autos[k] <= MaxAttempts
    BY DEF Tables, RestartInv, RestartsBounded, Live
  <2>2. /\ rt \in [Names -> 0..MaxAttempts] /\ counts \in [Names -> 0..MaxAttempts]
        /\ rtQ \in [Names -> 0..MaxAttempts] /\ autos' \in [Names -> Nat]
    BY DEF TypeOK
  <2>3. CASE shutting
    <3>1. UNCHANGED <<counts, rt>>
      BY <2>3 DEF ChildExit
    <3>. QED
      BY <1>2, <2>1, <2>2, <2>3, <3>1
  <2>4. CASE ~shutting
    <3>. DEFINE again == ~(n \in removing) /\ code # 0 /\ MayRestart(n)
    <3>1. /\ counts' = [counts EXCEPT ![n] = IF again THEN @ + 1 ELSE 0]
          /\ rt' = [rt EXCEPT ![n] = IF again THEN counts[n] + 1 ELSE @]
      BY <2>4 DEF ChildExit
    <3>. HIDE DEF again
    <3>2. CASE k # n
      <4>1. counts'[k] = counts[k] /\ rt'[k] = rt[k]
        BY <2>2, <3>1, <3>2
      <4>. QED
        BY <1>2, <2>1, <3>2, <4>1
    <3>3. CASE k = n
      <4>1. rt'[k] = rt[k] \/ rt'[k] = counts[k] + 1
        BY <2>2, <3>1, <3>3
      <4>2. autos[k] <= counts[k]
        BY <1>1, <2>1, <2>4, <3>3
      <4>. QED
        BY <1>2, <2>1, <2>2, <3>3, <4>1, <4>2
    <3>. QED
      BY <3>2, <3>3
  <2>. QED
    BY <2>3, <2>4
<1>4. RemovalsAreOfChildren' /\ UnconfiguredIsLeaving'
  BY <1>1, <1>2 DEF Tables, RemovalsAreOfChildren, UnconfiguredIsLeaving, Live, TypeOK
<1>5. ShownInv'
  <2>. SUFFICES ASSUME NEW k \in Names, child'[k] = "none"
                PROVE  ui'[k] \notin {"Running", "Stopping"}
    BY DEF ShownInv, Live
  <2>1. shown \in [Names -> {"Starting", "Running", "Stopping", "Stopped", "Crashed"}]
    BY DEF TypeOK
  <2>2. shown[k] \notin {"Running", "Stopping"}
    <3>1. CASE k = n
      BY <3>1 DEF TypeOK
    <3>2. CASE k # n
      BY <1>2, <3>2 DEF Tables, ShownInv, Live, TypeOK
    <3>. QED
      BY <3>1, <3>2
  <2>3. ui' = shown \/ SendBatch(bidx + 1, frozen, kids, shown)
    BY DEF ChildExit, AdvanceBatch, Tell
  <2>4. kids[k] = "none"
    BY <1>1
  <2>. HIDE DEF kids, shown
  <2>5. ui'[k] = shown[k]
    BY <2>1, <2>3, <2>4, SendBatchShown
  <2>. QED
    BY <2>2, <2>5
<1>6. /\ \A m \in Md : SourceReady(m)' => SourceReady(m)
      /\ \A m \in Md : mdst'[m] = "none" <=> mdst[m] = "none"
  <2>1. LeaveChannel(n, "Stopped") \/ LeaveChannel(n, "Tombstone")
    BY DEF ChildExit
  <2>. QED
    BY <2>1, LeftChannel DEF SourceReady
<1>7. LaunchedAsReader' /\ FirstOpenInv'
  <2>1. ASSUME NEW s \in Strategies, s \in registry, child'[s] # "none", autos'[s] = 0
        PROVE  s \in readers'[Source[s]]
    <3>1. s # n /\ s \in Names /\ Source[s] \in Md
      BY <1>2, <2>1, MdNames
    <3>2. s \in readers[Source[s]]
      BY <1>2, <2>1, <3>1 DEF Tables, LaunchedAsReader, Live
    <3>. QED
      BY <1>1, <3>1, <3>2
  <2>2. ASSUME NEW s \in Strategies, mdst'[Source[s]] = "none", child'[s] # "none"
        PROVE  autos'[s] > 0
    <3>1. s # n /\ s \in Names /\ Source[s] \in Md
      BY <1>2, <2>2, MdNames
    <3>. QED
      BY <1>2, <1>6, <2>2, <3>1 DEF Tables, FirstOpenInv, Live
  <2>. QED
    BY <1>1, <2>1, <2>2 DEF LaunchedAsReader, FirstOpenInv, Live
<1>8. PendingInv' /\ PendingServed'
  BY <1>1, <1>6 DEF Tables, PendingInv, PendingServed
<1>. QED
  BY <1>3, <1>4, <1>5, <1>7, <1>8 DEF Tables

LEMMA NextTables == TypeOK /\ TypeOK' /\ Tables /\ PhaseInv /\ [Next]_vars => Tables'
<1>. SUFFICES ASSUME TypeOK, TypeOK', Tables, PhaseInv, [Next]_vars PROVE Tables'
  OBVIOUS
<1>1. CASE UNCHANGED vars
  <2>1. UNCHANGED <<registry, child, rt, rtQ, counts, autos, removing, channels, pending,
                    shutting, ui>>
    BY <1>1 DEF vars, timers, shutdownVars
  <2>2. RegistryGrows /\ ShownInv'
    BY <2>1 DEF RegistryGrows, Tables, ShownInv, Live
  <2>. QED
    BY <2>1, <2>2, CalmTables
<1>2. CASE StartAll \/ WaitDone \/ Snapshot \/ Shutdown \/ ForceExit
           \/ BatchTimerExpires \/ ForceTerminateBatch
  BY <1>2, StartAllTables, WaitDoneTables, SnapshotTables, ShutdownTables, CalmActions
<1>3. ASSUME NEW n \in Names,
             \/ StartRefused(n) \/ StartConfigRejected(n) \/ HandleStart(n)
             \/ HandleStop(n) \/ HandleRemove(n)
             \/ \E code \in 0..1 : ChildExit(n, code)
             \/ StopTimerExpires(n) \/ OnSingleStopTimeout(n)
             \/ RestartTimerExpires(n) \/ OnRestartTimer(n)
      PROVE  Tables'
  BY <1>3, RefusedTables, HandleStartTables, HandleStopTables, HandleRemoveTables,
     ChildExitTables, CalmActions, RestartExpiresTables, OnRestartTables
<1>4. ASSUME NEW m \in Md,
             \/ PromoteReadySource(m) \/ MdAnnounce(m) \/ MdStarted(m)
             \/ WatchdogExpires(m) \/ OnMdReadyTimeout(m)
      PROVE  Tables'
  BY <1>4, PromoteTables, MdStartedTables, CalmActions
<1>. QED
  BY <1>1, <1>2, <1>3, <1>4 DEF Next

-----------------------------------------------------------------------------
(* The shutdown.                                                           *)

\* Before a shutdown there is nothing to show.
LEMMA NotEnding ==
  ASSUME Ending, ~shutting, UNCHANGED <<shutting, bt, bidx>>, phase' # "exit"
  PROVE  Ending'
BY DEF Ending, PhaseInv, ShutdownCovered, NoOrphans

\* A step that starts and ends no child, may kill some, and leaves the shutdown alone.
LEMMA CalmEnding ==
  ASSUME TypeOK, Ending,
         \A n \in Names : (child'[n] = "none") <=> (child[n] = "none"),
         \A n \in Names : child'[n] = "Running" => child[n] = "Running",
         UNCHANGED <<phase, shutdownVars>>
  PROVE  Ending'
<1>1. \A n \in Names : Live(n)' <=> Live(n)
  BY DEF Live
<1>2. PhaseInv'
  BY DEF Ending, PhaseInv, shutdownVars
<1>3. NoOrphans'
  BY DEF Ending, NoOrphans
<1>4. ShutdownCovered'
  <2>. SUFFICES ASSUME shutting, phase = "loop"
                PROVE  /\ \A n \in Names : Live(n) => n \in frozen /\ Rank(n) >= bidx
                       /\ \E n \in Batch(bidx, frozen) : Live(n)'
                       /\ \/ bt \/ btQ = bidx
                          \/ \A n \in Batch(bidx, frozen) : child'[n] # "Running"
    BY <1>1 DEF ShutdownCovered, shutdownVars, Batch
  <2>1. /\ \A n \in Names : Live(n) => n \in frozen /\ Rank(n) >= bidx
        /\ \E n \in Batch(bidx, frozen) : Live(n)
        /\ \/ bt \/ btQ = bidx
           \/ \A n \in Batch(bidx, frozen) : child[n] # "Running"
    BY DEF Ending, ShutdownCovered
  <2>2. Batch(bidx, frozen) \subseteq Names
    BY DEF Batch, TypeOK
  <2>. QED
    BY <1>1, <2>1, <2>2
<1>. QED
  BY <1>2, <1>3, <1>4 DEF Ending

\* The batch SendBatch picks has a member left, no child belongs to an earlier one, and
\* its timer is armed; when there is none the program ends.
GoesOn(names, kids) ==
  \/ phase' = "exit" /\ ~bt' /\ \A n \in Names : kids[n] = "none"
  \/ /\ phase' = phase /\ bt' /\ bidx' \in 1..5
     /\ \A n \in Names : kids[n] # "none" => n \in names /\ Rank(n) >= bidx'
     /\ \E n \in Batch(bidx', names) : kids[n] # "none"

LEMMA SendBatchCovers ==
  ASSUME NEW i \in 1..6, NEW names \in SUBSET Names, NEW kids, NEW shown,
         SendBatch(i, names, kids, shown),
         \A n \in Names : kids[n] # "none" => n \in names /\ Rank(n) >= i
  PROVE  GoesOn(names, kids)
<1>. DEFINE busy == {j \in i..5 : \E n \in Batch(j, names) : kids[n] # "none"}
            j == CHOOSE k \in busy : \A l \in busy : k <= l
<1>0. i..5 \subseteq 0..5 /\ i..5 \subseteq 1..5 /\ busy \subseteq i..5
  OBVIOUS
<1>1. ASSUME NEW n \in Names, kids[n] # "none" PROVE Rank(n) \in busy
  <2>1. Rank(n) \in i..5
    BY <1>1, RankType
  <2>2. n \in Batch(Rank(n), names)
    BY <1>1 DEF Batch
  <2>. QED
    BY <1>1, <2>1, <2>2
<1>2. CASE busy = {}
  <2>1. /\ bt' = FALSE
        /\ phase' = IF \A n \in Names : kids[n] = "none" THEN "exit" ELSE phase
    BY <1>2 DEF SendBatch
  <2>2. \A n \in Names : kids[n] = "none"
    BY <1>1, <1>2
  <2>. QED
    BY <2>1, <2>2 DEF GoesOn
<1>3. CASE busy # {}
  <2>1. /\ bidx' = j /\ bt' = TRUE /\ phase' = phase
    BY <1>3 DEF SendBatch
  <2>2. j \in busy /\ \A l \in busy : j <= l
    BY <1>0, <1>3, LeastBatch
  <2>3. \E n \in Batch(j, names) : kids[n] # "none"
    BY <2>2
  <2>. HIDE DEF busy, j
  <2>4. \A n \in Names : kids[n] # "none" => n \in names /\ Rank(n) >= j
    BY <1>0, <1>1, <2>2, RankType
  <2>5. j \in 1..5
    BY <1>0, <2>2
  <2>6. bt'
    BY <2>1
  <2>. QED
    BY <2>1, <2>3, <2>4, <2>5, <2>6 DEF GoesOn
<1>. QED
  BY <1>2, <1>3

LEMMA ShutdownEnding == TypeOK /\ Ending /\ Shutdown => Ending'
<1>. SUFFICES ASSUME TypeOK, Ending, Shutdown PROVE Ending'
  OBVIOUS
<1>. DEFINE all == {n \in Names : Live(n)}
<1>1. /\ phase = "loop" /\ UNCHANGED child /\ frozen' = all
      /\ SendBatch(1, all, child, ui)
  BY DEF Shutdown
<1>2. /\ all \in SUBSET Names
      /\ \A n \in Names : child[n] # "none" => n \in all /\ Rank(n) >= 1
  BY RankType DEF Live
<1>. HIDE DEF all
<1>3. GoesOn(all, child)
  <2>1. 1 \in 1..6
    OBVIOUS
  <2>. QED
    BY <1>1, <1>2, <2>1, SendBatchCovers
<1>4. PhaseInv'
  BY <1>1, <1>3 DEF PhaseInv, GoesOn
<1>5. NoOrphans'
  BY <1>1, <1>3 DEF NoOrphans, GoesOn
<1>6. ShutdownCovered'
  BY <1>1, <1>3 DEF ShutdownCovered, Live, Batch, GoesOn
<1>. QED
  BY <1>4, <1>5, <1>6 DEF Ending

LEMMA ForceExitEnding == TypeOK /\ Ending /\ ForceExit => Ending'
<1>. SUFFICES ASSUME TypeOK, Ending, ForceExit PROVE Ending'
  OBVIOUS
<1>1. /\ phase' = "exit" /\ UNCHANGED <<bt, bidx>>
      /\ \A n \in Names : child'[n] # "Running"
  BY DEF ForceExit, shutdownVars
<1>. QED
  BY <1>1 DEF Ending, PhaseInv, ShutdownCovered, NoOrphans

\* advance_shutdown_batch: an exit leaves the batch as it is or moves on to the next one
\* that has a member left.
LEMMA ChildExitEnding ==
  ASSUME NEW n \in Names, NEW code \in 0..1
  PROVE  TypeOK /\ Ending /\ ChildExit(n, code) => Ending'
<1>. SUFFICES ASSUME TypeOK, Ending, ChildExit(n, code) PROVE Ending'
  OBVIOUS
<1>. DEFINE kids == [child EXCEPT ![n] = "none"]
            told == IF code = 0 THEN "Stopped" ELSE "Crashed"
            shown == [ui EXCEPT ![n] = told]
<1>1. /\ phase = "loop" /\ child' = kids
      /\ UNCHANGED <<shutting, frozen, btQ>>
  BY DEF ChildExit
<1>2. CASE ~shutting
  <2>1. UNCHANGED <<phase, bidx, bt>>
    BY <1>2 DEF ChildExit
  <2>. QED
    BY <1>1, <1>2, <2>1, NotEnding
<1>3. CASE shutting
  <2>1. AdvanceBatch(kids, shown)
    BY <1>3 DEF ChildExit
  <2>2. /\ \A k \in Names : Live(k) => k \in frozen /\ Rank(k) >= bidx
        /\ \E k \in Batch(bidx, frozen) : Live(k)
        /\ \/ bt \/ btQ = bidx
           \/ \A k \in Batch(bidx, frozen) : child[k] # "Running"
    BY <1>1, <1>3 DEF Ending, ShutdownCovered
  <2>3. /\ frozen \in SUBSET Names /\ bidx \in 0..6 /\ child \in [Names -> {"none", "Running", "Stopping"}]
    BY DEF TypeOK
  <2>4. bidx \in 1..5
    BY <2>2, <2>3, RankType DEF Batch
  <2>5. \A k \in Names : kids[k] # "none" => kids[k] = child[k] /\ Live(k)
    BY <2>3 DEF Live
  <2>6. CASE \E k \in Batch(bidx, frozen) : kids[k] # "none"
    <3>1. UNCHANGED <<phase, bidx, bt>>
      BY <2>1, <2>6 DEF AdvanceBatch
    <3>2. \A k \in Batch(bidx, frozen) : k \in Names /\ (kids[k] = "Running" => child[k] = "Running")
      BY <2>3, <2>5 DEF Batch
    <3>3. ShutdownCovered'
      <4>. HIDE DEF kids
      <4>1. \A k \in Names : kids[k] # "none" => k \in frozen /\ Rank(k) >= bidx
        BY <2>2, <2>5
      <4>. QED
        BY <1>1, <2>2, <2>6, <3>1, <3>2, <4>1 DEF ShutdownCovered, Live, Batch
    <3>4. PhaseInv' /\ NoOrphans'
      BY <1>1, <3>1 DEF Ending, PhaseInv, NoOrphans
    <3>. QED
      BY <3>3, <3>4 DEF Ending
  <2>7. CASE ~\E k \in Batch(bidx, frozen) : kids[k] # "none"
    <3>1. SendBatch(bidx + 1, frozen, kids, shown)
      BY <2>1, <2>4, <2>7 DEF AdvanceBatch
    <3>2. ASSUME NEW k \in Names, kids[k] # "none" PROVE k \in frozen /\ Rank(k) >= bidx + 1
      <4>1. k \in frozen /\ Rank(k) >= bidx
        BY <2>2, <2>5, <3>2
      <4>2. Rank(k) # bidx
        BY <2>7, <3>2, <4>1 DEF Batch
      <4>. QED
        BY <2>4, <4>1, <4>2, RankType
    <3>3. bidx + 1 \in 1..6
      BY <2>4
    <3>. HIDE DEF kids, shown
    <3>4. GoesOn(frozen, kids)
      BY <2>3, <3>1, <3>2, <3>3, SendBatchCovers
    <3>5. PhaseInv'
      BY <1>1, <3>4 DEF PhaseInv, GoesOn
    <3>6. NoOrphans'
      BY <1>1, <3>4 DEF NoOrphans, GoesOn
    <3>7. ShutdownCovered'
      BY <1>1, <3>4 DEF ShutdownCovered, Live, Batch, GoesOn
    <3>. QED
      BY <3>5, <3>6, <3>7 DEF Ending
  <2>. QED
    BY <2>6, <2>7
<1>. QED
  BY <1>2, <1>3

LEMMA BatchTimerEnding == TypeOK /\ Ending /\ (BatchTimerExpires \/ ForceTerminateBatch) => Ending'
<1>. SUFFICES ASSUME TypeOK, Ending, BatchTimerExpires \/ ForceTerminateBatch PROVE Ending'
  OBVIOUS
<1>1. phase = "loop" /\ UNCHANGED <<phase, shutting, frozen, bidx>> /\ (bt' => bt)
  BY DEF BatchTimerExpires, ForceTerminateBatch
<1>2. PhaseInv' /\ NoOrphans'
  BY <1>1 DEF Ending, PhaseInv, NoOrphans
<1>3. ShutdownCovered'
  <2>. SUFFICES ASSUME shutting
                PROVE  /\ \A n \in Names : Live(n)' => n \in frozen /\ Rank(n) >= bidx
                       /\ \E n \in Batch(bidx, frozen) : Live(n)'
                       /\ \/ bt' \/ btQ' = bidx
                          \/ \A n \in Batch(bidx, frozen) : child'[n] # "Running"
    BY <1>1 DEF ShutdownCovered, Batch
  <2>1. /\ \A n \in Names : Live(n) => n \in frozen /\ Rank(n) >= bidx
        /\ \E n \in Batch(bidx, frozen) : Live(n)
        /\ \/ bt \/ btQ = bidx
           \/ \A n \in Batch(bidx, frozen) : child[n] # "Running"
    BY <1>1 DEF Ending, ShutdownCovered
  <2>2. Batch(bidx, frozen) \subseteq Names
    BY DEF Batch, TypeOK
  <2>3. CASE BatchTimerExpires
    <3>1. btQ' = bidx /\ child' = child
      BY <2>3 DEF BatchTimerExpires
    <3>. QED
      BY <2>1, <3>1 DEF Live
  <2>4. CASE ForceTerminateBatch
    <3>1. /\ bt' = bt
          /\ child' = [n \in Names |-> IF btQ = bidx /\ n \in Batch(bidx, frozen) /\ Live(n)
                                       THEN "Stopping" ELSE child[n]]
      BY <2>4 DEF ForceTerminateBatch
    <3>2. \A n \in Names : Live(n)' <=> Live(n)
      BY <3>1 DEF Live
    <3>3. bt' \/ \A n \in Batch(bidx, frozen) : child'[n] # "Running"
      BY <2>1, <2>2, <3>1 DEF Live
    <3>. QED
      BY <2>1, <2>2, <3>2, <3>3
  <2>. QED
    BY <2>3, <2>4
<1>. QED
  BY <1>2, <1>3 DEF Ending

\* Launches: none during a shutdown.
LEMMA LaunchEnding ==
  ASSUME TypeOK, Tables, Ending,
         \/ StartAll \/ WaitDone
         \/ \E n \in Names : HandleStart(n) \/ OnRestartTimer(n)
         \/ \E m \in Md : PromoteReadySource(m) \/ MdStarted(m)
  PROVE  Ending'
<1>1. CASE ~shutting
  <2>1. UNCHANGED shutdownVars
    BY DEF StartAll, WaitDone, HandleStart, StartProcess, OnRestartTimer, PromoteReadySource, MdStarted
  <2>2. phase' # "exit"
    BY DEF StartAll, WaitDone, HandleStart, StartProcess, Command, Draining, OnRestartTimer,
       PromoteReadySource, MdStarted
  <2>. QED
    BY <1>1, <2>1, <2>2, NotEnding DEF shutdownVars
<1>2. CASE shutting
  <2>1. phase \in {"loop", "exit"}
    BY <1>2 DEF Ending, PhaseInv
  <2>2. UNCHANGED <<phase, shutdownVars>>
    BY <2>1 DEF StartAll, WaitDone, HandleStart, StartProcess, OnRestartTimer, PromoteReadySource, MdStarted
  <2>3. UNCHANGED child
    <3>1. CASE \E n \in Names : OnRestartTimer(n)
      BY <1>2, <3>1 DEF OnRestartTimer
    <3>2. CASE \E m \in Md : MdStarted(m)
      <4>1. PICK m \in Md : MdStarted(m)
        BY <3>2
      <4>2. pending[m] \cap registry = {}
        BY <1>2 DEF Tables, PendingInv
      <4>. DEFINE L == pending[m] \cap registry
      <4>5. UNCHANGED child \/ \E out \in Outs(L) : Launch(L, out)
        BY <4>1 DEF MdStarted
      <4>3. UNCHANGED child \/ \E out \in Outs({}) : Launch({}, out)
        BY <4>2, <4>5
      <4>4. ASSUME NEW out \in Outs({}), Launch({}, out) PROVE UNCHANGED child
        BY <4>4 DEF Launch, Spawn, Spawned, TypeOK
      <4>. QED
        BY <4>3, <4>4
    <3>. QED
      BY <1>2, <2>1, <3>1, <3>2 DEF StartAll, WaitDone, HandleStart, StartProcess, PromoteReadySource
  <2>. QED
    BY <2>2, <2>3, CalmEnding
<1>. QED
  BY <1>1, <1>2

LEMMA CalmEndings ==
  ASSUME TypeOK, Ending,
         \/ Snapshot
         \/ \E n \in Names : \/ StartRefused(n) \/ StartConfigRejected(n) \/ HandleStop(n)
                             \/ HandleRemove(n) \/ RestartTimerExpires(n)
                             \/ StopTimerExpires(n) \/ OnSingleStopTimeout(n)
         \/ \E m \in Md : MdAnnounce(m) \/ WatchdogExpires(m) \/ OnMdReadyTimeout(m)
  PROVE  Ending'
<1>1. UNCHANGED <<phase, shutdownVars>>
  BY DEF Snapshot, StartRefused, StartConfigRejected, HandleStop, HandleRemove,
     RestartTimerExpires, StopTimerExpires, OnSingleStopTimeout, MdAnnounce, WatchdogExpires,
     OnMdReadyTimeout
<1>2. UNCHANGED child \/ \E n \in Names : Live(n) /\ Terminate(n)
  BY MdNames DEF Snapshot, StartRefused, StartConfigRejected, HandleStop, HandleRemove,
     RestartTimerExpires, StopTimerExpires, OnSingleStopTimeout, MdAnnounce, WatchdogExpires,
     OnMdReadyTimeout
<1>3. /\ \A n \in Names : (child'[n] = "none") <=> (child[n] = "none")
      /\ \A n \in Names : child'[n] = "Running" => child[n] = "Running"
  BY <1>2 DEF Terminate, Live, TypeOK
<1>. QED
  BY <1>1, <1>3, CalmEnding

LEMMA NextEnding == TypeOK /\ Tables /\ Ending /\ [Next]_vars => Ending'
<1>. SUFFICES ASSUME TypeOK, Tables, Ending, [Next]_vars PROVE Ending'
  OBVIOUS
<1>1. CASE UNCHANGED vars
  BY <1>1, CalmEnding DEF vars
<1>2. CASE StartAll \/ WaitDone \/ Snapshot \/ Shutdown \/ ForceExit
           \/ BatchTimerExpires \/ ForceTerminateBatch
  BY <1>2, LaunchEnding, CalmEndings, ShutdownEnding, ForceExitEnding, BatchTimerEnding
<1>3. ASSUME NEW n \in Names,
             \/ StartRefused(n) \/ StartConfigRejected(n) \/ HandleStart(n)
             \/ HandleStop(n) \/ HandleRemove(n)
             \/ \E code \in 0..1 : ChildExit(n, code)
             \/ StopTimerExpires(n) \/ OnSingleStopTimeout(n)
             \/ RestartTimerExpires(n) \/ OnRestartTimer(n)
      PROVE  Ending'
  BY <1>3, LaunchEnding, CalmEndings, ChildExitEnding
<1>4. ASSUME NEW m \in Md,
             \/ PromoteReadySource(m) \/ MdAnnounce(m) \/ MdStarted(m)
             \/ WatchdogExpires(m) \/ OnMdReadyTimeout(m)
      PROVE  Ending'
  BY <1>4, LaunchEnding, CalmEndings
<1>. QED
  BY <1>1, <1>2, <1>3, <1>4 DEF Next

-----------------------------------------------------------------------------
(* The theorems.                                                           *)

\* Every step of dztraderd keeps the tables and the course of a shutdown as IInv says.
THEOREM Invariance == Spec => []IInv
<1>1. Init => IInv
  BY InitType, InitTables DEF IInv
<1>2. IInv /\ [Next]_vars => IInv'
  <2>. SUFFICES ASSUME IInv, [Next]_vars PROVE IInv'
    OBVIOUS
  <2>1. TypeOK /\ Tables /\ Ending /\ PhaseInv
    BY DEF IInv, Ending
  <2>2. TypeOK'
    BY <2>1, NextType
  <2>3. Tables'
    BY <2>1, <2>2, NextTables
  <2>4. Ending'
    BY <2>1, NextEnding
  <2>. QED
    BY <2>2, <2>3, <2>4 DEF IInv
<1>. QED
  BY <1>1, <1>2, PTL DEF Spec

\* process_supervisor.cpp and shm_manager.cpp: the restart policy bounds the restarts in
\* a row, only children are being removed, no dead process is shown as alive, every
\* strategy is a reader of its source before it runs, and a shutdown always has a batch
\* with somebody to end it.
THEOREM StructureCorrect == Spec => []StructureOK
<1>1. IInv => StructureOK
  BY DEF IInv, Tables, Ending, StructureOK, ShownInv, DeadNotShownAlive
<1>. QED
  BY <1>1, Invariance, PTL

\* on_md_channel_ready, wait_for_md_ready_and_start_strategies: no strategy waits for a
\* source that is ready.
THEOREM NoneLeftWaiting == Spec => []PendingServed
<1>1. IInv => PendingServed
  BY DEF IInv, Tables
<1>. QED
  BY <1>1, Invariance, PTL

\* During a shutdown a process that is not running stays so.
LEMMA NoLaunch ==
  ASSUME IInv, [Next]_vars
  PROVE  \A n \in Names : shutting /\ ~Live(n) => child'[n] = "none"
<1>. SUFFICES ASSUME NEW k \in Names, shutting, child[k] = "none" PROVE child'[k] = "none"
  BY DEF Live
<1>1. phase \in {"loop", "exit"} /\ child \in [Names -> {"none", "Running", "Stopping"}]
  BY DEF IInv, Ending, PhaseInv, TypeOK
<1>2. CASE UNCHANGED child
  BY <1>2
<1>3. CASE \E m \in Md : MdStarted(m)
  <2>1. PICK m \in Md : MdStarted(m)
    BY <1>3
  <2>2. pending[m] \cap registry = {}
    BY DEF IInv, Tables, PendingInv
  <2>. DEFINE L == pending[m] \cap registry
  <2>3. UNCHANGED child \/ \E out \in Outs(L) : Launch(L, out)
    BY <2>1 DEF MdStarted
  <2>4. UNCHANGED child \/ \E out \in Outs({}) : Launch({}, out)
    BY <2>2, <2>3
  <2>5. ASSUME NEW out \in Outs({}), Launch({}, out) PROVE child'[k] = child[k]
    BY <2>5 DEF Launch, Spawn, Spawned
  <2>. QED
    BY <2>4, <2>5
<1>4. CASE \E n \in Names : \/ \E code \in 0..1 : ChildExit(n, code)
                            \/ OnSingleStopTimeout(n)
  BY <1>1, <1>4 DEF ChildExit, OnSingleStopTimeout, Terminate, Live
<1>5. CASE \E m \in Md : OnMdReadyTimeout(m)
  BY <1>1, <1>5, MdNames DEF OnMdReadyTimeout, Terminate, Live
<1>6. CASE ForceExit \/ ForceTerminateBatch
  BY <1>6 DEF ForceExit, ForceTerminateBatch, Live
<1>7. CASE UNCHANGED vars
  BY <1>7 DEF vars
<1>8. ASSUME NEW n \in Names,
             \/ StartRefused(n) \/ StartConfigRejected(n) \/ HandleStart(n)
             \/ HandleStop(n) \/ HandleRemove(n)
             \/ StopTimerExpires(n) \/ RestartTimerExpires(n) \/ OnRestartTimer(n)
      PROVE  UNCHANGED child
  BY <1>8 DEF StartRefused, StartConfigRejected, HandleStart, StartProcess, HandleStop, HandleRemove,
     StopTimerExpires, RestartTimerExpires, OnRestartTimer
<1>9. ASSUME NEW m \in Md, PromoteReadySource(m) \/ MdAnnounce(m) \/ WatchdogExpires(m)
      PROVE  UNCHANGED child
  BY <1>1, <1>9 DEF PromoteReadySource, MdAnnounce, WatchdogExpires
<1>10. CASE StartAll \/ WaitDone \/ Snapshot \/ Shutdown \/ BatchTimerExpires
  BY <1>1, <1>10 DEF StartAll, WaitDone, Snapshot, Shutdown, BatchTimerExpires
<1>. QED
  BY <1>2, <1>3, <1>4, <1>5, <1>6, <1>7, <1>8, <1>9, <1>10 DEF Next

\* shutdown(): from then on nothing is started, not by a Start frame, a STARTED frame
\* still in the channel or a restart timer that had expired, and the program ends with
\* no child running.
THEOREM ShutdownIsOrderly == Spec => ShutdownOrderly
<1>1. IInv /\ [Next]_vars => [\A n \in Names : shutting /\ ~Live(n) => child'[n] = "none"]_vars
  BY NoLaunch
<1>2. IInv => NoOrphans
  BY DEF IInv, Ending
<1>. QED
  BY <1>1, <1>2, Invariance, PTL DEF Spec, ShutdownOrderly, NoLaunchInShutdown
=============================================================================
