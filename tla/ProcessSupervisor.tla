------------------------- MODULE ProcessSupervisor -------------------------
(***************************************************************************)
(* The process supervision of dztraderd (apps/master): ProcessSupervisor,  *)
(* the process-control half of ShmManager and the market-data channel      *)
(* states ShmManager keeps (MdChannelState).                               *)
(*                                                                         *)
(* Everything runs on one io_context thread, so one handler is one action. *)
(* What makes it hard is what the handlers wait for: child exits, frames   *)
(* of the event channel, and timers.  Cancelling a timer does not recall a *)
(* handler that has expired and is already queued; a cancelled wait still  *)
(* runs its handler, with an error code.  A timer is therefore two pieces  *)
(* of state: whether its wait is armed, and the handlers queued for it.    *)
(* A handler that does nothing when it is called with an error code is not *)
(* queued at all (restart, ready and batch timers); the one of the stop    *)
(* timer does something.                                                   *)
(***************************************************************************)
EXTENDS Naturals, Sequences, FiniteSets

CONSTANTS
  Names,         \* the processes that can be configured
  Cat,           \* the Category of each
  Source,        \* md_source of each strategy
  Configured,    \* the processes of dztraderd.json
  MaxAttempts,   \* restart.max_attempts; 0: the policy is disabled
  Outcomes,      \* what launching can come to, see LaunchOutcomes
  MaxSpawns,     \* bound: spawns of one process
  MaxCmds        \* bound: process-control frames

Categories == {"Strategy", "GatewayTd", "GatewayMd", "Internal", "WebUI"}

\* What launch_child meets: the process starts; it starts after its channel
\* was reset for a changed page_size; no executable; create_md_channel
\* throws; the spawn fails.
LaunchOutcomes == {"ok", "reset", "noexe", "throw", "spawn"}

Strategies == {n \in Names : Cat[n] = "Strategy"}
Md == {n \in Names : Cat[n] = "GatewayMd"}
Gateways == {n \in Names : Cat[n] \in {"GatewayMd", "GatewayTd"}}

ASSUME SupervisorAssumption ==
  /\ Cat \in [Names -> Categories]
  /\ Source \in [Strategies -> Md]
  /\ Configured \subseteq Names
  /\ Outcomes \subseteq LaunchOutcomes
  /\ Outcomes \ {"ok", "reset", "throw"} # {}
  /\ MaxAttempts \in Nat /\ MaxSpawns \in Nat /\ MaxCmds \in Nat

VARIABLES
  phase,     \* main: boot, wait (for md ready), loop (ioc.run), exit
  promoted,  \* ready_sources of wait_for_md_ready_and_start_strategies
  registry,  \* the names ProcessRegistry and ProcessConfigStore hold
  child,     \* children_: none, or the ChildState of the child
  inc,       \* spawns of each name so far
  removing,  \* remove_pending_
  counts,    \* restart_counts_ (0: no entry)
  rt, rtQ,   \* restart timer: the count it was armed with; the one expired and queued
  st, stQ,   \* stop timer armed; handlers queued: 0 cancelled, k expired for spawn k
  wd, wdQ,   \* md ready watchdog armed; expired handler queued
  pending,   \* pending_strategies_
  mdst,      \* MdChannelState::status
  ready,     \* MdChannelState::ready
  readers,   \* the reader table of each md channel
  started,   \* NOTIFY_MD_STARTED frames not yet drained, by spawn of the sender
  annc,      \* the last spawn of each md that announced itself
  shutting,  \* shutting_down_
  frozen,    \* shutdown_batches_: the names in them
  bidx,      \* shutdown_batch_index_, counted in categories
  bt, btQ,   \* batch timer armed; index of the expired handler queued (0: none)
  ui,        \* the last PROCESS_STATUS state sent for each name
  autos,     \* history: restarts by timer since the last other launch or clean exit
  cmds

timers == <<rt, rtQ, st, stQ, wd, wdQ>>
channels == <<mdst, ready, readers>>
shutdownVars == <<shutting, frozen, bidx, bt, btQ>>
vars == <<phase, promoted, registry, child, inc, removing, counts, timers, pending,
          channels, started, annc, shutdownVars, ui, autos, cmds>>

Live(n) == child[n] # "none"
SourceReady(m) == mdst[m] = "Running" /\ ready[m]
BoundTo(m) == {s \in Strategies \cap registry : Source[s] = m}

Init ==
  /\ phase = "boot" /\ promoted = {}
  /\ registry = Configured
  /\ child = [n \in Names |-> "none"]
  /\ inc = [n \in Names |-> 0]
  /\ removing = {}
  /\ counts = [n \in Names |-> 0]
  /\ rt = [n \in Names |-> 0] /\ rtQ = [n \in Names |-> 0]
  /\ st = [n \in Names |-> FALSE] /\ stQ = [n \in Names |-> <<>>]
  /\ wd = [m \in Md |-> FALSE] /\ wdQ = [m \in Md |-> FALSE]
  /\ pending = [m \in Md |-> {}]
  /\ mdst = [m \in Md |-> "none"]
  /\ ready = [m \in Md |-> FALSE]
  /\ readers = [m \in Md |-> {s \in Strategies : Source[s] = m}]  \* left by the last run
  /\ started = [m \in Md |-> {}]
  /\ annc = [m \in Md |-> 0]
  /\ shutting = FALSE /\ frozen = {} /\ bidx = 0
  /\ bt = FALSE /\ btQ = 0
  /\ ui = [n \in Names |-> "Stopped"]
  /\ autos = [n \in Names |-> 0]
  /\ cmds = 0

-----------------------------------------------------------------------------
(* launch_child *)

\* The outcomes open to n: only an md has a channel to create or to reset;
\* a reset needs a channel of this run that is not Running, and is refused
\* (throw) while a configured strategy of the source runs.
CanCome(n, o) ==
  /\ o \in {"ok", "reset"} => inc[n] < MaxSpawns
  /\ o \in {"reset", "throw"} => n \in Md
  /\ o = "reset" => /\ mdst[n] \in {"Stopped", "Tombstone"}
                    /\ \A s \in BoundTo(n) : ~Live(s)
Outs(L) == {out \in [L -> Outcomes] : \A n \in L : CanCome(n, out[n])}

\* A name that already has a child is skipped.
Spawned(L, out) == {n \in L : ~Live(n) /\ out[n] \in {"ok", "reset"}}

\* create_md_channel comes before the spawn, which may still fail.
Created(L, out) ==
  {m \in L \cap Md : ~Live(m) /\ out[m] \in {"ok", "reset", "spawn"} /\ mdst[m] # "Running"}

\* A spawned child is recorded, and its entry in the restart timers, which are
\* as timer says, is called off.
Spawn(L, out, timer) ==
  /\ child' = [n \in Names |-> IF n \in Spawned(L, out) THEN "Running" ELSE child[n]]
  /\ inc' = [n \in Names |-> IF n \in Spawned(L, out) THEN inc[n] + 1 ELSE inc[n]]
  /\ rt' = [n \in Names |-> IF n \in Spawned(L, out) THEN 0 ELSE timer[n]]

\* restart_counts_ is erased on success and on failure, and kept when the
\* child was there already or create_md_channel threw.
LaunchCounts(L, out) ==
  [n \in Names |-> IF n \in L /\ ~Live(n) /\ out[n] # "throw" THEN 0 ELSE counts[n]]

\* A launch that is not a restart.
Launch(L, out) ==
  /\ Spawn(L, out, rt)
  /\ counts' = LaunchCounts(L, out)
  /\ autos' = [n \in Names |-> IF n \in Spawned(L, out) THEN 0 ELSE autos[n]]

\* create_md_channel: the first open of this run and a reset clear the reader
\* table.
OpenChannels(L, out) ==
  /\ mdst' = [m \in Md |-> IF m \in Created(L, out) THEN "Running" ELSE mdst[m]]
  /\ ready' = [m \in Md |-> m \notin Created(L, out) /\ ready[m]]
  /\ readers' = [m \in Md |->
       IF m \in Created(L, out) /\ (mdst[m] = "none" \/ out[m] = "reset") THEN {}
       ELSE readers[m]]

\* pre_register_strategy_reader, of strategies whose source is ready.
PreRegister(L) ==
  /\ readers' = [m \in Md |-> readers[m] \cup {s \in L : Source[s] = m}]
  /\ UNCHANGED <<mdst, ready>>

\* arm_md_ready_watchdog after every spawn of an md.
LaunchWd(L, out) == [m \in Md |-> wd[m] \/ m \in Spawned(L, out)]

LaunchUi(L, out) ==
  [n \in Names |-> IF n \notin L \/ (~Live(n) /\ out[n] = "throw") THEN ui[n]
                   ELSE IF Live(n) \/ n \in Spawned(L, out) THEN "Running"
                   ELSE "Crashed"]

-----------------------------------------------------------------------------
(* start_all, before ioc.run *)

\* The first two passes: every configured process that is not a strategy.
StartAll ==
  /\ phase = "boot"
  /\ phase' = "wait"
  /\ LET L == registry \ Strategies
     IN \E out \in Outs(L) :
          /\ Launch(L, out)
          /\ OpenChannels(L, out)
          /\ wd' = LaunchWd(L, out)
          /\ ui' = LaunchUi(L, out)
  /\ UNCHANGED <<promoted, registry, removing, rtQ, st, stQ, wdQ, pending, started,
                 annc, shutdownVars, cmds>>

\* promote_ready_source and start_strategies_for_source: the first time a
\* source is seen ready, its strategies that do not run yet are started.
PromoteReadySource(m) ==
  /\ phase = "wait" /\ m \notin promoted /\ SourceReady(m)
  /\ promoted' = promoted \cup {m}
  /\ LET L == {s \in BoundTo(m) : ~Live(s)}
     IN /\ PreRegister(L)
        /\ \E out \in Outs(L) :
             /\ Launch(L, out)
             /\ ui' = LaunchUi(L, out)
  /\ UNCHANGED <<phase, registry, removing, rtQ, st, stQ, wd, wdQ, pending, started,
                 annc, shutdownVars, cmds>>

\* report_full_snapshot: one status for every configured process, waiting being
\* pending_strategies_.
SnapshotUi(waiting) ==
  [n \in Names |-> IF n \notin registry THEN ui[n]
                   ELSE IF Live(n) THEN child[n]
                   ELSE IF \E m \in Md : n \in waiting[m] THEN "Starting"
                   ELSE "Stopped"]

\* Mutant of AllPromoted: no last look after the last drain.
NoLastLook == TRUE

\* After the last drain every source is looked at once more.
AllPromoted == \A m \in Md : SourceReady(m) /\ BoundTo(m) # {} => m \in promoted

\* The deadline has passed, or every source is ready: the strategies of the
\* other sources wait.  main then reports a full snapshot and runs the ioc.
WaitDone ==
  /\ phase = "wait"
  /\ AllPromoted
  /\ phase' = "loop"
  /\ pending' = [m \in Md |-> IF m \in promoted THEN pending[m]
                              ELSE pending[m] \cup {s \in BoundTo(m) : ~Live(s)}]
  /\ ui' = SnapshotUi(pending')
  /\ UNCHANGED <<promoted, registry, child, inc, removing, counts, timers, channels, started,
                 annc, shutdownVars, autos, cmds>>

-----------------------------------------------------------------------------
(* Frames of the event channel: drained in the wait loop and in ioc.run *)

Draining == phase \in {"wait", "loop"}

Command == Draining /\ cmds < MaxCmds /\ cmds' = cmds + 1

Tell(n, state) == ui' = [ui EXCEPT ![n] = state]

\* handle_process_start during a shutdown, or of a name that is not configured and
\* cannot be registered: StartFailed.
StartRefused(n) ==
  /\ Command
  /\ shutting \/ n \notin registry
  /\ Tell(n, "Crashed")
  /\ UNCHANGED <<phase, promoted, registry, child, inc, removing, counts, timers, pending,
                 channels, started, annc, shutdownVars, autos>>

\* handle_process_start with a config that cannot be applied: nothing is
\* started, but a gateway registered on the way stays registered.
StartConfigRejected(n) ==
  /\ Command
  /\ ~shutting
  /\ n \in registry \cup Gateways
  /\ registry' = registry \cup {n}
  /\ Tell(n, "Crashed")
  /\ UNCHANGED <<phase, promoted, child, inc, removing, counts, timers, pending, channels,
                 started, annc, shutdownVars, autos>>

\* start_process: a strategy whose source is not ready waits for it
\* (launch_registered_process), anything else is launched.
StartProcess(n) ==
  \/ /\ n \in Strategies /\ ~SourceReady(Source[n])
     /\ pending' = [pending EXCEPT ![Source[n]] = @ \cup {n}]
     /\ Tell(n, "Starting")
     /\ UNCHANGED <<child, inc, counts, rt, wd, channels, autos>>
  \/ /\ n \in Strategies => SourceReady(Source[n])
     /\ \E out \in Outs({n}) :
          /\ Launch({n}, out)
          /\ IF n \in Strategies THEN PreRegister({n}) ELSE OpenChannels({n}, out)
          /\ wd' = LaunchWd({n}, out)
          /\ Tell(n, IF n \in Spawned({n}, out) THEN "Running" ELSE "Crashed")
     /\ UNCHANGED pending

\* handle_process_start: an unknown gateway is registered first; a running
\* process is a success.
HandleStart(n) ==
  /\ Command
  /\ ~shutting
  /\ n \in registry \cup Gateways
  /\ registry' = registry \cup {n}
  /\ \/ /\ Live(n)
        /\ Tell(n, child[n])
        /\ UNCHANGED <<child, inc, counts, rt, wd, channels, pending, autos>>
     \/ ~Live(n) /\ StartProcess(n)
  /\ UNCHANGED <<phase, promoted, removing, rtQ, st, stQ, wdQ, started, annc, shutdownVars>>

\* stop_single_child: SHUTDOWN is sent, and a new timer replaces the entry of
\* that name; a timer it destroys runs its handler with operation_aborted.
StopChild(n) ==
  /\ st' = [st EXCEPT ![n] = TRUE]
  /\ stQ' = IF st[n] THEN [stQ EXCEPT ![n] = Append(@, 0)] ELSE stQ

\* cancel_pending_restart
CancelRestart(n) ==
  /\ rt' = [rt EXCEPT ![n] = 0]
  /\ counts' = [counts EXCEPT ![n] = 0]

\* handle_process_stop
HandleStop(n) ==
  /\ Command
  /\ \/ /\ n \notin registry
        /\ Tell(n, "Stopped")
        /\ UNCHANGED <<rt, counts, st, stQ>>
     \/ /\ n \in registry /\ ~Live(n)
        /\ CancelRestart(n)
        /\ Tell(n, "Stopped")
        /\ UNCHANGED <<st, stQ>>
     \/ /\ n \in registry /\ Live(n)
        /\ IF shutting THEN UNCHANGED <<st, stQ>> ELSE StopChild(n)
        /\ Tell(n, "Stopping")
        /\ UNCHANGED <<rt, counts>>
  /\ UNCHANGED <<phase, promoted, registry, child, inc, removing, rtQ, wd, wdQ, pending,
                 channels, started, annc, shutdownVars, autos>>

\* tombstone_md_channel and close_md_channel; neither touches a channel that
\* was never created.
LeaveChannel(n, status) ==
  IF n \in Md /\ mdst[n] # "none"
  THEN /\ mdst' = [mdst EXCEPT ![n] = status]
       /\ ready' = [ready EXCEPT ![n] = FALSE]
  ELSE UNCHANGED <<mdst, ready>>

\* Mutant of ConsumeRemovePending: forgotten.
RemoveUnconsumed(n) == UNCHANGED removing

MarkRemovePending(n) == removing' = removing \cup {n}
ConsumeRemovePending(n) == removing' = removing \ {n}

\* handle_process_remove.  A name that is no longer configured has no entry
\* to remove: RemoveFailed, whether or not a child is left.
HandleRemove(n) ==
  /\ Command
  /\ \/ /\ n \notin registry
        /\ Tell(n, "Stopped")
        /\ UNCHANGED <<registry, removing, rt, counts, st, stQ, mdst, ready>>
     \/ /\ n \in registry /\ Live(n)
        /\ registry' = registry \ {n}
        /\ MarkRemovePending(n)
        /\ IF shutting THEN UNCHANGED <<st, stQ>> ELSE StopChild(n)
        /\ Tell(n, "Stopping")
        /\ UNCHANGED <<rt, counts, mdst, ready>>
     \/ /\ n \in registry /\ ~Live(n)          \* notify_removed_for_inactive
        /\ registry' = registry \ {n}
        /\ ConsumeRemovePending(n)             \* marked and consumed at once
        /\ CancelRestart(n)
        /\ LeaveChannel(n, "Tombstone")
        /\ Tell(n, "Stopped")
        /\ UNCHANGED <<st, stQ>>
  /\ UNCHANGED <<phase, promoted, child, inc, rtQ, wd, wdQ, pending, readers, started, annc,
                 shutdownVars, autos>>

\* QUERY_FULL_SNAPSHOT
Snapshot ==
  /\ Draining
  /\ ui' = SnapshotUi(pending)
  /\ UNCHANGED <<phase, promoted, registry, child, inc, removing, counts, timers, pending,
                 channels, started, annc, shutdownVars, autos, cmds>>

\* MdApi announces itself on the event channel once its channel is open.
MdAnnounce(m) ==
  /\ Live(m) /\ annc[m] < inc[m] /\ phase # "exit"
  /\ annc' = [annc EXCEPT ![m] = inc[m]]
  /\ started' = [started EXCEPT ![m] = @ \cup {inc[m]}]
  /\ UNCHANGED <<phase, promoted, registry, child, inc, removing, counts, timers, pending,
                 channels, shutdownVars, ui, autos, cmds>>

\* NOTIFY_MD_STARTED: mark_md_channel_ready believes it of a Running channel,
\* and on_md_channel_ready starts the strategies that wait for the source.
MdStarted(m) ==
  /\ Draining
  /\ \E k \in started[m] :
       /\ \A j \in started[m] : k <= j
       /\ started' = [started EXCEPT ![m] = @ \ {k}]
  /\ \/ /\ mdst[m] # "Running"
        /\ UNCHANGED <<child, inc, counts, rt, wd, channels, pending, autos, ui>>
     \/ /\ mdst[m] = "Running"
        /\ pending' = [pending EXCEPT ![m] = {}]
        /\ LET L == pending[m] \cap registry
           IN /\ readers' = [readers EXCEPT ![m] = @ \cup L]
              /\ \E out \in Outs(L) : Launch(L, out) /\ ui' = LaunchUi(L, out)
        /\ wd' = [wd EXCEPT ![m] = FALSE]
        /\ ready' = [ready EXCEPT ![m] = TRUE]
        /\ UNCHANGED mdst
  /\ UNCHANGED <<phase, promoted, registry, removing, rtQ, st, stQ, wdQ, annc,
                 shutdownVars, cmds>>

-----------------------------------------------------------------------------
(* Shutdown *)

Rank(n) == CASE Cat[n] = "Strategy"  -> 1
             [] Cat[n] = "GatewayTd" -> 2
             [] Cat[n] = "GatewayMd" -> 3
             [] Cat[n] = "Internal"  -> 4
             [] Cat[n] = "WebUI"     -> 5

Batch(i, names) == {n \in names : Rank(n) = i}

\* send_current_shutdown_batch from batch i on, with kids for children_ and
\* shown for the states sent so far: the first batch with a running member is told to stop and its timer
\* is armed; when there is none, check_shutdown_complete ends the program.
SendBatch(i, names, kids, shown) ==
  LET busy == {j \in i..5 : \E n \in Batch(j, names) : kids[n] # "none"}
  IN IF busy # {}
     THEN LET j == CHOOSE k \in busy : \A l \in busy : k <= l
          IN /\ bidx' = j
             /\ bt' = TRUE
             /\ ui' = [n \in Names |-> IF n \in Batch(j, names) /\ kids[n] # "none"
                                       THEN "Stopping" ELSE shown[n]]
             /\ UNCHANGED phase
     ELSE /\ bidx' = 6
          /\ bt' = FALSE
          /\ phase' = IF \A n \in Names : kids[n] = "none" THEN "exit" ELSE phase
          /\ ui' = shown

\* Mutant of DropPending: the strategies that wait keep waiting.
KeepPending == UNCHANGED pending

DropPending == pending' = [m \in Md |-> {}]

\* The first SIGINT or SIGTERM: shutdown().
Shutdown ==
  /\ phase = "loop" /\ ~shutting
  /\ shutting' = TRUE
  /\ st' = [n \in Names |-> FALSE]
  /\ stQ' = [n \in Names |-> IF st[n] THEN Append(stQ[n], 0) ELSE stQ[n]]
  /\ rt' = [n \in Names |-> 0]
  /\ counts' = [n \in Names |-> 0]
  /\ wd' = [m \in Md |-> FALSE]
  /\ DropPending
  /\ frozen' = {n \in Names : Live(n)}
  /\ SendBatch(1, {n \in Names : Live(n)}, child, ui)
  /\ UNCHANGED <<promoted, registry, child, inc, removing, rtQ, wdQ, channels, started, annc,
                 btQ, autos, cmds>>

\* force_terminate_all and ioc.stop, on a second signal or when the 10 s timer
\* of main fires.
ForceExit ==
  /\ phase = "loop" /\ shutting
  /\ child' = [n \in Names |-> IF Live(n) THEN "Stopping" ELSE "none"]
  /\ phase' = "exit"
  /\ UNCHANGED <<promoted, registry, inc, removing, counts, timers, pending, channels,
                 started, annc, shutdownVars, ui, autos, cmds>>

-----------------------------------------------------------------------------
(* Child exit *)

\* advance_shutdown_batch, called once the child is gone from kids.
AdvanceBatch(kids, shown) ==
  IF bidx > 5 \/ \E n \in Batch(bidx, frozen) : kids[n] # "none"
  THEN ui' = shown /\ UNCHANGED <<phase, bidx, bt>>
  ELSE SendBatch(bidx + 1, frozen, kids, shown)

\* The count this crash brings is within max_attempts.
MayRestart(n) == counts[n] < MaxAttempts

\* on_child_exit.  A clean exit, a removal and a policy that is off or used
\* up end it; otherwise schedule_restart arms a timer with the new count.
ChildExit(n, code) ==
  LET removed == n \in removing
      gone == removed /\ n \notin registry
      kids == [child EXCEPT ![n] = "none"]
      told == IF code = 0 THEN "Stopped" ELSE "Crashed"
      again == ~removed /\ code # 0 /\ MayRestart(n)
  IN /\ phase = "loop" /\ Live(n)
     /\ child' = kids
     /\ ConsumeRemovePending(n)
     /\ st' = [st EXCEPT ![n] = FALSE]
     /\ stQ' = IF st[n] THEN [stQ EXCEPT ![n] = Append(@, 0)] ELSE stQ
     /\ readers' = [m \in Md |-> readers[m] \ {n}]
     /\ LeaveChannel(n, IF gone THEN "Tombstone" ELSE "Stopped")
     /\ autos' = [autos EXCEPT ![n] = IF code = 0 THEN 0 ELSE @]
     /\ \/ /\ shutting
           /\ AdvanceBatch(kids, [ui EXCEPT ![n] = told])
           /\ UNCHANGED <<counts, rt>>
        \/ /\ ~shutting
           /\ Tell(n, told)
           /\ counts' = [counts EXCEPT ![n] = IF again THEN @ + 1 ELSE 0]
           /\ rt' = [rt EXCEPT ![n] = IF again THEN counts[n] + 1 ELSE @]
           /\ UNCHANGED <<phase, bidx, bt>>
     /\ UNCHANGED <<promoted, registry, inc, rtQ, wd, wdQ, pending, started, annc, shutting,
                    frozen, btQ, cmds>>

-----------------------------------------------------------------------------
(* Timers.  They fire only inside ioc.run. *)

Terminate(n) == child' = [child EXCEPT ![n] = "Stopping"]

StopTimerExpires(n) ==
  /\ phase = "loop" /\ st[n]
  /\ st' = [st EXCEPT ![n] = FALSE]
  /\ stQ' = [stQ EXCEPT ![n] = Append(@, inc[n])]
  /\ UNCHANGED <<phase, promoted, registry, child, inc, removing, counts, rt, rtQ, wd, wdQ,
                 pending, channels, started, annc, shutdownVars, ui, autos, cmds>>

\* on_single_stop_timeout.  Expired, it kills the child it was armed for if
\* that still runs.  Cancelled or expired, it erases the entry of its name:
\* a timer armed since is destroyed, and its own handler runs as cancelled.
OnSingleStopTimeout(n) ==
  /\ phase = "loop" /\ stQ[n] # <<>>
  /\ IF Head(stQ[n]) # 0 /\ Head(stQ[n]) = inc[n] /\ Live(n) THEN Terminate(n) ELSE UNCHANGED child
  /\ st' = [st EXCEPT ![n] = FALSE]
  /\ stQ' = [stQ EXCEPT ![n] = IF st[n] THEN Append(Tail(@), 0) ELSE Tail(@)]
  /\ UNCHANGED <<phase, promoted, registry, inc, removing, counts, rt, rtQ, wd, wdQ, pending,
                 channels, started, annc, shutdownVars, ui, autos, cmds>>

RestartTimerExpires(n) ==
  /\ phase = "loop" /\ rt[n] # 0 /\ rtQ[n] = 0
  /\ rtQ' = [rtQ EXCEPT ![n] = rt[n]]
  /\ rt' = [rt EXCEPT ![n] = 0]
  /\ UNCHANGED <<phase, promoted, registry, child, inc, removing, counts, st, stQ, wd, wdQ,
                 pending, channels, started, annc, shutdownVars, ui, autos, cmds>>

\* A restart that worked puts back the count launch_child has erased.
RestartCounts(n, out) == IF n \in Spawned({n}, out) THEN [counts EXCEPT ![n] = rtQ[n]]
                         ELSE LaunchCounts({n}, out)

\* The handler schedule_restart leaves behind: it launches the copy of the
\* entry it holds, and keeps the count of restarts in a row.
OnRestartTimer(n) ==
  /\ phase = "loop" /\ rtQ[n] # 0
  /\ rtQ' = [rtQ EXCEPT ![n] = 0]
  /\ \/ /\ shutting
        /\ rt' = [rt EXCEPT ![n] = 0]
        /\ UNCHANGED <<child, inc, counts, channels, wd, ui, autos>>
     \/ /\ ~shutting
        /\ \E out \in Outs({n}) :
             /\ Spawn({n}, out, [rt EXCEPT ![n] = 0])
             /\ OpenChannels({n}, out)
             /\ wd' = LaunchWd({n}, out)
             /\ ui' = LaunchUi({n}, out)
             /\ counts' = RestartCounts(n, out)
             /\ autos' = [autos EXCEPT ![n] = IF n \in Spawned({n}, out) THEN @ + 1 ELSE @]
  /\ UNCHANGED <<phase, promoted, registry, removing, st, stQ, wdQ, pending, started, annc,
                 shutdownVars, cmds>>

WatchdogExpires(m) ==
  /\ phase = "loop" /\ wd[m] /\ ~wdQ[m]
  /\ wd' = [wd EXCEPT ![m] = FALSE]
  /\ wdQ' = [wdQ EXCEPT ![m] = TRUE]
  /\ UNCHANGED <<phase, promoted, registry, child, inc, removing, counts, rt, rtQ, st, stQ,
                 pending, channels, started, annc, shutdownVars, ui, autos, cmds>>

\* on_md_ready_timeout: an md that a configured strategy is running on is
\* killed, and the restart policy takes over; otherwise nothing is done.
OnMdReadyTimeout(m) ==
  /\ phase = "loop" /\ wdQ[m]
  /\ wdQ' = [wdQ EXCEPT ![m] = FALSE]
  /\ wd' = [wd EXCEPT ![m] = FALSE]
  /\ IF Live(m) /\ \E s \in BoundTo(m) : Live(s) THEN Terminate(m) ELSE UNCHANGED child
  /\ UNCHANGED <<phase, promoted, registry, inc, removing, counts, rt, rtQ, st, stQ, pending,
                 channels, started, annc, shutdownVars, ui, autos, cmds>>

\* Mutant of BatchTimerExpires: the handler holds the index of the next batch.
BatchTimerNext ==
  /\ phase = "loop" /\ bt /\ btQ = 0
  /\ bt' = FALSE
  /\ btQ' = IF bidx < 5 THEN bidx + 1 ELSE bidx
  /\ UNCHANGED <<phase, promoted, registry, child, inc, removing, counts, timers, pending,
                 channels, started, annc, shutting, frozen, bidx, ui, autos, cmds>>

BatchTimerExpires ==
  /\ phase = "loop" /\ bt /\ btQ = 0
  /\ bt' = FALSE
  /\ btQ' = bidx
  /\ UNCHANGED <<phase, promoted, registry, child, inc, removing, counts, timers, pending,
                 channels, started, annc, shutting, frozen, bidx, ui, autos, cmds>>

\* force_terminate_batch: only the batch the timer was armed for, and only
\* while it is the current one.
ForceTerminateBatch ==
  /\ phase = "loop" /\ btQ # 0
  /\ btQ' = 0
  /\ child' = [n \in Names |-> IF btQ = bidx /\ n \in Batch(bidx, frozen) /\ Live(n)
                               THEN "Stopping" ELSE child[n]]
  /\ UNCHANGED <<phase, promoted, registry, inc, removing, counts, timers, pending, channels,
                 started, annc, shutting, frozen, bidx, bt, ui, autos, cmds>>

-----------------------------------------------------------------------------
Next ==
  \/ StartAll \/ WaitDone \/ Snapshot \/ Shutdown \/ ForceExit
  \/ BatchTimerExpires \/ ForceTerminateBatch
  \/ \E n \in Names :
       \/ StartRefused(n) \/ StartConfigRejected(n) \/ HandleStart(n)
       \/ HandleStop(n) \/ HandleRemove(n)
       \/ \E code \in 0..1 : ChildExit(n, code)
       \/ StopTimerExpires(n) \/ OnSingleStopTimeout(n)
       \/ RestartTimerExpires(n) \/ OnRestartTimer(n)
  \/ \E m \in Md :
       \/ PromoteReadySource(m) \/ MdAnnounce(m) \/ MdStarted(m)
       \/ WatchdogExpires(m) \/ OnMdReadyTimeout(m)

\* What a shutdown needs: the batch timer fires, its handler runs, and a process
\* that was killed exits.  A process that was asked to stop need not: it may hang.
Fairness ==
  /\ WF_vars(StartAll \/ WaitDone)
  /\ WF_vars(BatchTimerExpires \/ ForceTerminateBatch)
  /\ \A n \in Names : WF_vars(child[n] = "Stopping" /\ \E code \in 0..1 : ChildExit(n, code))

Spec == Init /\ [][Next]_vars
FairSpec == Spec /\ Fairness

-----------------------------------------------------------------------------
(* What holds *)

\* Type invariant; the restart counts stay within the policy's limit.
TypeOK ==
  /\ phase \in {"boot", "wait", "loop", "exit"}
  /\ promoted \subseteq Md /\ registry \subseteq Names /\ removing \subseteq Names
  /\ child \in [Names -> {"none", "Running", "Stopping"}]
  /\ inc \in [Names -> 0..MaxSpawns]
  /\ counts \in [Names -> 0..MaxAttempts]
  /\ rt \in [Names -> 0..MaxAttempts] /\ rtQ \in [Names -> 0..MaxAttempts]
  /\ st \in [Names -> BOOLEAN] /\ stQ \in [Names -> Seq(0..MaxSpawns)]
  /\ wd \in [Md -> BOOLEAN] /\ wdQ \in [Md -> BOOLEAN]
  /\ pending \in [Md -> SUBSET Strategies]
  /\ mdst \in [Md -> {"none", "Running", "Stopped", "Tombstone"}]
  /\ ready \in [Md -> BOOLEAN]
  /\ readers \in [Md -> SUBSET Strategies]
  /\ started \in [Md -> SUBSET (1..MaxSpawns)] /\ annc \in [Md -> 0..MaxSpawns]
  /\ shutting \in BOOLEAN /\ frozen \subseteq Names /\ bidx \in 0..6
  /\ bt \in BOOLEAN /\ btQ \in 0..5
  /\ ui \in [Names -> {"Starting", "Running", "Stopping", "Stopped", "Crashed"}]
  /\ autos \in [Names -> Nat]
  /\ cmds \in 0..MaxCmds

\* Once shutdown() has run no child is started: not by a Start frame, not by
\* a STARTED frame that was still in the channel, not by a restart timer that
\* had expired before its cancel.
NoLaunchInShutdown ==
  [][\A n \in Names : shutting /\ ~Live(n) => child'[n] = "none"]_vars

\* While the program shuts down, every child left belongs to the current
\* batch or to a later one, and the current batch has somebody to end it: an
\* armed batch timer, its expired handler, or a kill already sent to every
\* member left.
ShutdownCovered ==
  shutting /\ phase = "loop" =>
    /\ \A n \in Names : Live(n) => n \in frozen /\ Rank(n) >= bidx
    /\ \E n \in Batch(bidx, frozen) : Live(n)
    /\ \/ bt \/ btQ = bidx
       \/ \A n \in Batch(bidx, frozen) : child[n] # "Running"

\* The program ends with no child running: each has exited or was killed.
NoOrphans == phase = "exit" => \A n \in Names : child[n] # "Running"

\* Once shutdown() has begun nothing is started, and nothing is left behind.
ShutdownOrderly == NoLaunchInShutdown /\ []NoOrphans

\* Shutdown ends without the 10 s timer of main, even if no child reacts to
\* SHUTDOWN.
ShutdownCompletes == shutting ~> (phase = "exit")

\* The restart policy bounds the restarts in a row, although every launch
\* erases the count and the timer's handler has to put it back.
RestartsBounded == \A n \in Names : autos[n] <= MaxAttempts

\* remove_pending_ names children only: a name left in it would make the exit
\* of a later process of that name the end of a removal.
RemovalsAreOfChildren == \A n \in removing : Live(n)

\* A running child whose configuration is gone is being removed, or it was
\* brought back by a restart timer.
UnconfiguredIsLeaving ==
  \A n \in Names : Live(n) /\ n \notin registry => n \in removing \/ autos[n] > 0

\* No strategy is left waiting for a source that is ready.
PendingServed == \A m \in Md : SourceReady(m) => pending[m] = {}

\* A strategy that was not brought back by a restart timer is in the reader
\* table of its source from before its spawn to its exit, whatever its source
\* goes through meanwhile.
LaunchedAsReader ==
  \A s \in Strategies \cap registry : Live(s) /\ autos[s] = 0 => s \in readers[Source[s]]

\* A process that is not running is never shown as one that is.
DeadNotShownAlive ==
  phase # "boot" => \A n \in Names : ~Live(n) => ui[n] \notin {"Running", "Stopping"}

\* The supervisor's tables agree with each other and with its children, through
\* every launch, exit, restart, removal and shutdown.
StructureOK ==
  /\ TypeOK
  /\ RestartsBounded
  /\ RemovalsAreOfChildren
  /\ UnconfiguredIsLeaving
  /\ DeadNotShownAlive
  /\ LaunchedAsReader
  /\ ShutdownCovered

=============================================================================
