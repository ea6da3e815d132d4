----------------------------- MODULE WebMirror -----------------------------
(***************************************************************************)
(* What the web UI shows of the processes.  The frames of the event        *)
(* channel are read by a listener thread (event_monitor.cpp) and posted to *)
(* the IO thread (frame_router.h), whose domain services keep a mirror     *)
(* (mirror_store.h, process_mirror.cpp) and broadcast what they apply.  A  *)
(* browser gets a snapshot of the mirror when it connects and the          *)
(* broadcasts after it (wsHandlers.ts, stores/process.ts, mdConfig.ts,     *)
(* progress.ts), and shows an operation as pending until the frame that    *)
(* answers it (usePending.ts).                                             *)
(*                                                                         *)
(* The master and the gateways are external: they answer commands and      *)
(* write frames.  The payload of a frame is its number.                    *)
(***************************************************************************)
EXTENDS Integers, Sequences, FiniteSets, Functions

CONSTANTS Procs,        \* processes
          Before,       \* those whose name sorts before the master's
          Fresh,        \* those that are not configured at first
          MaxFrames,    \* bound: frames written
          MaxOps,       \* bound: operations of the browser, and reports nobody asked for
          MaxBreaks     \* bound: lost connections and restarts of the server

ASSUME MirrorAssumption == IsFiniteSet(Procs) /\ Before \subseteq Procs /\ Fresh \subseteq Procs

VARIABLES proc,         \* external: the state of every process
          conf,         \* external: the master's process configuration
          cmds,         \* external: commands on their way to them
          written,      \* external: number of frames written
          query,        \* QUERY_FULL_SNAPSHOT is on its way to the master
          ch,           \* frames the listener has not read
          phase,        \* before or after drogon's run() has made the IO loop
          mainq, ioq,   \* what is posted to the main loop and to the IO loop
          mirror,       \* MirrorStore
          conn, down,   \* the WebSocket of the browser, and what is sent on it
          view,         \* the stores of the browser
          pending, timers, requests,   \* usePending, and its HTTP requests
          ops, breaks,
          overtaken,    \* ghost: the main loop applied a frame late
          late,         \* ghost: reported while the mirror did not know the process
          hidden        \* ghost: status left out while a snapshot was applied

world   == <<proc, conf, cmds, written, query>>
server  == <<phase, mainq, ioq, mirror>>
browser == <<view, pending, timers, requests, ops>>
mirrorVars == <<world, ch, server, conn, down, browser, breaks, overtaken, late, hidden>>

-----------------------------------------------------------------------------
None     == 0
Volatile == {"md_config", "md_status", "progress"}
Domains  == Volatile \cup {"auto_login"}

NoDomains == [d \in Domains |-> [p \in Procs |-> None]]
NoMirror  == [known |-> FALSE, conf |-> {}, status |-> <<>>, dom |-> NoDomains]

Override(f, x, v) == [y \in DOMAIN f \cup {x} |-> IF y = x THEN v ELSE f[y]]
Drop(f, x)   == Restrict(f, DOMAIN f \ {x})

Down == {"Stopped", "Crashed"}

Config(names)     == [k |-> "config", names |-> names]
Status(p, st, ev) == [k |-> "status", p |-> p, st |-> st, ev |-> ev]
Reported(d, p, n, note) == [k |-> "report", d |-> d, p |-> p, n |-> n, note |-> note]

-----------------------------------------------------------------------------
(* The master and the gateways. *)
Write(fs) ==
    /\ written + Len(fs) <= MaxFrames
    /\ written' = written + Len(fs) /\ ch' = ch \o fs

Keep == UNCHANGED <<server, conn, down, browser, breaks, overtaken, late, hidden>>

Operation == ops < MaxOps /\ ops' = ops + 1

(* handle_process_start, handle_process_stop, handle_process_remove.  A start
   registers a process that is not configured and may fail. *)
handle_process_start(p) ==
    /\ LET new == IF p \in conf THEN <<>> ELSE <<Config(conf \cup {p})>>
       IN IF proc[p] \in {"Running", "Stopping"}
          THEN Write(Append(new, Status(p, proc[p], "start"))) /\ UNCHANGED proc
          ELSE \E st \in {"Running", "Crashed"} :
                 /\ Write(Append(new, Status(p, st, "start")))
                 /\ proc' = [proc EXCEPT ![p] = st]
    /\ conf' = conf \cup {p}

handle_process_stop(p) ==
    /\ LET st == IF p \notin conf \/ proc[p] \in Down THEN "Stopped" ELSE "Stopping"
       IN /\ Write(<<Status(p, st, "stop")>>)
          /\ proc' = IF p \in conf THEN [proc EXCEPT ![p] = st] ELSE proc
    /\ UNCHANGED conf

handle_process_remove(p) ==
    LET live == proc[p] \in {"Running", "Stopping"}
    IN /\ IF ~ live /\ p \notin conf THEN Write(<<Status(p, "Stopped", "remove")>>)
          ELSE Write(<<Config(conf \ {p})>> \o
                     (IF live THEN <<Status(p, "Stopping", "remove")>>
                      ELSE <<Status(p, "Stopped", ""), Status(p, "Stopped", "remove")>>))
       /\ conf' = conf \ {p} /\ proc' = [proc EXCEPT ![p] = IF live THEN "Stopping" ELSE "Stopped"]

(* A report of a process that runs.  progress says whether it is logged in,
   md_status whether a login has failed. *)
Notes(d) == IF d = "progress" THEN {"online", "offline"}
            ELSE IF d = "md_status" THEN {"failed", ""} ELSE {""}

ReportOf(p, d) ==
    /\ proc[p] \in {"Running", "Stopping"}
    /\ \E note \in Notes(d) : Write(<<Reported(d, p, written + 1, note)>>)
    /\ UNCHANGED <<proc, conf>>

Answers == [login |-> {"progress", "md_status"}, logout |-> {"progress"},
            config |-> {"md_config"}, auto_login |-> {"auto_login"}]

Handle ==
    /\ cmds # <<>> /\ cmds' = Tail(cmds)
    /\ LET c == Head(cmds)
       IN \/ c.op = "start" /\ handle_process_start(c.p)
          \/ c.op = "stop" /\ handle_process_stop(c.p)
          \/ c.op = "remove" /\ handle_process_remove(c.p)
          \/ /\ c.op \in DOMAIN Answers
             /\ \/ \E d \in Answers[c.op] : ReportOf(c.p, d)
                \/ proc[c.p] # "Running" /\ UNCHANGED <<proc, conf, written, ch>>
    /\ UNCHANGED query /\ Keep

(* A process ends, or reports by itself. *)
Exit(p) ==
    /\ proc[p] \in {"Running", "Stopping"}
    /\ LET st == IF proc[p] = "Stopping" THEN "Stopped" ELSE "Crashed"
       IN Write(<<Status(p, st, "")>>) /\ proc' = [proc EXCEPT ![p] = st]
    /\ UNCHANGED <<conf, cmds, query>> /\ Keep

Speak(p) ==
    /\ Operation
    /\ \E d \in Domains : ReportOf(p, d)
    /\ UNCHANGED <<cmds, query, server, conn, down, view, pending, timers, requests,
                   breaks, overtaken, late, hidden>>

registry_order == CHOOSE s \in [1..Cardinality(conf) -> conf] : Range(s) = conf

(* report_full_snapshot: the configuration, then every registered process. *)
report_full_snapshot ==
    /\ query /\ query' = FALSE
    /\ Write(<<Config(conf)>> \o [i \in 1..Cardinality(conf) |->
                LET p == registry_order[i]
                IN Status(p, IF proc[p] \in Down THEN "Stopped" ELSE proc[p], "")])
    /\ UNCHANGED <<proc, conf, cmds>> /\ Keep

-----------------------------------------------------------------------------
(* ProcessMirror. *)
mark_stale(m, p) ==
    [m EXCEPT !.dom = [d \in Domains |-> IF d \in Volatile THEN [@[d] EXCEPT ![p] = None] ELSE @[d]]]

update_process_configs(m, names) ==
    LET gone == m.conf \ names
    IN [m EXCEPT !.known = TRUE, !.conf = names,
                 !.status = Restrict(@, DOMAIN @ \ gone),
                 !.dom = [d \in Domains |-> [p \in Procs |->
                             IF d \in Volatile /\ p \in gone THEN None ELSE @[d][p]]]]

(* The domain services: only a status asks for the registration. *)
on_rtn_process_status(m, f) ==
    IF f.p \notin m.conf THEN m
    ELSE LET n == [m EXCEPT !.status = Override(@, f.p, f.st)]
         IN IF f.st \in Down THEN mark_stale(n, f.p) ELSE n

on_frame(m, f) ==
    CASE f.k = "config" -> update_process_configs(m, f.names)
      [] f.k = "status" -> on_rtn_process_status(m, f)
      [] OTHER          -> [m EXCEPT !.dom[f.d][f.p] = f.n]

(* drain_and_post, FrameRouter: to the IO loop, or to the main loop while
   there is no IO loop yet. *)
drain_and_post ==
    /\ ch # <<>>
    /\ \/ phase = "run" /\ ch' = <<>> /\ ioq' = ioq \o ch /\ UNCHANGED mainq
       \/ phase = "start" /\ ch' = Tail(ch) /\ mainq' = Append(mainq, Head(ch)) /\ UNCHANGED ioq
    /\ UNCHANGED <<world, phase, mirror, conn, down, browser, breaks, overtaken, late, hidden>>

Run == phase = "start" /\ phase' = "run"
       /\ UNCHANGED <<world, ch, mainq, ioq, mirror, conn, down, browser, breaks, overtaken, late, hidden>>

(* A handler: the mirror, then the broadcast to whoever is connected. *)
Apply(f) ==
    /\ mirror' = on_frame(mirror, f)
    /\ down' = IF conn THEN Append(down, [t |-> "frame", f |-> f]) ELSE down
    /\ late' = CASE f.k = "config" -> late \ f.names
                 [] f.k = "report" -> late \cup ({f.p} \ mirror.conf)
                 [] OTHER          -> late
    /\ UNCHANGED <<world, ch, phase, conn, browser, breaks, hidden>>

ApplyIo == /\ ioq # <<>> /\ ioq' = Tail(ioq) /\ Apply(Head(ioq))
           /\ overtaken' = (overtaken \/ mainq # <<>>) /\ UNCHANGED mainq

ApplyMain == /\ phase = "run" /\ mainq # <<>> /\ mainq' = Tail(mainq) /\ Apply(Head(mainq))
             /\ UNCHANGED <<ioq, overtaken>>

-----------------------------------------------------------------------------
(* usePending. *)
Ops == {"start", "stop", "remove"} \cup DOMAIN Answers

settle_pending(keys) == pending' = pending \ keys /\ timers' = timers \ keys

(* operation: busy, then run. *)
Operate(p, op) ==
    /\ Operation
    /\ <<p, op>> \notin pending
    /\ pending' = pending \cup {<<p, op>>} /\ timers' = timers \cup {<<p, op>>}
    /\ requests' = requests \cup {[id |-> ops, p |-> p, op |-> op, at |-> "server"]}
    /\ UNCHANGED <<world, ch, server, conn, down, view, breaks, overtaken, late, hidden>>

Move(r, to) == requests' = (requests \ {r}) \cup {[r EXCEPT !.at = to]}

(* MarketSourceCtrl.  Process control goes to the master, whatever the mirror
   shows; a command for a gateway only when the mirror shows it running.  A
   frame that cannot be written fails the request, except that of dispatch_op,
   which answers before anyone knows. *)
evaluate_control_guard(p) == p \in DOMAIN mirror.status /\ mirror.status[p] = "Running"

Written(r) == cmds' = Append(cmds, [p |-> r.p, op |-> r.op]) /\ Move(r, "ok")
Refused(r) == UNCHANGED cmds /\ Move(r, "failed")

write_process_control(r) ==
    r.op \in {"start", "stop", "remove"} /\ (Written(r) \/ Refused(r))

(* md_connect and md_disconnect over the WebSocket have the guards of REST. *)
handle_connect_disconnect(r) == (evaluate_control_guard(r.p) /\ Written(r)) \/ Refused(r)

login_or_logout(r) == r.op \in {"login", "logout"} /\ handle_connect_disconnect(r)

(* The forms of the brokers, their fronts and the subscription parameters
   are one operation, "config"; the gateway answers each with its whole
   configuration. *)
Dispatched == {"config", "auto_login"}

dispatch_op(r) ==
    /\ r.op \in Dispatched
    /\ \/ evaluate_control_guard(r.p) /\ Written(r)
       \/ evaluate_control_guard(r.p) /\ UNCHANGED cmds /\ Move(r, "ok")
       \/ Refused(r)

Serve(r) ==
    /\ r.at = "server" /\ phase = "run"
    /\ write_process_control(r) \/ login_or_logout(r) \/ dispatch_op(r)
    /\ UNCHANGED <<proc, conf, written, query, ch, server, conn, down, view, pending, timers, ops,
                   breaks, overtaken, late, hidden>>

(* A good answer leaves the operation pending, a bad one ends whatever is
   pending under the key by now. *)
TakeResponse(r) ==
    /\ r.at \in {"ok", "failed"}
    /\ requests' = requests \ {r}
    /\ IF r.at = "failed" THEN settle_pending({<<r.p, r.op>>}) ELSE UNCHANGED <<pending, timers>>
    /\ UNCHANGED <<world, ch, server, conn, down, view, ops, breaks, overtaken, late, hidden>>

PendingTimeout(key) ==
    /\ key \in timers /\ settle_pending({key})
    /\ UNCHANGED <<world, ch, server, conn, down, view, requests, ops, breaks, overtaken, late, hidden>>

-----------------------------------------------------------------------------
(* The stores of the browser. *)
NoView == [known |-> FALSE, conf |-> {}, status |-> <<>>, dom |-> NoDomains,
           state |-> [p \in Procs |-> ""], seen |-> {}, cleared |-> {}]

(* process.ts: what is not configured is not shown, but its event counts. *)
Ignored(v, p) == v.known /\ p \notin v.conf

(* The plausible bug: a status that is not shown is ignored altogether. *)
IgnoresEvent(v, f) ==
    IF Ignored(v, f.p) THEN v
    ELSE [v EXCEPT !.status = Override(@, f.p, f.st), !.cleared = @ \cup {<<f.p, f.ev>>}]

applyProcessStatus(v, f) ==
    [v EXCEPT !.status = IF Ignored(v, f.p) THEN @ ELSE Override(@, f.p, f.st),
              !.cleared = @ \cup {<<f.p, f.ev>>}]

applyProcessConfig(v, names) ==
    [v EXCEPT !.known = TRUE, !.conf = names, !.status = Restrict(@, DOMAIN @ \cap names)]

(* mdConfig.ts, progress.ts, and the two watchers: CLEAR_BY_RTN. *)
watchers(v) ==
    {<<p, "login">> : p \in {q \in Procs : v.state[q] = "online"}}
      \cup {<<p, "logout">> : p \in {q \in Procs : v.state[q] = "offline"}}

applyReport(v, f) ==
    LET w == [v EXCEPT !.dom[f.d][f.p] = f.n,
                       !.state[f.p] = IF f.d = "progress" THEN f.note ELSE @,
                       !.seen = IF f.note = "failed" THEN @ \cup {f.n} ELSE @]
        own == CASE f.d = "md_config"  -> {<<f.p, "config">>}
                 [] f.d = "auto_login" -> {<<f.p, "auto_login">>}
                 [] f.d = "md_status"  -> IF f.note = "failed" /\ f.n \notin v.seen
                                          THEN {<<f.p, "login">>} ELSE {}
                 [] OTHER -> watchers(w)
    IN [w EXCEPT !.cleared = @ \cup own]

applyFrame(v, f) ==
    CASE f.k = "config" -> applyProcessConfig(v, f.names)
      [] f.k = "status" -> applyProcessStatus(v, f)
      [] OTHER          -> applyReport(v, f)

(* The snapshot, instance by instance in the order of their names: the
   processes before the master, the master's configuration, the others. *)
Statuses(v, m, ps) ==
    LET shown == {p \in DOMAIN m.status \cap ps : ~ Ignored(v, p)}
    IN [v EXCEPT !.status = [p \in DOMAIN @ \cup shown |-> IF p \in shown THEN m.status[p] ELSE @[p]]]

applySnapshot(v, m) ==
    LET first == Statuses(v, m, Before)
        conf_ == IF m.known THEN applyProcessConfig(first, m.conf) ELSE first
        all   == Statuses(conf_, m, Procs \ Before)
    IN [all EXCEPT !.dom = [d \in Domains |-> [p \in Procs |->
                              IF m.dom[d][p] # None THEN m.dom[d][p] ELSE @[d][p]]]]

(* handleTextMessage: the store, and the pending operations it ends. *)
handleTextMessage ==
    /\ down # <<>> /\ down' = Tail(down)
    /\ LET msg == Head(down)
           new == IF msg.t = "snapshot" THEN applySnapshot(view, msg.m) ELSE applyFrame(view, msg.f)
       IN /\ view' = [new EXCEPT !.cleared = {}]
          /\ settle_pending(IF msg.t = "snapshot" THEN pending ELSE new.cleared)
          /\ hidden' = IF msg.t = "snapshot"
                       THEN {p \in Before \cap DOMAIN msg.m.status : Ignored(view, p)}
                       ELSE IF msg.f.k = "status" THEN hidden \ {msg.f.p} ELSE hidden
    /\ UNCHANGED <<world, ch, server, conn, requests, ops, breaks, overtaken, late>>

(* handleNewConnection sends the snapshot before anything else. *)
Join ==
    /\ ~ conn /\ phase = "run"
    /\ conn' = TRUE /\ down' = <<[t |-> "snapshot", m |-> mirror]>>
    /\ UNCHANGED <<world, ch, server, browser, breaks, overtaken, late, hidden>>

Broken == breaks < MaxBreaks /\ breaks' = breaks + 1

Leave ==
    /\ conn /\ Broken /\ conn' = FALSE /\ down' = <<>>
    /\ UNCHANGED <<world, ch, server, browser, overtaken, late, hidden>>

(* The server is started again: its reader joins at the end of the channel,
   and the master is asked for everything. *)
Reopen ==
    /\ Broken
    /\ ch' = <<>> /\ phase' = "start" /\ mainq' = <<>> /\ ioq' = <<>> /\ mirror' = NoMirror
    /\ query' = TRUE /\ conn' = FALSE /\ down' = <<>>
    /\ requests' = {IF r.at = "server" THEN [r EXCEPT !.at = "failed"] ELSE r : r \in requests}
    /\ overtaken' = FALSE /\ late' = {}
    /\ UNCHANGED <<proc, conf, cmds, written, view, pending, timers, ops, hidden>>

-----------------------------------------------------------------------------
MirrorInit ==
    /\ proc = [p \in Procs |-> IF p \in Fresh THEN "Stopped" ELSE "Running"]
    /\ conf = Procs \ Fresh
    /\ cmds = <<>> /\ written = 0 /\ query = TRUE /\ ch = <<>>
    /\ phase = "start" /\ mainq = <<>> /\ ioq = <<>> /\ mirror = NoMirror
    /\ conn = FALSE /\ down = <<>>
    /\ view = NoView /\ pending = {} /\ timers = {} /\ requests = {} /\ ops = 0
    /\ breaks = 0 /\ overtaken = FALSE /\ late = {} /\ hidden = {}

MirrorNext ==
    \/ Handle
    \/ report_full_snapshot
    \/ \E p \in Procs : Exit(p) \/ Speak(p) \/ (\E op \in Ops : Operate(p, op))
    \/ drain_and_post
    \/ Run
    \/ ApplyIo
    \/ ApplyMain
    \/ \E r \in requests : Serve(r) \/ TakeResponse(r)
    \/ \E key \in timers : PendingTimeout(key)
    \/ handleTextMessage
    \/ Join
    \/ Leave
    \/ Reopen

MirrorSpec == MirrorInit /\ [][MirrorNext]_mirrorVars

-----------------------------------------------------------------------------
MirrorTypeOK ==
    /\ conf \subseteq Procs /\ mirror.conf \subseteq Procs
    /\ DOMAIN mirror.status \subseteq mirror.conf
    /\ pending = timers

Settled == query = FALSE /\ ch = <<>> /\ mainq = <<>> /\ ioq = <<>> /\ ~ overtaken

Like(a, b) == a = b \/ {a, b} \subseteq Down

(* process_mirror.cpp: once every frame is applied the mirror has the
   processes that are configured, in the state they are in, and nothing a
   process has said before it went down or was removed. *)
MirrorFollows ==
    Settled =>
        /\ mirror.conf = conf /\ DOMAIN mirror.status = conf
        /\ \A p \in conf : Like(mirror.status[p], proc[p])
        /\ \A p \in Procs : (p \notin conf /\ p \notin late) \/ (p \in conf /\ proc[p] \in Down) =>
              \A d \in Volatile : mirror.dom[d][p] = None

(* wsHandlers.ts, process.ts: a browser that has applied what was sent to it
   shows the mirror, except a status its snapshot had left out. *)
ViewFollows ==
    conn /\ down = <<>> /\ mirror.known =>
        /\ view.known /\ view.conf = mirror.conf
        /\ DOMAIN mirror.status \subseteq DOMAIN view.status \cup hidden
        /\ \A p \in DOMAIN view.status : p \in DOMAIN mirror.status => view.status[p] = mirror.status[p]
        /\ DOMAIN view.status \subseteq mirror.conf
        /\ \A d \in Domains, p \in Procs :
              mirror.dom[d][p] # None => view.dom[d][p] = mirror.dom[d][p]

(* process.ts: an operation on a process does not wait for its timeout when
   the master has answered it, not even one that removes the process. *)
PendingAnswered ==
    Settled /\ conn /\ down = <<>> /\ cmds = <<>> /\ requests = {} =>
        \A key \in pending : key[2] \in DOMAIN Answers

MirrorHonest == MirrorTypeOK /\ MirrorFollows /\ ViewFollows /\ PendingAnswered
=============================================================================
