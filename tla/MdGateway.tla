------------------------------ MODULE MdGateway ------------------------------
(***************************************************************************)
(* The market data gateway dzmd_ctp (apps/ctp/md): MdApi's event loop with *)
(* its state machine, its subscription chain and its timers, against the   *)
(* CTP front.  One thread runs everything of MdApi: it takes frames (user, *)
(* strategies), events the SPI thread has queued, and expired timers, in   *)
(* any order; the front and the SPI thread run beside it, so an event may  *)
(* describe a connection that has gone since.                              *)
(*                                                                         *)
(* The subscription chain (batches, active, retry, sub_timers) sends one   *)
(* batch per timer, then checks what is still Pending and retries or gives *)
(* up.  Unsubscribe requests do not go through it: they are sent at once.  *)
(***************************************************************************)
EXTENDS Naturals, Sequences, FiniteSets, SequencesExt, SubscriptionManager

CONSTANTS
    Instruments, Strategies,
    subscribe_batch_size,   \* instruments per SubscribeMarketData call
    sub_max_retry,          \* checks that may find something Pending
    MaxReqs,                \* bound: subscribe frames
    MaxConns,               \* bound: connections the front accepts
    MaxCommands,            \* bound: connect, disconnect and schedule commands
    MaxFaults               \* bound: refused sends, bad answers, server logouts

ASSUME BatchAssumption == subscribe_batch_size \in Nat \ {0}

ASSUME BoundAssumption ==
    /\ IsFiniteSet(Instruments)
    /\ {sub_max_retry, MaxReqs, MaxConns, MaxCommands, MaxFaults} \subseteq Nat

VARIABLES
    running,     \* run() loops; after a SHUTDOWN it finishes its burst, then exits
    configured,  \* the current broker exists and has an enabled front
    st,          \* MdStateMachine state
    api,         \* api_ # nullptr
    info,        \* sub_manager_.instruments_sub_info_
    batches,     \* pending_batches_
    active,      \* sub_check_active_
    retry,       \* sub_retry_count_
    sub_timers,  \* the chain's timers in the timer queue; the last is sub_timer_id_
    conn_timer, login_timer,
    events,      \* SpscQueue from the SPI thread
    front, session, served, wire,  \* the CTP front: link, login, instruments, requests
    gaveUp,      \* history: instruments the chain gave up in this session
    failed,      \* history: instruments some subscribe request failed for
    reqs, conns, commands, faults

gateway == <<configured, st, api, info, batches, active, retry, sub_timers,
             conn_timer, login_timer>>
ctp     == <<front, session, served>>
fault   == <<faults, failed>>
bounds  == <<reqs, conns, commands, fault>>
vars    == <<running, gateway, events, ctp, wire, gaveUp, bounds>>

States == {"Idle", "Connecting", "Connected", "LoggingIn", "LoggedIn", "LoginFailed",
           "Disconnected"}

Reqs == [op : {"login"}] \cup [op : {"sub", "unsub"}, x : Instruments]

Events == [type : {"conn", "disc", "logout"}] \cup [type : {"login"}, ok : BOOLEAN]
          \cup [type : {"sub", "unsub"}, x : Instruments, ok : BOOLEAN]

TypeOK ==
    /\ running \in {"yes", "stopping", "exited"}
    /\ configured \in BOOLEAN /\ st \in States /\ api \in BOOLEAN
    /\ info \in Infos(Instruments, Strategies)
    /\ batches \in Seq(SUBSET Instruments)
    /\ active \in BOOLEAN /\ retry \in 0 .. sub_max_retry
    /\ sub_timers \in Seq([kind : {"send", "check"}, fresh : BOOLEAN])
    /\ conn_timer \in BOOLEAN /\ login_timer \in BOOLEAN
    /\ events \in Seq(Events)
    /\ front \in {"none", "down", "up"} /\ session \in BOOLEAN
    /\ served \subseteq Instruments /\ wire \in Seq(Reqs)
    /\ gaveUp \subseteq Instruments /\ failed \subseteq Instruments
    /\ reqs \in 0 .. MaxReqs /\ conns \in 0 .. MaxConns
    /\ commands \in 0 .. MaxCommands /\ faults \in 0 .. MaxFaults

Init ==
    /\ running = "yes" /\ configured = TRUE /\ st = "Idle" /\ api = FALSE
    /\ info = NoInfo
    /\ batches = <<>> /\ active = FALSE /\ retry = 0 /\ sub_timers = <<>>
    /\ conn_timer = FALSE /\ login_timer = FALSE
    /\ events = <<>>
    /\ front = "none" /\ session = FALSE /\ served = {} /\ wire = <<>>
    /\ gaveUp = {} /\ failed = {}
    /\ reqs = 0 /\ conns = 0 /\ commands = 0 /\ faults = 0

-----------------------------------------------------------------------------
(* MdStateMachine: each transition, or the state as it is.                 *)

Step(s, from, to) == IF s \in from THEN to ELSE s

LoginStates == {"Connected", "LoginFailed"}

sm_on_connect(s)            == Step(s, {"Idle"}, "Connecting")
sm_on_connect_timeout(s)    == Step(s, {"Connecting"}, "Idle")
sm_on_disconnect(s)         == "Idle"
sm_on_front_connected(s)    == Step(s, {"Connecting", "Disconnected"}, "Connected")
sm_on_front_disconnected(s) == Step(s, States \ {"Idle"}, "Disconnected")
sm_on_req_login(s)          == Step(s, LoginStates, "LoggingIn")
sm_on_login_success(s)      == Step(s, {"LoggingIn"}, "LoggedIn")
sm_on_login_failed(s)       == Step(s, {"LoggingIn"}, "LoginFailed")
sm_on_server_logout(s)      == Step(s, {"LoggedIn"}, "Connected")

-----------------------------------------------------------------------------
(* Requests to the front.                                                  *)

\* Something goes wrong; the subscribe requests for S are lost by it.
FaultFor(S) == faults < MaxFaults /\ faults' = faults + 1 /\ failed' = failed \cup S

Fault == FaultFor({})

\* A request call: it returns 0 and the requests are on the wire, or it is
\* refused; on a link that is down it is always refused.
Request(w, rs) ==
    \/ front = "up" /\ wire' = w \o rs /\ UNCHANGED fault
    \/ front = "up" /\ wire' = w /\ FaultFor({r.x : r \in {q \in Range(rs) : q.op = "sub"}})
    \/ front # "up" /\ wire' = w /\ UNCHANGED fault

Each(op, S) == LET s == SetToSeq(S) IN [k \in 1 .. Len(s) |-> [op |-> op, x |-> s[k]]]

\* batch_unsubscribe: refused requests are logged and forgotten.
batch_unsubscribe(S) == Request(wire, Each("unsub", S))

can_login(s) == s \in LoginStates

\* From state s: LoggingIn only when ReqUserLogin has returned 0.
req_user_login(s) ==
    \/ /\ api /\ can_login(s) /\ configured /\ front = "up"
       /\ wire' = Append(wire, [op |-> "login"])
       /\ st' = sm_on_req_login(s) /\ login_timer' = TRUE
       /\ UNCHANGED fault
    \/ /\ ~(api /\ can_login(s) /\ configured /\ front = "up")
       /\ st' = s /\ UNCHANGED <<wire, login_timer, fault>>
    \/ /\ api /\ can_login(s) /\ configured /\ front = "up" /\ Fault
       /\ st' = s /\ UNCHANGED <<wire, login_timer>>

-----------------------------------------------------------------------------
(* The subscription chain.                                                 *)

make_batches(S) ==
    LET s == SetToSeq(S)
        n == (Len(s) + subscribe_batch_size - 1) \div subscribe_batch_size
    IN  [k \in 1 .. n |->
            {s[j] : j \in {i \in 1 .. Len(s) : (i - 1) \div subscribe_batch_size = k - 1}}]

enqueue_batches(bs, S) == bs \o make_batches(S)

Timer(kind) == [kind |-> kind, fresh |-> TRUE]

\* From the queue bs, with the timers ts pending: the next batch and a timer
\* for the one after it, or, when all are sent, the timer of the check.
send_next_batch(bs, ts) ==
    IF bs = <<>>
    THEN /\ batches' = bs /\ sub_timers' = Append(ts, Timer("check"))
         /\ UNCHANGED <<wire, fault>>
    ELSE /\ batches' = Tail(bs) /\ sub_timers' = Append(ts, Timer("send"))
         /\ Request(wire, Each("sub", Head(bs)))

\* Mutant: the timer of the chain outlives the session.
KeepsTimers(ts) == ts

\* What every loss of the session does to the chain: cancel(sub_timer_id_)
\* removes the last timer, ++sub_generation_ disarms any other.
CancelledTimers(ts) ==
    [k \in 1 .. Len(ts) - 1 |-> [ts[k] EXCEPT !.fresh = FALSE]]

ClearChain ==
    /\ batches' = <<>> /\ active' = FALSE /\ retry' = 0
    /\ sub_timers' = CancelledTimers(sub_timers)

\* Mutant: what is pending is taken for queued, and never sent again.
PendingIsQueued(queued, pending, n) ==
    IF queued \/ pending THEN "ContinueSend" ELSE "Done"

decide_batch_check_action(queued, pending, n) ==
    IF queued THEN "ContinueSend"
    ELSE IF ~pending THEN "Done"
    ELSE IF n + 1 > sub_max_retry THEN "GiveUp" ELSE "Retry"

on_batch_complete(ts) ==
    LET pending == check_subscribe_status(info)
        act == decide_batch_check_action(batches # <<>>, pending # {}, retry)
    IN  \/ /\ act = "ContinueSend"
           /\ send_next_batch(batches, ts)
           /\ UNCHANGED <<info, active, retry, gaveUp>>
        \/ /\ act = "Done"
           /\ active' = FALSE /\ retry' = 0 /\ sub_timers' = ts
           /\ UNCHANGED <<info, batches, wire, gaveUp, fault>>
        \/ /\ act = "GiveUp"
           /\ info' = reset_pending_state(info)
           /\ gaveUp' = gaveUp \cup pending
           /\ active' = FALSE /\ retry' = 0 /\ sub_timers' = ts
           /\ UNCHANGED <<batches, wire, fault>>
        \/ /\ act = "Retry"
           /\ retry' = retry + 1
           /\ send_next_batch(enqueue_batches(batches, pending), ts)
           /\ UNCHANGED <<info, active, gaveUp>>

\* A timer of the chain expires: callbacks of an older generation do nothing,
\* and both kinds do nothing useful outside LoggedIn.
SubTimer(k) ==
    LET t  == sub_timers[k]
        ts == RemoveAt(sub_timers, k)
        on == api /\ st = "LoggedIn"
    IN  /\ running = "yes"
        /\ \/ /\ ~t.fresh \/ (~on /\ t.kind = "send")
              /\ sub_timers' = ts
              /\ UNCHANGED <<info, batches, active, retry, wire, gaveUp, fault>>
           \/ /\ t.fresh /\ ~on /\ t.kind = "check"
              /\ active' = FALSE /\ retry' = 0 /\ sub_timers' = ts
              /\ UNCHANGED <<info, batches, wire, gaveUp, fault>>
           \/ /\ t.fresh /\ on /\ t.kind = "send"
              /\ send_next_batch(batches, ts)
              /\ UNCHANGED <<info, active, retry, gaveUp>>
           \/ /\ t.fresh /\ on /\ t.kind = "check"
              /\ on_batch_complete(ts)
        /\ UNCHANGED <<running, configured, st, api, conn_timer, login_timer, events, ctp,
                       reqs, conns, commands>>

-----------------------------------------------------------------------------
(* Frames.                                                                 *)

Listening == running # "exited"

\* handle_subscribe_req: unsubscribe requests first, then the subscriptions.
SubscribeReqs ==
    [action : {"Subscribe"}, who : Strategies, replace : BOOLEAN, list : SUBSET Instruments \ {{}}]
    \cup [action : {"Unsubscribe"}, who : Strategies, list : SUBSET Instruments \ {{}}]
    \cup [action : {"UnsubscribeAll"}, who : Strategies]

\* The unsubscribe call and the first batch of a chain, in this order.
UnsubThenSub(off, bs) ==
    \/ /\ front = "up"
       /\ \/ wire' = wire \o Each("unsub", off) \o Each("sub", Head(bs)) /\ UNCHANGED fault
          \/ wire' = wire \o Each("unsub", off) /\ FaultFor(Head(bs))
          \/ off # {} /\ wire' = wire \o Each("sub", Head(bs)) /\ Fault
    \/ front # "up" /\ UNCHANGED <<wire, fault>>

handle_subscribe_req(r) ==
    LET leave == r.action # "Subscribe" \/ r.replace
        out   == IF r.action = "Unsubscribe" THEN r.list ELSE DOMAIN info
        off   == IF leave THEN to_unsub(info, r.who, out) ELSE {}
        m     == IF leave THEN unsubscribe(info, r.who, out) ELSE info
        on    == IF r.action = "Subscribe" THEN to_subscribe(m, r.list) ELSE {}
        m2    == IF r.action = "Subscribe" THEN subscribe(m, r.who, r.list) ELSE m
        bs    == enqueue_batches(batches, on)
    IN  /\ Listening /\ reqs < MaxReqs /\ reqs' = reqs + 1
        /\ \/ /\ on = {} \/ ~api \/ st # "LoggedIn"
              /\ info' = m2
              /\ IF api /\ off # {} THEN batch_unsubscribe(off) ELSE UNCHANGED <<wire, fault>>
              /\ UNCHANGED <<batches, active, sub_timers, gaveUp>>
           \/ /\ on # {} /\ api /\ st = "LoggedIn"
              /\ info' = mark_pending(m2, on)
              /\ gaveUp' = gaveUp \ on
              /\ active' = TRUE
              /\ IF active
                 THEN /\ batches' = bs /\ UNCHANGED sub_timers
                      /\ IF off = {} THEN UNCHANGED <<wire, fault>> ELSE batch_unsubscribe(off)
                 ELSE /\ batches' = Tail(bs) /\ sub_timers' = Append(sub_timers, Timer("send"))
                      /\ UnsubThenSub(off, bs)
        /\ UNCHANGED <<running, configured, st, api, retry, conn_timer, login_timer, events, ctp,
                       conns, commands>>

Command == Listening /\ commands < MaxCommands /\ commands' = commands + 1

\* connect(): a new API instance from Idle, a new login where the front is
\* connected, refused everywhere else.
CreateApi ==
    /\ st = "Idle" /\ configured
    /\ api' = TRUE /\ front' = "down" /\ st' = sm_on_connect(st) /\ conn_timer' = TRUE
    /\ UNCHANGED <<login_timer, wire, fault>>

connect ==
    \/ can_login(st) /\ req_user_login(st) /\ UNCHANGED <<api, front, conn_timer>>
    \/ CreateApi

\* disconnect(): Release() ends the API's threads; what they queued stays.
disconnect ==
    /\ api' = FALSE /\ st' = sm_on_disconnect(st) /\ conn_timer' = FALSE /\ login_timer' = FALSE
    /\ info' = on_idle(info)
    /\ ClearChain
    /\ front' = "none" /\ session' = FALSE /\ served' = {} /\ wire' = <<>> /\ gaveUp' = {}

handle_connect ==
    /\ Command /\ connect
    /\ UNCHANGED <<running, configured, info, batches, active, retry, sub_timers, events,
                   session, served, gaveUp, reqs, conns>>

handle_disconnect ==
    /\ Command /\ (st # "Idle" \/ api) /\ disconnect
    /\ UNCHANGED <<running, configured, events, reqs, conns, fault>>

\* A change of the connection settings is applied only in Idle.
apply_config_change ==
    /\ Command /\ st = "Idle"
    /\ configured' = ~configured
    /\ UNCHANGED <<running, st, api, info, batches, active, retry, sub_timers, conn_timer,
                   login_timer, events, ctp, wire, gaveUp, reqs, conns, fault>>

handle_shutdown ==
    /\ running = "yes" /\ running' = "stopping"
    /\ IF api THEN disconnect
              ELSE UNCHANGED <<st, api, info, batches, active, retry, sub_timers, conn_timer,
                               login_timer, ctp, wire, gaveUp>>
    /\ UNCHANGED <<configured, events, bounds>>

\* run() has returned: the destructor releases the API and drains the queue.
Exit ==
    /\ running = "stopping" /\ running' = "exited"
    /\ api' = FALSE /\ login_timer' = FALSE /\ events' = <<>>
    /\ front' = "none" /\ session' = FALSE /\ served' = {} /\ wire' = <<>>
    /\ UNCHANGED <<configured, st, info, batches, active, retry, sub_timers, conn_timer,
                   gaveUp, bounds>>

-----------------------------------------------------------------------------
(* Timers of the connection and the schedule.                              *)

connect_timeout ==
    /\ running = "yes" /\ conn_timer
    /\ IF sm_on_connect_timeout(st) # st THEN disconnect
       ELSE /\ conn_timer' = FALSE
            /\ UNCHANGED <<st, api, login_timer, info, batches, active, retry, sub_timers, ctp,
                           wire, gaveUp>>
    /\ UNCHANGED <<running, configured, events, bounds>>

login_timeout ==
    /\ running = "yes" /\ login_timer
    /\ login_timer' = FALSE
    /\ st' = sm_on_login_failed(st)
    /\ UNCHANGED <<running, configured, api, info, batches, active, retry, sub_timers,
                   conn_timer, events, ctp, wire, gaveUp, bounds>>

\* The minute of a login or of a logout; try_recover_login at the start of a
\* recovered process is the same step from Idle.
on_sched_timer(action) ==
    /\ running = "yes" /\ Command
    /\ \/ /\ action = "Login" /\ st # "LoggedIn" /\ connect
          /\ UNCHANGED <<info, batches, active, retry, sub_timers, session, served, gaveUp>>
       \/ /\ action = "Logout" /\ st = "LoggedIn" /\ disconnect
          /\ UNCHANGED fault
    /\ UNCHANGED <<running, configured, events, reqs, conns>>

-----------------------------------------------------------------------------
(* Events from the SPI thread.                                             *)

on_front_connected ==
    /\ conn_timer' = FALSE
    /\ req_user_login(sm_on_front_connected(st))
    /\ UNCHANGED <<api, info, batches, active, retry, sub_timers, gaveUp>>

on_front_disconnected ==
    /\ st' = sm_on_front_disconnected(st)
    /\ info' = on_session_lost(info)
    /\ ClearChain
    /\ login_timer' = FALSE /\ conn_timer' = FALSE /\ gaveUp' = {}
    /\ UNCHANGED <<api, wire, fault>>

on_rsp_user_logout ==
    /\ st' = sm_on_server_logout(st)
    /\ info' = on_session_lost(info)
    /\ ClearChain
    /\ gaveUp' = {}
    /\ UNCHANGED <<api, conn_timer, login_timer, wire, fault>>

\* A successful login drops the entries nobody wants, then subscribes again
\* everything that is wanted.
on_rsp_user_login(ok) ==
    \/ /\ st # "LoggingIn"
       /\ UNCHANGED <<st, login_timer, info, batches, active, retry, sub_timers, gaveUp, api,
                      conn_timer, wire, fault>>
    \/ /\ st = "LoggingIn" /\ ~ok
       /\ st' = sm_on_login_failed(st) /\ login_timer' = FALSE
       /\ UNCHANGED <<info, batches, active, retry, sub_timers, gaveUp, api, conn_timer, wire,
                      fault>>
    \/ /\ st = "LoggingIn" /\ ok
       /\ st' = sm_on_login_success(st) /\ login_timer' = FALSE
       /\ LET m    == on_logged_in(info)
              resu == to_resubscribe(m)
              ts   == CancelledTimers(sub_timers)
          IN  /\ retry' = 0
              /\ IF resu = {}
                 THEN /\ info' = m /\ batches' = <<>> /\ active' = FALSE /\ sub_timers' = ts
                      /\ UNCHANGED <<wire, fault>>
                 ELSE /\ info' = mark_pending(m, resu) /\ active' = TRUE
                      /\ send_next_batch(enqueue_batches(<<>>, resu), ts)
       /\ gaveUp' = {}
       /\ UNCHANGED <<api, conn_timer>>

on_rsp_sub_market_data(x, ok) ==
    /\ IF api /\ st = "LoggedIn"
       THEN /\ info' = on_sub_confirmed(info, x, ok)
            /\ IF NeedsUnsub(info, x, ok) THEN batch_unsubscribe({x})
                                          ELSE UNCHANGED <<wire, fault>>
       ELSE UNCHANGED <<info, wire, fault>>
    /\ UNCHANGED <<st, api, batches, active, retry, sub_timers, conn_timer, login_timer, gaveUp>>

on_rsp_unsub_market_data(x, ok) ==
    /\ info' = IF api /\ st = "LoggedIn" /\ ok THEN on_unsub_confirmed(info, x) ELSE info
    /\ UNCHANGED <<st, api, batches, active, retry, sub_timers, conn_timer, login_timer, gaveUp,
                   wire, fault>>

dispatch_ctp_event ==
    /\ Listening /\ events # <<>> /\ events' = Tail(events)
    /\ LET e == Head(events)
       IN  \/ e.type = "conn"   /\ on_front_connected
           \/ e.type = "disc"   /\ on_front_disconnected
           \/ e.type = "logout" /\ on_rsp_user_logout
           \/ e.type = "login"  /\ on_rsp_user_login(e.ok)
           \/ e.type = "sub"    /\ on_rsp_sub_market_data(e.x, e.ok)
           \/ e.type = "unsub"  /\ on_rsp_unsub_market_data(e.x, e.ok)
    /\ UNCHANGED <<running, configured, ctp, reqs, conns, commands>>

-----------------------------------------------------------------------------
(* The CTP front, as MdApi and MdSpi use it: it takes the requests of one  *)
(* connection in order and answers each of them; a lost connection loses   *)
(* the requests on the wire, the login and all subscriptions.              *)

Push(e) == events' = Append(events, e)

OnFrontConnected ==
    /\ front = "down" /\ conns < MaxConns /\ conns' = conns + 1
    /\ front' = "up" /\ Push([type |-> "conn"])
    /\ UNCHANGED <<running, gateway, session, served, wire, gaveUp, reqs, commands, fault>>

OnFrontDisconnected ==
    /\ front = "up"
    /\ front' = "down" /\ session' = FALSE /\ served' = {} /\ wire' = <<>>
    /\ Push([type |-> "disc"])
    /\ UNCHANGED <<running, gateway, gaveUp, bounds>>

OnRspUserLogout ==
    /\ front = "up" /\ session /\ Fault
    /\ session' = FALSE /\ served' = {}
    /\ Push([type |-> "logout"])
    /\ UNCHANGED <<running, gateway, front, wire, gaveUp, reqs, conns, commands>>

LoginAnswer(ok) ==
    /\ session' = (session \/ ok) /\ UNCHANGED served
    /\ Push([type |-> "login", ok |-> ok])
    /\ IF ok THEN UNCHANGED fault ELSE Fault

\* The front answers the oldest request, well or badly.
Answer ==
    /\ front = "up" /\ wire # <<>> /\ wire' = Tail(wire)
    /\ LET r == Head(wire)
       IN  \E ok \in BOOLEAN :
             \/ r.op = "login" /\ LoginAnswer(ok)
             \/ /\ r.op # "login" /\ (ok => session)
                /\ served' = IF ~ok THEN served
                             ELSE IF r.op = "sub" THEN served \cup {r.x} ELSE served \ {r.x}
                /\ Push([type |-> r.op, x |-> r.x, ok |-> ok])
                /\ IF ok \/ ~session THEN UNCHANGED fault
                   ELSE FaultFor(IF r.op = "sub" THEN {r.x} ELSE {})
                /\ UNCHANGED session
    /\ UNCHANGED <<running, gateway, front, gaveUp, reqs, conns, commands>>

-----------------------------------------------------------------------------
Next ==
    \/ \E r \in SubscribeReqs : handle_subscribe_req(r)
    \/ handle_connect
    \/ handle_disconnect
    \/ apply_config_change
    \/ handle_shutdown
    \/ Exit
    \/ connect_timeout
    \/ login_timeout
    \/ \E a \in {"Login", "Logout"} : on_sched_timer(a)
    \/ \E k \in DOMAIN sub_timers : SubTimer(k)
    \/ dispatch_ctp_event
    \/ OnFrontConnected
    \/ OnFrontDisconnected
    \/ OnRspUserLogout
    \/ Answer

\* The loop never stops taking events and expired timers, and the front
\* answers what it has received: neither waits for anything else.
Fairness ==
    /\ WF_vars(dispatch_ctp_event)
    /\ WF_vars(\E k \in DOMAIN sub_timers : SubTimer(k))
    /\ WF_vars(Answer)
    /\ WF_vars(Exit)

Spec == Init /\ [][Next]_vars

FairSpec == Spec /\ Fairness

-----------------------------------------------------------------------------
(* Properties.                                                             *)

Fresh == {k \in DOMAIN sub_timers : sub_timers[k].fresh}

\* A chain that is marked active has exactly one armed timer, an inactive one
\* has none, and whatever is queued or Pending while logged in has an active
\* chain: no request is left to nobody (sub_check_active_, sub_timer_id_ and
\* pending_batches_ are kept together by nine different handlers).
ChainDrivesPending ==
    /\ Len(sub_timers) = (IF active THEN 1 ELSE 0) /\ Fresh = DOMAIN sub_timers
    /\ st = "LoggedIn" =>
          (batches # <<>> \/ check_subscribe_status(info) # {} => active)
    /\ st # "LoggedIn" => ~active /\ batches = <<>> /\ check_subscribe_status(info) = {}

\* While logged in, an instrument somebody wants is requested, pending or
\* subscribed, unless the chain has given it up in this session.
NothingForgotten ==
    st = "LoggedIn" =>
        \A x \in DOMAIN info :
            info[x].subscribers # {} /\ info[x].state = "NotRequested" => x \in gaveUp

\* Nothing is on its way between the gateway and the front.
Settled == /\ st = "LoggedIn" /\ session /\ ~active
           /\ wire = <<>> /\ events = <<>>

\* Once everything has settled, what the gateway shows as Subscribed really
\* is: the strategy gets its ticks (on_sub_confirmed may see the answer to an
\* older request than the last one).  Not claimed for an instrument one of
\* whose subscribe requests failed: such a late answer then hides the failure.
SubscribedIsServed ==
    Settled => \A x \in DOMAIN info \ failed : info[x].state = "Subscribed" => x \in served

\* What a strategy wants and what it is shown are what it gets.
SubscriptionsKept == NothingForgotten /\ SubscribedIsServed

\* A login or a connection under way has its timeout armed, and what connect()
\* checked of the configuration stays true until the gateway is Idle again.
AttemptsEnd ==
    Listening =>
        /\ st = "LoggingIn" => login_timer
        /\ st = "Connecting" => conn_timer
        /\ st # "Idle" => configured /\ api

\* The gateway's timers, flags and queue agree in every state.
StructureOK ==
    /\ TypeOK
    /\ ChainDrivesPending
    /\ AttemptsEnd

\* A wanted instrument is subscribed, or given up, or no longer wanted, or
\* the session ends: the chain comes to an end.
WantedIsSettled ==
    \A x \in Instruments :
        (st = "LoggedIn" /\ x \in DOMAIN info /\ info[x].state = "Pending")
            ~> (x \notin DOMAIN info \/ info[x].state # "Pending" \/ st # "LoggedIn"
                \/ running # "yes")
===============================================================================
