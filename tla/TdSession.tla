----------------------------- MODULE TdSession -----------------------------
(***************************************************************************)
(* One trading account of the CTP trade gateway: TdApi (the sessions_ map, *)
(* the event dispatch, the account status frames, the scheduled resync)    *)
(* together with its AccountSession (login state machine, LoginFinalizer,  *)
(* the instrument / position / account query chain, its timers).           *)
(*                                                                         *)
(* CTP calls back on its own thread: a callback is appended to the event   *)
(* queue and handled later by the main loop, between frames and timers.    *)
(* The queue outlives the session: an event is routed by account id, so a  *)
(* session that was closed and opened again handles what its predecessor   *)
(* was sent.  A CTP request returns 0 ("ok"), -3 ("flow") or another error *)
(* ("err"), and the answer of an accepted one may come at any later time   *)
(* or never.  Timers may expire at any time; a timer whose generation_,    *)
(* token or alive_token_ is out of date does nothing when it fires, which  *)
(* is modelled by removing it where the code makes it stale.  What the     *)
(* reports say and the frames they cause are in TdSync.                    *)
(***************************************************************************)
EXTENDS Naturals, Sequences, FiniteSets

CONSTANTS
  UseAuth,    \* auth_code_ is configured: authenticate before login
  MaxQueue,   \* bound on the callbacks waiting in event_queue_
  MaxDay      \* bound on CTP's trading days

ASSUME UseAuthAssumption == UseAuth \in BOOLEAN
ASSUME BoundsAssumption == MaxQueue \in Nat \ {0} /\ MaxDay \in Nat

VARIABLES
  cfg,      \* the account in config_.accounts: "enabled", "disabled", "removed"
  sess,     \* sessions_ has the account
  s,        \* the AccountSession (its initial value when there is none)
  evq,      \* event_queue_: callbacks of this account not yet handled
  pushed,   \* the last DZ_FRAME_ACCOUNT_STATUS written (= account_last_state_)
  health,   \* account_health_: the last NOTIFY_TD_CONNECTED / DISCONNECTED
  resync,   \* the td_data_resync timer is scheduled
  trigger,  \* repush_last_records ran since the account became Ready
  ctpDay,   \* CTP's trading day
  day,      \* the trading day of the last good login answer: trading_day_
  posRow,   \* positions rows of that day are written
  accRow,   \* a trading_accounts row of that day is written
  crossed   \* history: CTP was called on a link the session had not heard of

rows == <<day, posRow, accRow>>
vars == <<cfg, sess, s, evq, pushed, health, resync, trigger, ctpDay, rows, crossed>>

TdStates == {"Idle", "Connecting", "Connected", "Authenticating", "Authenticated",
             "LoggingIn", "LoggedIn", "Confirming", "LoadingInstruments", "Ready",
             "Disconnected"}
\* The phases the finalizer can be left in: drive_finalizer goes through Replay,
\* Flush and Ready without a pause.
Phases == {"QueryPosition", "QueryAccount", "Done"}
Timers == {"connect", "auth", "login", "inst", "instRetry", "pos", "poll_pos",
           "posRetry", "acc", "accOld", "accRetry", "poll"}
Retries == {"instRetry", "posRetry", "accRetry"}
\* Requests CTP has accepted; "posOld" is a position query that a later one
\* has replaced (its request id is no longer position_query_request_id_).
Requests == {"auth", "login", "settle", "inst", "pos", "posOld", "acc"}
\* An answer carries the trading day CTP was on when it gave it.
Events == [t : Requests \cup {"conn", "disc"}, ok : BOOLEAN, day : 0..MaxDay]

AccountStateOf(st) ==
  CASE st \in {"Idle", "Disconnected"} -> "Offline"
    [] st = "Ready" -> "Ready"
    [] OTHER -> "LoggingIn"

\* The members of a fresh AccountSession; up: the CTP link is established,
\* genOk: query_gen_ = generation_, asked: requests not yet answered,
\* reasked: this step took a new position_query_request_id_.
NewSession ==
  [st |-> "Idle", wasAuth |-> FALSE, phase |-> "QueryPosition",
   posOk |-> FALSE, accOk |-> FALSE, dataOk |-> FALSE,
   inFlight |-> FALSE, baseline |-> FALSE, genOk |-> TRUE,
   timers |-> {}, asked |-> {}, up |-> FALSE, reasked |-> FALSE]

-----------------------------------------------------------------------------
(* TdStateMachine: a transition from another state is refused, the caller  *)
(* goes on either way.                                                     *)
Move(x, from, to) == IF x.st \in from THEN [x EXCEPT !.st = to] ELSE x

on_connect(x) == Move(x, {"Idle"}, "Connecting")
on_front_connected_sm(x) == Move(x, {"Connecting", "Disconnected"}, "Connected")
on_front_disconnected_sm(x) ==
  IF x.st \in {"Idle", "Disconnected"} THEN x
  ELSE [x EXCEPT !.st = "Disconnected", !.wasAuth = FALSE]
on_connect_timeout(x) == Move(x, {"Connecting"}, "Idle")
on_req_authenticate(x) == Move(x, {"Connected"}, "Authenticating")
on_authenticate_success(x) ==
  IF x.st # "Authenticating" THEN x
  ELSE [x EXCEPT !.st = "Authenticated", !.wasAuth = TRUE]
on_authenticate_failed(x) == Move(x, {"Authenticating"}, "Connected")
on_req_login(x) == Move(x, {"Connected", "Authenticated"}, "LoggingIn")
on_login_success(x) == Move(x, {"LoggingIn"}, "LoggedIn")
on_login_failed(x) ==
  Move(x, {"LoggingIn"}, IF x.wasAuth THEN "Authenticated" ELSE "Connected")
on_req_settlement_confirm(x) == Move(x, {"LoggedIn"}, "Confirming")
on_settlement_confirmed(x) == Move(x, {"Confirming"}, "LoadingInstruments")
on_settlement_confirm_failed(x) == Move(x, {"Confirming"}, "LoggedIn")
on_instruments_loaded(x) == Move(x, {"LoadingInstruments"}, "Ready")
on_instruments_load_failed(x) == Move(x, {"LoadingInstruments"}, "LoggedIn")

-----------------------------------------------------------------------------
(* Requests.  Each operator gives the set of sessions the call can leave.  *)
Ask(x, r) == [x EXCEPT !.asked = @ \cup {r}]
Arm(x, t) == [x EXCEPT !.timers = @ \cup {t}]
Cancel(x, ts) == [x EXCEPT !.timers = @ \ ts]

req_authenticate(x) ==
  {x} \cup (IF x.up THEN {Arm(on_req_authenticate(Ask(x, "auth")), "auth")} ELSE {})
req_login(x) ==
  {x} \cup (IF x.up THEN {Arm(on_req_login(Ask(x, "login")), "login")} ELSE {})
req_settlement_confirm(x) ==
  {x} \cup (IF x.up THEN {on_req_settlement_confirm(Ask(x, "settle"))} ELSE {})

req_qry_instrument(x) ==
  LET q == [x EXCEPT !.genOk = TRUE]
  IN  {on_instruments_load_failed(q)}
      \cup (IF ~x.up THEN {}
            ELSE {Arm(q, "instRetry"), Arm(Cancel(Ask(q, "inst"), {"inst"}), "inst")})

\* finalize_login and drive_finalizer: replay, flush barrier, Ready, done in
\* one call of the main loop; a second pass through it (a resync of a Ready
\* account) does not turn the state machine again.
finalize_login(x) ==
  Arm([on_instruments_loaded(x) EXCEPT !.phase = "Done",
                                       !.dataOk = x.posOk /\ x.accOk], "poll")

account_failed(x) == finalize_login([x EXCEPT !.accOk = FALSE])

AccountQueryWithoutTimeout(x) ==
  LET q == [x EXCEPT !.genOk = TRUE]
  IN  {account_failed(q)}
      \cup (IF ~x.up THEN {} ELSE {Arm(q, "accRetry"), Ask(q, "acc")})

req_qry_trading_account(x) ==
  LET q == [x EXCEPT !.genOk = TRUE]
  IN  {account_failed(q)}
      \cup (IF ~x.up THEN {}
            ELSE {Arm(q, "accRetry"),
                  Arm(Ask(IF "acc" \in x.timers THEN Arm(q, "accOld") ELSE q, "acc"), "acc")})

position_failed(x) ==
  req_qry_trading_account([x EXCEPT !.phase = "QueryAccount", !.posOk = FALSE])

\* A new query takes a new request id and a new token: the answer and the
\* timeout of the previous one are stale from here on.
NewPositionQuery(x) ==
  [x EXCEPT !.genOk = TRUE, !.inFlight = TRUE, !.reasked = TRUE,
            !.asked = IF "pos" \in @ THEN (@ \ {"pos"}) \cup {"posOld"} ELSE @,
            !.timers = @ \ {"pos", "poll_pos"}]
req_qry_investor_position(x, login_chain) ==
  LET q == NewPositionQuery(x)
      failed == [q EXCEPT !.inFlight = FALSE]
  IN  (IF login_chain THEN position_failed(failed) ELSE {failed})
      \cup (IF ~x.up THEN {}
            ELSE {IF login_chain THEN Arm(failed, "posRetry") ELSE failed,
                  Arm(Ask(q, "pos"), IF login_chain THEN "pos" ELSE "poll_pos")})

-----------------------------------------------------------------------------
(* AccountSession: open, disconnect and the handlers of CTP's callbacks.   *)
open(x) == Arm(on_connect(x), "connect")

FirstRequest(x) == IF UseAuth THEN req_authenticate(x) ELSE req_login(x)
on_front_connected(x) == FirstRequest(on_front_connected_sm(Cancel(x, {"connect"})))

on_front_disconnected(x) ==
  {[on_front_disconnected_sm(x) EXCEPT
      !.timers = {}, !.genOk = FALSE, !.phase = "QueryPosition",
      !.posOk = FALSE, !.accOk = FALSE, !.dataOk = FALSE,
      !.baseline = FALSE, !.inFlight = FALSE]}

on_rsp_authenticate(x, ok) ==
  LET c == Cancel(x, {"auth", "login"})
  IN  IF ok THEN req_login(on_authenticate_success(c)) ELSE {on_authenticate_failed(c)}

\* The day baseline is loaded from the trade database before the login counts
\* as successful; a failed load is a failed login.
on_rsp_user_login(x, ok) ==
  LET c == Cancel(x, {"auth", "login"})
  IN  {on_login_failed(c)}
      \cup (IF ok THEN req_settlement_confirm(on_login_success(c)) ELSE {})

on_rsp_settlement_confirm(x, ok) ==
  IF ok THEN req_qry_instrument(on_settlement_confirmed(x))
        ELSE {on_settlement_confirm_failed(x)}

\* The row with is_last.
on_rsp_qry_instrument(x, ok) ==
  LET c == Cancel(x, {"inst"})
      clean == [c EXCEPT !.baseline = FALSE, !.phase = "QueryPosition",
                         !.posOk = FALSE, !.accOk = FALSE]
  IN  IF ~x.genOk \/ x.st # "LoadingInstruments" THEN {x}
      ELSE IF ok THEN req_qry_investor_position(clean, TRUE)
      ELSE {on_instruments_load_failed(c)}

\* The row with is_last; a good answer is applied to the holdings.
on_rsp_qry_investor_position(x, ok) ==
  LET y == [x EXCEPT !.inFlight = FALSE, !.posOk = ok, !.baseline = @ \/ ok]
  IN  IF ~x.genOk THEN {x}
      ELSE IF y.phase = "QueryPosition"
           THEN req_qry_trading_account([y EXCEPT !.phase = "QueryAccount"])
           ELSE {y}

WritesAnyAccountRow(x, ok) == x.genOk /\ ok

\* The account row is written only on top of a good position query.
WritesAccountRow(x, ok) == x.genOk /\ ok /\ x.posOk
on_rsp_qry_trading_account(x, ok) ==
  LET y == [x EXCEPT !.accOk = ok]
  IN  IF ~x.genOk THEN {x}
      ELSE IF y.phase = "QueryAccount" THEN {finalize_login(y)} ELSE {y}

resync_account_data(x) ==
  IF x.st # "Ready" \/ x.dataOk \/ x.inFlight \/ x.phase # "Done" THEN {x}
  ELSE req_qry_investor_position(
         [x EXCEPT !.posOk = FALSE, !.accOk = FALSE, !.phase = "QueryPosition"], TRUE)

on_position_poll_timer(x) ==
  IF x.st # "Ready" THEN {x}
  ELSE {Arm(y, "poll") :
          y \in IF x.baseline /\ x.dataOk /\ ~x.inFlight
                THEN req_qry_investor_position(x, FALSE) ELSE {x}}

\* What each timer callback does, once it has found itself still valid.
position_timeout(x, login_chain) ==
  LET y == [x EXCEPT !.inFlight = FALSE]
  IN  IF ~x.inFlight THEN {x}
      ELSE IF /\ x.phase = "QueryPosition"
              /\ x.st = "LoadingInstruments" \/ (login_chain /\ x.st = "Ready")
           THEN position_failed(y) ELSE {y}
account_timeout(x) ==
  IF x.phase = "QueryAccount" /\ x.st \in {"LoadingInstruments", "Ready"}
  THEN {account_failed(x)} ELSE {x}

Fired(x, t) ==
  CASE t = "connect"   -> {on_connect_timeout(x)}
    [] t = "auth"      -> {on_authenticate_failed(x)}
    [] t = "login"     -> {on_login_failed(x)}
    [] t = "inst"      -> {on_instruments_load_failed(x)}
    [] t = "instRetry" -> IF x.st = "LoadingInstruments" THEN req_qry_instrument(x) ELSE {x}
    [] t = "pos"       -> position_timeout(x, TRUE)
    [] t = "poll_pos"  -> position_timeout(x, FALSE)
    [] t = "posRetry"  -> IF x.phase = "QueryPosition"
                          THEN req_qry_investor_position(x, TRUE) ELSE {x}
    [] t \in {"acc", "accOld"} -> account_timeout(x)
    [] t = "accRetry"  -> IF x.phase = "QueryAccount"
                          THEN req_qry_trading_account(x) ELSE {x}
    [] t = "poll"      -> on_position_poll_timer(x)

Handled(x, e) ==
  CASE e.t = "conn"   -> on_front_connected(x)
    [] e.t = "disc"   -> on_front_disconnected(x)
    [] e.t = "auth"   -> on_rsp_authenticate(x, e.ok)
    [] e.t = "login"  -> on_rsp_user_login(x, e.ok)
    [] e.t = "settle" -> on_rsp_settlement_confirm(x, e.ok)
    [] e.t = "inst"   -> on_rsp_qry_instrument(x, e.ok)
    [] e.t = "pos"    -> on_rsp_qry_investor_position(x, e.ok)
    [] e.t = "posOld" -> {x}
    [] e.t = "acc"    -> on_rsp_qry_trading_account(x, e.ok)

-----------------------------------------------------------------------------
(* TdApi.                                                                  *)
\* A position answer that is still queued carries the request id of the query
\* before: it is stale once the session has asked again.  The timeout of a
\* position query that is not in flight does nothing when it fires.
Stale(q) == [i \in DOMAIN q |-> IF q[i].t = "pos" THEN [q[i] EXCEPT !.t = "posOld"] ELSE q[i]]

\* The session has yet to hear of a link that is up, or was: what it asks now is
\* asked on that link, though its state is that of the one before.
Behind(q) == \E i \in DOMAIN q : q[i].t = "conn"
Called(x, y) == ~(y.asked \subseteq x.asked /\ y.timers \cap Retries \subseteq x.timers)

Settle(x, y, q) ==
  /\ s' = [y EXCEPT !.reasked = FALSE,
                    !.timers = IF y.inFlight THEN @ ELSE @ \ {"pos", "poll_pos"}]
  /\ evq' = IF y.reasked THEN Stale(q) ELSE q
  /\ crossed' = (crossed \/ (Behind(q) /\ Called(x, y)))

write_account_status(state) == pushed' = state

\* The tail of dispatch and handle_front_event: the health notice and the
\* status frame for the state the handler left, and the last record pushed
\* again when the handler made the account Ready.
DispatchTail(before, after) ==
  /\ write_account_status(AccountStateOf(after))
  /\ health' = IF before # "Ready" /\ after = "Ready" THEN "Up"
               ELSE IF before = "Ready" /\ after # "Ready" THEN "Down" ELSE health
  /\ trigger' = (IF before # "Ready" THEN after = "Ready" ELSE trigger /\ after = "Ready")

\* Position and account answers write their rows of the day; set_trading_day
\* at a good login answer may open a day that has none yet.
RowsAfter(e, y) ==
  LET dayOpens == e.t = "login" /\ e.ok /\ e.day # day
  IN  /\ day' = IF dayOpens THEN e.day ELSE day
      /\ posRow' = (~dayOpens /\ (posRow \/ (e.t = "pos" /\ e.ok /\ y.baseline)))
      /\ accRow' = (~dayOpens /\ (accRow \/ (e.t = "acc" /\ WritesAccountRow(s, e.ok))))

process_event ==
  /\ evq # <<>>
  /\ IF ~sess
     THEN /\ evq' = Tail(evq)
          /\ UNCHANGED <<s, pushed, health, trigger, rows, crossed>>
     ELSE \E y \in Handled(s, Head(evq)) :
            /\ Settle(s, y, Tail(evq))
            /\ DispatchTail(s.st, y.st)
            /\ RowsAfter(Head(evq), y)
  /\ UNCHANGED <<cfg, sess, resync, ctpDay>>

\* The timer queue runs a session's callback: of all of them only the connect
\* timeout reports the state it leaves.
SessionTimer(t) ==
  /\ sess /\ t \in s.timers
  /\ \E y \in Fired(Cancel(s, {t}), t) :
       /\ Settle(Cancel(s, {t}), y, evq)
       /\ IF t = "connect" /\ s.st = "Connecting"
          THEN write_account_status("Offline") ELSE UNCHANGED pushed
       /\ trigger' = (trigger /\ y.st = "Ready")
  /\ UNCHANGED <<cfg, sess, health, resync, ctpDay, rows>>

on_data_resync_timer ==
  /\ resync
  /\ LET incomplete == sess /\ s.st = "Ready" /\ ~s.dataOk
     IN  /\ \E y \in IF incomplete THEN resync_account_data(s) ELSE {s} : Settle(s, y, evq)
         /\ resync' = incomplete
  /\ UNCHANGED <<cfg, sess, pushed, health, trigger, ctpDay, rows>>

\* TD_CONNECT, the scheduled login and the recovery login all end here; an
\* account that has a session, whatever its state, is left alone.
connect_account_by_id ==
  /\ cfg = "enabled" /\ ~sess
  /\ sess' = TRUE
  /\ s' = open(NewSession)
  /\ evq' = Stale(evq)
  /\ write_account_status("LoggingIn")
  /\ UNCHANGED <<cfg, health, resync, trigger, ctpDay, rows, crossed>>

DisconnectSilently ==
  /\ sess
  /\ sess' = FALSE
  /\ s' = NewSession
  /\ trigger' = FALSE
  /\ UNCHANGED <<cfg, evq, pushed, health, resync, ctpDay, rows, crossed>>

\* TD_DISCONNECT and the scheduled logout.
disconnect_account_by_id ==
  /\ sess
  /\ sess' = FALSE
  /\ s' = NewSession
  /\ write_account_status("Offline")
  /\ trigger' = FALSE
  /\ UNCHANGED <<cfg, evq, health, resync, ctpDay, rows, crossed>>

\* DZ_FRAME_QUERY_FULL_SNAPSHOT, a status query and the end of every accepted
\* configuration change push the status of every configured account.
report_account_status_all(c) ==
  pushed' = IF c # "removed" THEN AccountStateOf(s.st) ELSE pushed

report_full_snapshot ==
  /\ report_account_status_all(cfg)
  /\ UNCHANGED <<cfg, sess, s, evq, health, resync, trigger, ctpDay, rows, crossed>>

\* AddAccount, RemoveAccount and SetAccountEnabled; RemoveAccount is refused
\* while the account has a session.
apply_config_change ==
  \E c \in {"enabled", "disabled", "removed"} \ {cfg} :
    /\ c = "removed" => ~sess
    /\ cfg' = c
    /\ report_account_status_all(c)
    /\ UNCHANGED <<sess, s, evq, health, resync, trigger, ctpDay, rows, crossed>>

-----------------------------------------------------------------------------
(* CTP: the link comes and goes, a request is answered well or badly, late *)
(* or never, and nothing is answered across a lost link.                   *)
Callback(t, ok, y) ==
  /\ sess /\ Len(evq) < MaxQueue
  /\ evq' = Append(evq, [t |-> t, ok |-> ok, day |-> ctpDay'])
  /\ s' = y
  /\ UNCHANGED <<cfg, sess, pushed, health, resync, trigger, rows, crossed>>

\* CTP changes its trading day while the link is down.
OnFrontConnected ==
  /\ ~s.up
  /\ ctpDay' \in {ctpDay, ctpDay + 1} /\ ctpDay' <= MaxDay
  /\ Callback("conn", TRUE, [s EXCEPT !.up = TRUE])
OnFrontDisconnected ==
  s.up /\ UNCHANGED ctpDay /\ Callback("disc", TRUE, [s EXCEPT !.up = FALSE, !.asked = {}])
OnRsp == \E r \in s.asked, ok \in BOOLEAN :
           UNCHANGED ctpDay /\ Callback(r, ok, [s EXCEPT !.asked = @ \ {r}])

Init ==
  /\ cfg = "enabled" /\ sess = FALSE /\ s = NewSession /\ evq = <<>>
  /\ pushed = "Offline" /\ health = "Down" /\ resync = TRUE /\ trigger = FALSE
  /\ ctpDay = 0 /\ day = 0 /\ posRow = FALSE /\ accRow = FALSE /\ crossed = FALSE

Next ==
  \/ process_event \/ (\E t \in Timers : SessionTimer(t)) \/ on_data_resync_timer
  \/ connect_account_by_id \/ disconnect_account_by_id
  \/ report_full_snapshot \/ apply_config_change
  \/ OnFrontConnected \/ OnFrontDisconnected \/ OnRsp

\* The main loop serves its queue and its timers.  CTP lifts its flow control
\* (-3) in the end, so of the retries every 1.5 s one gets through; nothing is
\* assumed of its answers.
Fairness ==
  /\ WF_vars(process_event)
  /\ \A t \in Timers : WF_vars(SessionTimer(t))
  /\ \A t \in Retries :
       SF_vars(SessionTimer(t) /\ t \notin s'.timers)

Spec == Init /\ [][Next]_vars /\ Fairness

-----------------------------------------------------------------------------
Sessions ==
  [st : TdStates, wasAuth : BOOLEAN, phase : Phases, posOk : BOOLEAN, accOk : BOOLEAN,
   dataOk : BOOLEAN, inFlight : BOOLEAN, baseline : BOOLEAN, genOk : BOOLEAN,
   timers : SUBSET Timers, asked : SUBSET Requests, up : BOOLEAN, reasked : BOOLEAN]

TypeOK ==
  /\ cfg \in {"enabled", "disabled", "removed"} /\ sess \in BOOLEAN
  /\ s \in Sessions
  /\ evq \in Seq(Events) /\ Len(evq) <= MaxQueue
  /\ pushed \in {"Offline", "LoggingIn", "Ready"} /\ health \in {"Up", "Down"}
  /\ resync \in BOOLEAN /\ trigger \in BOOLEAN
  /\ ctpDay \in 0..MaxDay /\ day \in 0..MaxDay
  /\ posRow \in BOOLEAN /\ accRow \in BOOLEAN /\ crossed \in BOOLEAN

\* No consumer takes the account for Ready when it is not: write_account_status
\* has been called on every way out of Ready (td_api.cpp, the callers of
\* write_account_status).
ReadyIsReady == pushed = "Ready" => sess /\ s.st = "Ready"

\* The account row of a day is never in the database without the positions of
\* that day: the readers' anchor day would show an empty book that is not
\* empty (guard in on_rsp_qry_trading_account).
AccountRowNeedsPositions == accRow => posRow

\* A session whose data counts as complete has its positions, and a login
\* whose queries are still to be done has them still ahead of it: no finished
\* chain of an earlier login is taken for this one's.
ChainIsThisLogins ==
  /\ s.dataOk => s.baseline /\ posRow
  /\ s.st = "LoadingInstruments" => s.phase \in {"QueryPosition", "QueryAccount"} /\ ~s.dataOk

\* td_account_session.cpp: the session's flags have their types and belong to the
\* login they were set in, and the database's account row follows its positions,
\* unless a handler called CTP on a link whose OnFrontConnected was still queued.
StructureOK == TypeOK /\ (~crossed => ChainIsThisLogins /\ AccountRowNeedsPositions)

\* The login cannot hang while it loads: every wait of the query chain has a
\* timer or a retry behind it.
LoadingEnds == (s.st = "LoadingInstruments") ~> (s.st # "LoadingInstruments")

=============================================================================
