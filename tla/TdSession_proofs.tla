-------------------------- MODULE TdSession_proofs --------------------------
(***************************************************************************)
(* The login of a trading account for every number of callbacks that wait  *)
(* in the event queue, with or without authentication.                     *)
(*                                                                         *)
(* What the run's invariants lack to be inductive: that the answers in the *)
(* queue come before the news of the link (LinksLast), that a session      *)
(* hears of the end of its link before it hears of another (OnLink), that  *)
(* one step of the login at a time is asked, answered or to be asked again *)
(* (OneToken), that the query chain begins only after the last of them     *)
(* (ChainAfterLogin), and what posOk stands for (DataInv).  All of it      *)
(* holds until a handler calls CTP on a link whose OnFrontConnected is     *)
(* still queued (crossed); that ReadyIsReady holds needs none of it.       *)
(***************************************************************************)
EXTENDS TdSession, TLAPS

\* The steps of a login, each asked when the one before it is answered.
Toks == {"auth", "login", "settle", "inst"}
Link == {"conn", "disc"}
InLogin == {"LoggedIn", "Confirming", "LoadingInstruments", "Ready"}

\* What a step of the query chain may do to a session.
Chained(x, y) ==
  /\ y \in Sessions /\ y.up = x.up
  /\ y.asked \cap Toks \subseteq x.asked
  /\ y.asked \subseteq x.asked \/ x.asked # {} \/ x.up
  /\ "instRetry" \in y.timers => "instRetry" \in x.timers
  /\ y.posOk => x.posOk
  /\ y.dataOk => x.dataOk
  /\ y.baseline = x.baseline
  /\ y.st = x.st \/ (x.st = "LoadingInstruments" /\ y.st = "Ready")
  /\ x.phase # "Done" /\ y.phase = "Done" => y.st # "LoadingInstruments"

\* Two steps of the chain are one.
LEMMA ChainedTwice ==
  ASSUME NEW x \in Sessions, NEW y, NEW z, Chained(x, y), Chained(y, z)
  PROVE  Chained(x, z)
BY DEF Chained

\* finalize_login: the chain is done, Ready if the instruments are loaded, complete if
\* both queries were answered well.
LEMMA FinalizeLogin ==
  ASSUME NEW x \in Sessions
  PROVE  LET y == finalize_login(x) IN
         /\ y \in Sessions /\ y.up = x.up /\ y.asked = x.asked
         /\ "instRetry" \in y.timers => "instRetry" \in x.timers
         /\ y.posOk = x.posOk /\ y.dataOk = (x.posOk /\ x.accOk) /\ y.baseline = x.baseline
         /\ y.st = (IF x.st = "LoadingInstruments" THEN "Ready" ELSE x.st)
         /\ y.phase = "Done"
BY DEF Sessions, finalize_login, Arm, on_instruments_loaded, Move, TdStates, Phases, Timers

\* on_account_done(false).
LEMMA AccountFailed ==
  ASSUME NEW x \in Sessions
  PROVE  Chained(x, account_failed(x))
<1>. DEFINE u == [x EXCEPT !.accOk = FALSE]
<1>1. u \in Sessions /\ u.up = x.up /\ u.asked = x.asked /\ u.timers = x.timers
      /\ u.posOk = x.posOk /\ u.accOk = FALSE /\ u.baseline = x.baseline /\ u.st = x.st
  BY DEF Sessions
<1>2. account_failed(x) = finalize_login(u)
  BY DEF account_failed
<1>. HIDE DEF u
<1>. DEFINE y == finalize_login(u)
<1>3. /\ y \in Sessions /\ y.up = u.up /\ y.asked = u.asked
      /\ "instRetry" \in y.timers => "instRetry" \in u.timers
      /\ y.posOk = u.posOk /\ y.dataOk = FALSE /\ y.baseline = u.baseline
      /\ y.st = (IF u.st = "LoadingInstruments" THEN "Ready" ELSE u.st)
      /\ y.phase = "Done"
  BY <1>1, FinalizeLogin
<1>. HIDE DEF y
<1>4. Chained(x, y)
  BY <1>1, <1>3 DEF Chained
<1>. QED
  BY <1>2, <1>4 DEF y

\* req_qry_trading_account.
LEMMA AccountQuery ==
  ASSUME NEW x \in Sessions, NEW y \in req_qry_trading_account(x)
  PROVE  Chained(x, y)
<1>. DEFINE q == [x EXCEPT !.genOk = TRUE]
            r == IF "acc" \in x.timers THEN Arm(q, "accOld") ELSE q
<1>1. q \in Sessions /\ Chained(x, q) /\ q.up = x.up
  BY DEF Sessions, Chained
<1>2. y = account_failed(q) \/ (x.up /\ (y = Arm(q, "accRetry") \/ y = Arm(Ask(r, "acc"), "acc")))
  BY DEF req_qry_trading_account
<1>. HIDE DEF q
<1>3. CASE y = account_failed(q)
  BY <1>1, <1>3, AccountFailed, ChainedTwice
<1>4. CASE x.up /\ y = Arm(q, "accRetry")
  <2>1. Chained(q, y)
    BY <1>1, <1>4 DEF Sessions, Chained, Arm, Timers
  <2>. QED BY <1>1, <2>1, ChainedTwice
<1>5. CASE x.up /\ y = Arm(Ask(r, "acc"), "acc")
  <2>1. r \in Sessions /\ Chained(q, r) /\ r.up
    BY <1>1, <1>5 DEF Sessions, Chained, Arm, Timers
  <2>. HIDE DEF r
  <2>2. Chained(r, y)
    BY <2>1, <1>5 DEF Sessions, Chained, Arm, Ask, Timers, Toks, Requests
  <2>. QED BY <1>1, <2>1, <2>2, ChainedTwice
<1>. QED BY <1>2, <1>3, <1>4, <1>5

\* on_position_done(false).
LEMMA PositionFailed ==
  ASSUME NEW x \in Sessions, NEW y \in position_failed(x)
  PROVE  Chained(x, y)
<1>. DEFINE u == [x EXCEPT !.phase = "QueryAccount", !.posOk = FALSE]
<1>1. u \in Sessions /\ Chained(x, u)
  BY DEF Sessions, Chained, Phases
<1>2. y \in req_qry_trading_account(u)
  BY DEF position_failed
<1>. HIDE DEF u
<1>. QED BY <1>1, <1>2, AccountQuery, ChainedTwice

\* req_qry_investor_position, of the login chain or of the poll.
LEMMA PositionQuery ==
  ASSUME NEW x \in Sessions, NEW lc \in BOOLEAN, NEW y \in req_qry_investor_position(x, lc)
  PROVE  Chained(x, y)
<1>. DEFINE q == NewPositionQuery(x)
            f == [q EXCEPT !.inFlight = FALSE]
<1>1. q \in Sessions /\ Chained(x, q) /\ q.up = x.up
  BY DEF Sessions, Chained, NewPositionQuery, Toks, Requests, Timers
<1>2. \/ y \in position_failed(f) \/ y = f
      \/ x.up /\ y \in {Arm(f, "posRetry"), Arm(Ask(q, "pos"), "pos"), Arm(Ask(q, "pos"), "poll_pos")}
  BY DEF req_qry_investor_position
<1>. HIDE DEF q
<1>3. f \in Sessions /\ Chained(q, f) /\ f.up = q.up
  BY <1>1 DEF Sessions, Chained
<1>. HIDE DEF f
<1>4. Chained(x, f)
  BY <1>1, <1>3, ChainedTwice
<1>5. CASE y \in position_failed(f)
  BY <1>3, <1>4, <1>5, PositionFailed, ChainedTwice
<1>6. CASE x.up /\ y = Arm(f, "posRetry")
  <2>1. Chained(f, y)
    BY <1>3, <1>6 DEF Sessions, Chained, Arm, Timers
  <2>. QED BY <1>3, <1>4, <2>1, ChainedTwice
<1>7. ASSUME NEW t \in {"pos", "poll_pos"}, x.up, y = Arm(Ask(q, "pos"), t)
      PROVE  Chained(x, y)
  <2>1. Chained(q, y)
    BY <1>1, <1>7 DEF Sessions, Chained, Arm, Ask, Timers, Toks, Requests
  <2>. QED BY <1>1, <2>1, ChainedTwice
<1>. QED BY <1>2, <1>4, <1>5, <1>6, <1>7

-----------------------------------------------------------------------------
\* The session is on a link it has asked something on.
Reached(x) == x.st \in {"Authenticating", "Authenticated", "LoggingIn"} \cup InLogin

Core(x, y) ==
  /\ y.phase = x.phase /\ y.inFlight = x.inFlight /\ y.posOk = x.posOk
  /\ y.dataOk = x.dataOk /\ y.baseline = x.baseline /\ y.up = x.up
  /\ "posRetry" \in y.timers => "posRetry" \in x.timers

\* A step of the login: it asks for the next one at most.
Advanced(x, y) ==
  /\ y \in Sessions /\ Core(x, y)
  /\ y.asked = x.asked \/ (x.up /\ \E r \in Toks : y.asked = x.asked \cup {r})
  /\ "instRetry" \in y.timers => "instRetry" \in x.timers \/ (x.up /\ y.asked = x.asked)
  /\ y.st = "Ready" => x.st = "Ready"
  /\ Reached(y) => Reached(x) \/ (x.up /\ y.asked \cap Toks # {})

\* A step that asks for nothing: a late answer, a timeout.
Idled(x, y) ==
  /\ y \in Sessions /\ Core(x, y) /\ y.asked = x.asked
  /\ "instRetry" \in y.timers => "instRetry" \in x.timers
  /\ x.st \in InLogin => y.st \in InLogin
  /\ (y.st = "Ready") <=> (x.st = "Ready")
  /\ y.st = "LoadingInstruments" => x.st = "LoadingInstruments"
  /\ Reached(y) => Reached(x)

\* Doing nothing is such a step.
LEMMA IdledSelf == ASSUME NEW x \in Sessions PROVE Idled(x, x)
BY DEF Idled, Core

\* on_front_connected asks for the first step of the login.
LEMMA FrontConnected ==
  ASSUME NEW x \in Sessions, NEW y \in on_front_connected(x)
  PROVE  Advanced(x, y)
<1>. DEFINE c == on_front_connected_sm(Cancel(x, {"connect"}))
<1>1. c \in Sessions /\ Core(x, c) /\ c.asked = x.asked /\ c.timers = x.timers \ {"connect"}
      /\ (c.st = x.st \/ c.st = "Connected")
  BY DEF Sessions, Core, on_front_connected_sm, Move, Cancel, TdStates
<1>2. \/ y = c
      \/ c.up /\ y = Arm(on_req_authenticate(Ask(c, "auth")), "auth")
      \/ c.up /\ y = Arm(on_req_login(Ask(c, "login")), "login")
  BY UseAuthAssumption DEF on_front_connected, FirstRequest, req_authenticate, req_login
<1>. HIDE DEF c
<1>3. CASE y = c
  BY <1>1, <1>3 DEF Advanced, Reached, InLogin
<1>4. CASE c.up /\ y = Arm(on_req_authenticate(Ask(c, "auth")), "auth")
  <2>1. y \in Sessions /\ Core(c, y) /\ y.asked = c.asked \cup {"auth"} /\ y.timers = c.timers \cup {"auth"}
        /\ (y.st = c.st \/ y.st = "Authenticating")
    BY <1>1, <1>4 DEF Sessions, Core, Arm, Ask, on_req_authenticate, Move, TdStates, Timers, Requests
  <2>. QED BY <1>1, <1>4, <2>1 DEF Advanced, Reached, InLogin, Toks, Core
<1>5. CASE c.up /\ y = Arm(on_req_login(Ask(c, "login")), "login")
  <2>1. y \in Sessions /\ Core(c, y) /\ y.asked = c.asked \cup {"login"} /\ y.timers = c.timers \cup {"login"}
        /\ (y.st = c.st \/ y.st = "LoggingIn")
    BY <1>1, <1>5, ZenonT(60) DEF Sessions, Core, Arm, Ask, on_req_login, Move, TdStates, Timers, Requests
  <2>. QED BY <1>1, <1>5, <2>1 DEF Advanced, Reached, InLogin, Toks, Core
<1>. QED BY <1>2, <1>3, <1>4, <1>5

\* on_rsp_authenticate.
LEMMA RspAuthenticate ==
  ASSUME NEW x \in Sessions, NEW ok \in BOOLEAN, NEW y \in on_rsp_authenticate(x, ok)
  PROVE  Advanced(x, y)
<1>. DEFINE c == Cancel(x, {"auth", "login"})
            d == on_authenticate_success(c)
<1>1. c \in Sessions /\ Core(x, c) /\ c.asked = x.asked /\ c.timers \subseteq x.timers /\ c.st = x.st
  BY DEF Sessions, Core, Cancel
<1>2. y = on_authenticate_failed(c) \/ y = d \/ (d.up /\ y = Arm(on_req_login(Ask(d, "login")), "login"))
  BY DEF on_rsp_authenticate, req_login
<1>. HIDE DEF c
<1>3. d \in Sessions /\ Core(x, d) /\ d.asked = x.asked /\ d.timers = c.timers
      /\ (d.st = x.st \/ (x.st = "Authenticating" /\ d.st = "Authenticated"))
  <2>1. CASE c.st # "Authenticating"
    <3>1. d = c
      BY <2>1 DEF on_authenticate_success
    <3>. QED BY <1>1, <3>1
  <2>2. CASE c.st = "Authenticating"
    <3>1. d = [c EXCEPT !.st = "Authenticated", !.wasAuth = TRUE]
      BY <2>2 DEF on_authenticate_success
    <3>. HIDE DEF d
    <3>. QED BY <1>1, <2>2, <3>1 DEF Sessions, Core, TdStates
  <2>. QED BY <2>1, <2>2
<1>. HIDE DEF d
<1>4. CASE y = on_authenticate_failed(c)
  <2>1. y \in Sessions /\ Core(c, y) /\ y.asked = c.asked /\ y.timers = c.timers
        /\ (y.st = c.st \/ y.st = "Connected")
    BY <1>1, <1>4 DEF Sessions, Core, on_authenticate_failed, Move, TdStates
  <2>. QED BY <1>1, <2>1 DEF Advanced, Reached, InLogin, Core
<1>5. CASE y = d
  BY <1>1, <1>3, <1>5 DEF Advanced, Reached, InLogin
<1>6. CASE d.up /\ y = Arm(on_req_login(Ask(d, "login")), "login")
  <2>1. y \in Sessions /\ Core(d, y) /\ y.asked = d.asked \cup {"login"} /\ y.timers = d.timers \cup {"login"}
        /\ (y.st = d.st \/ y.st = "LoggingIn")
    BY <1>3, <1>6, ZenonT(60) DEF Sessions, Core, Arm, Ask, on_req_login, Move, TdStates, Timers, Requests
  <2>. QED BY <1>1, <1>3, <1>6, <2>1 DEF Advanced, Reached, InLogin, Toks, Core
<1>. QED BY <1>2, <1>4, <1>5, <1>6

\* on_rsp_user_login.
LEMMA RspUserLogin ==
  ASSUME NEW x \in Sessions, NEW ok \in BOOLEAN, NEW y \in on_rsp_user_login(x, ok)
  PROVE  Advanced(x, y)
<1>. DEFINE c == Cancel(x, {"auth", "login"})
            d == on_login_success(c)
<1>1. c \in Sessions /\ Core(x, c) /\ c.asked = x.asked /\ c.timers \subseteq x.timers /\ c.st = x.st
  BY DEF Sessions, Core, Cancel
<1>2. y = on_login_failed(c) \/ y = d \/ (d.up /\ y = on_req_settlement_confirm(Ask(d, "settle")))
  BY DEF on_rsp_user_login, req_settlement_confirm
<1>. HIDE DEF c
<1>3. d \in Sessions /\ Core(x, d) /\ d.asked = x.asked /\ d.timers = c.timers
      /\ (d.st = x.st \/ (x.st = "LoggingIn" /\ d.st = "LoggedIn"))
  BY <1>1 DEF Sessions, Core, on_login_success, Move, TdStates
<1>. HIDE DEF d
<1>4. CASE y = on_login_failed(c)
  <2>1. y \in Sessions /\ Core(c, y) /\ y.asked = c.asked /\ y.timers = c.timers
        /\ (y.st = c.st \/ (c.st = "LoggingIn" /\ y.st \in {"Connected", "Authenticated"}))
    BY <1>1, <1>4 DEF Sessions, Core, on_login_failed, Move, TdStates
  <2>. QED BY <1>1, <2>1 DEF Advanced, Reached, InLogin, Core
<1>5. CASE y = d
  BY <1>1, <1>3, <1>5 DEF Advanced, Reached, InLogin
<1>6. CASE d.up /\ y = on_req_settlement_confirm(Ask(d, "settle"))
  <2>1. y \in Sessions /\ Core(d, y) /\ y.asked = d.asked \cup {"settle"} /\ y.timers = d.timers
        /\ (y.st = d.st \/ (d.st = "LoggedIn" /\ y.st = "Confirming"))
    BY <1>3, <1>6 DEF Sessions, Core, Ask, on_req_settlement_confirm, Move, TdStates, Requests
  <2>. QED BY <1>1, <1>3, <1>6, <2>1 DEF Advanced, Reached, InLogin, Toks, Core
<1>. QED BY <1>2, <1>4, <1>5, <1>6

\* req_qry_instrument.
LEMMA InstrumentQuery ==
  ASSUME NEW x \in Sessions, NEW y \in req_qry_instrument(x)
  PROVE  Advanced(x, y)
<1>. DEFINE q == [x EXCEPT !.genOk = TRUE]
<1>1. q \in Sessions /\ Core(x, q) /\ q.asked = x.asked /\ q.timers = x.timers /\ q.st = x.st
  BY DEF Sessions, Core
<1>2. y = on_instruments_load_failed(q)
      \/ (x.up /\ (y = Arm(q, "instRetry") \/ y = Arm(Cancel(Ask(q, "inst"), {"inst"}), "inst")))
  BY DEF req_qry_instrument
<1>. HIDE DEF q
<1>3. CASE y = on_instruments_load_failed(q)
  <2>1. y \in Sessions /\ Core(q, y) /\ y.asked = q.asked /\ y.timers = q.timers
        /\ (y.st = q.st \/ (q.st = "LoadingInstruments" /\ y.st = "LoggedIn"))
    BY <1>1, <1>3 DEF Sessions, Core, on_instruments_load_failed, Move, TdStates
  <2>. QED BY <1>1, <2>1 DEF Advanced, Reached, InLogin, Core
<1>4. CASE x.up /\ y = Arm(q, "instRetry")
  <2>1. y \in Sessions /\ Core(q, y) /\ y.asked = q.asked /\ y.st = q.st
    BY <1>1, <1>4 DEF Sessions, Core, Arm, Timers
  <2>. QED BY <1>1, <1>4, <2>1 DEF Advanced, Reached, InLogin, Core
<1>5. CASE x.up /\ y = Arm(Cancel(Ask(q, "inst"), {"inst"}), "inst")
  <2>1. y \in Sessions /\ Core(q, y) /\ y.asked = q.asked \cup {"inst"} /\ y.st = q.st
        /\ y.timers = q.timers \cup {"inst"}
    BY <1>1, <1>5 DEF Sessions, Core, Arm, Ask, Cancel, Timers, Requests
  <2>. QED BY <1>1, <1>5, <2>1 DEF Advanced, Reached, InLogin, Core, Toks
<1>. QED BY <1>2, <1>3, <1>4, <1>5

\* on_rsp_settlement_confirm.
LEMMA RspSettlementConfirm ==
  ASSUME NEW x \in Sessions, NEW ok \in BOOLEAN, NEW y \in on_rsp_settlement_confirm(x, ok)
  PROVE  Advanced(x, y)
<1>. DEFINE c == on_settlement_confirmed(x)
<1>1. c \in Sessions /\ Core(x, c) /\ c.asked = x.asked /\ c.timers = x.timers
      /\ (c.st = x.st \/ (x.st = "Confirming" /\ c.st = "LoadingInstruments"))
  BY DEF Sessions, Core, on_settlement_confirmed, Move, TdStates
<1>2. y = on_settlement_confirm_failed(x) \/ y \in req_qry_instrument(c)
  BY DEF on_rsp_settlement_confirm
<1>. HIDE DEF c
<1>3. CASE y = on_settlement_confirm_failed(x)
  <2>1. y \in Sessions /\ Core(x, y) /\ y.asked = x.asked /\ y.timers = x.timers
        /\ (y.st = x.st \/ (x.st = "Confirming" /\ y.st = "LoggedIn"))
    BY <1>3 DEF Sessions, Core, on_settlement_confirm_failed, Move, TdStates
  <2>. QED BY <2>1 DEF Advanced, Reached, InLogin, Core
<1>4. CASE y \in req_qry_instrument(c)
  <2>1. Advanced(c, y)
    BY <1>1, <1>4, InstrumentQuery
  <2>. QED BY <1>1, <2>1 DEF Advanced, Reached, InLogin, Core
<1>. QED BY <1>2, <1>3, <1>4

-----------------------------------------------------------------------------
\* A step of the query chain, which runs in a session that has logged in.
Ran(x, y) ==
  /\ x.st \in InLogin /\ y.st \in InLogin
  /\ y \in Sessions /\ y.up = x.up
  /\ y.asked \cap Toks \subseteq x.asked
  /\ y.asked \subseteq x.asked \/ x.asked # {} \/ x.up
  /\ "instRetry" \in y.timers => "instRetry" \in x.timers
  /\ y.st = "LoadingInstruments" =>
       /\ x.st = "LoadingInstruments"
       /\ y.phase = "Done" => x.phase = "Done"
       /\ y.dataOk => x.dataOk

\* ... that takes no good answer for a position query ...
KeepsData(x, y) ==
  /\ y.posOk => x.posOk /\ y.baseline = x.baseline
  /\ y.dataOk => (x.dataOk \/ x.posOk) /\ y.baseline = x.baseline

\* A step of the chain, in a session that has logged in.
LEMMA ChainedRan ==
  ASSUME NEW x \in Sessions, NEW y, Chained(x, y), x.st \in InLogin
  PROVE  Ran(x, y) /\ KeepsData(x, y)
BY DEF Chained, Ran, KeepsData, InLogin

\* on_rsp_qry_instrument starts the chain with no position query done.
LEMMA RspQryInstrument ==
  ASSUME NEW x \in Sessions, NEW ok \in BOOLEAN, NEW y \in on_rsp_qry_instrument(x, ok)
  PROVE  /\ y \in Sessions
         /\ \/ Idled(x, y)
            \/ Ran(x, y) /\ ~y.posOk /\ (y.dataOk => x.dataOk)
<1>. DEFINE c == Cancel(x, {"inst"})
            d == [c EXCEPT !.baseline = FALSE, !.phase = "QueryPosition",
                           !.posOk = FALSE, !.accOk = FALSE]
<1>1. c \in Sessions /\ Core(x, c) /\ c.asked = x.asked /\ c.timers = x.timers \ {"inst"} /\ c.st = x.st
  BY DEF Sessions, Core, Cancel
<1>2. \/ y = x
      \/ x.st = "LoadingInstruments" /\ y \in req_qry_investor_position(d, TRUE)
      \/ y = on_instruments_load_failed(c)
  BY DEF on_rsp_qry_instrument
<1>. HIDE DEF c
<1>3. d \in Sessions /\ d.asked = x.asked /\ d.timers = c.timers /\ d.st = x.st /\ d.up = x.up
      /\ d.phase = "QueryPosition" /\ ~d.posOk /\ d.dataOk = x.dataOk
  BY <1>1 DEF Sessions, Core, Phases
<1>. HIDE DEF d
<1>4. CASE x.st = "LoadingInstruments" /\ y \in req_qry_investor_position(d, TRUE)
  <2>1. Chained(d, y)
    BY <1>3, <1>4, PositionQuery
  <2>2. Ran(d, y) /\ ~y.posOk /\ (y.dataOk => x.dataOk)
    BY <1>3, <1>4, <2>1, ChainedRan DEF Chained, InLogin
  <2>. QED BY <1>1, <1>3, <2>2 DEF Ran
<1>5. CASE y = on_instruments_load_failed(c)
  <2>1. y \in Sessions /\ Core(c, y) /\ y.asked = c.asked /\ y.timers = c.timers
        /\ (y.st = c.st \/ (c.st = "LoadingInstruments" /\ y.st = "LoggedIn"))
    BY <1>1, <1>5 DEF Sessions, Core, on_instruments_load_failed, Move, TdStates
  <2>. QED BY <1>1, <2>1 DEF Idled, Reached, InLogin, Core
<1>6. \/ Idled(x, y)
      \/ Ran(x, y) /\ ~y.posOk /\ (y.dataOk => x.dataOk)
  BY <1>2, <1>4, <1>5, IdledSelf
<1>. QED BY <1>6 DEF Idled, Ran

\* on_rsp_qry_investor_position: posOk stands for a good answer.
LEMMA RspQryInvestorPosition ==
  ASSUME NEW x \in Sessions, NEW ok \in BOOLEAN, NEW y \in on_rsp_qry_investor_position(x, ok)
  PROVE  /\ y \in Sessions
         /\ x.st \in InLogin => Ran(x, y)
         /\ y.posOk => (y.baseline /\ ok) \/ (y.baseline = x.baseline /\ x.posOk)
         /\ y.dataOk => x.dataOk
         /\ x.baseline => y.baseline
<1>. DEFINE c == [x EXCEPT !.inFlight = FALSE, !.posOk = ok, !.baseline = @ \/ ok]
            d == [c EXCEPT !.phase = "QueryAccount"]
<1>1. c \in Sessions /\ c.asked = x.asked /\ c.timers = x.timers /\ c.st = x.st /\ c.up = x.up
      /\ c.phase = x.phase /\ c.dataOk = x.dataOk /\ c.posOk = ok /\ c.baseline = (x.baseline \/ ok)
  BY DEF Sessions
<1>2. \/ (y = x /\ ~x.genOk) \/ y = c
      \/ y \in req_qry_trading_account(d)
  BY DEF on_rsp_qry_investor_position
<1>. HIDE DEF c
<1>3. d \in Sessions /\ d.asked = x.asked /\ d.timers = x.timers /\ d.st = x.st /\ d.up = x.up
      /\ d.phase = "QueryAccount" /\ d.posOk = ok /\ d.dataOk = x.dataOk /\ d.baseline = (x.baseline \/ ok)
  BY <1>1 DEF Sessions, Phases
<1>. HIDE DEF d
<1>4. CASE y \in req_qry_trading_account(d)
  <2>1. Chained(d, y)
    BY <1>3, <1>4, AccountQuery
  <2>2. y \in Sessions /\ (y.posOk => ok) /\ (y.dataOk => x.dataOk) /\ y.baseline = d.baseline
    BY <1>3, <2>1 DEF Chained
  <2>3. x.st \in InLogin => Ran(x, y)
    <3>1. x.st \in InLogin => Ran(d, y)
      BY <1>3, <2>1, ChainedRan
    <3>. QED BY <1>3, <3>1 DEF Ran
  <2>. QED BY <1>3, <2>2, <2>3
<1>5. CASE y = c
  BY <1>1, <1>5 DEF Ran, InLogin
<1>6. CASE y = x
  BY <1>6 DEF Ran
<1>. QED BY <1>2, <1>4, <1>5, <1>6

\* on_rsp_qry_trading_account ends the chain that waits for it.
LEMMA RspQryTradingAccount ==
  ASSUME NEW x \in Sessions, NEW ok \in BOOLEAN, NEW y \in on_rsp_qry_trading_account(x, ok)
  PROVE  /\ y \in Sessions
         /\ \/ Idled(x, y)
            \/ x.phase = "QueryAccount" /\ (x.st \in InLogin => Ran(x, y) /\ KeepsData(x, y))
<1>. DEFINE c == [x EXCEPT !.accOk = ok]
<1>1. c \in Sessions /\ Core(x, c) /\ c.asked = x.asked /\ c.timers = x.timers /\ c.st = x.st
  BY DEF Sessions, Core
<1>2. y = x \/ y = c \/ (x.phase = "QueryAccount" /\ y = finalize_login(c))
  BY DEF on_rsp_qry_trading_account
<1>. HIDE DEF c
<1>3. CASE y = c
  <2>1. Idled(x, y)
    BY <1>1, <1>3 DEF Idled, Reached
  <2>. QED BY <2>1 DEF Idled
<1>4. CASE x.phase = "QueryAccount" /\ y = finalize_login(c)
  <2>1. /\ y \in Sessions /\ y.up = c.up /\ y.asked = c.asked
        /\ "instRetry" \in y.timers => "instRetry" \in c.timers
        /\ y.posOk = c.posOk /\ y.dataOk = (c.posOk /\ c.accOk) /\ y.baseline = c.baseline
        /\ y.st = (IF c.st = "LoadingInstruments" THEN "Ready" ELSE c.st)
    BY <1>1, <1>4, FinalizeLogin
  <2>. QED BY <1>1, <1>4, <2>1 DEF Ran, KeepsData, Core, InLogin
<1>5. CASE y = x
  BY <1>5, IdledSelf
<1>. QED BY <1>2, <1>3, <1>4, <1>5 DEF Idled

\* resync_account_data starts the chain of a Ready session again.
LEMMA ResyncAccountData ==
  ASSUME NEW x \in Sessions, NEW y \in resync_account_data(x)
  PROVE  y = x \/ (x.st = "Ready" /\ y.st = "Ready" /\ Ran(x, y) /\ KeepsData(x, y))
<1>. DEFINE c == [x EXCEPT !.posOk = FALSE, !.accOk = FALSE, !.phase = "QueryPosition"]
<1>1. c \in Sessions /\ Chained(x, c) /\ c.st = x.st
  BY DEF Sessions, Chained, Phases
<1>2. y = x \/ (x.st = "Ready" /\ y \in req_qry_investor_position(c, TRUE))
  BY DEF resync_account_data
<1>. HIDE DEF c
<1>3. CASE x.st = "Ready" /\ y \in req_qry_investor_position(c, TRUE)
  <2>1. Chained(c, y)
    BY <1>1, <1>3, PositionQuery
  <2>2. Chained(x, y) /\ x.st \in InLogin
    BY <1>1, <1>3, <2>1, ChainedTwice DEF InLogin
  <2>3. y.st = "Ready"
    BY <1>3, <2>2 DEF Chained
  <2>. QED BY <1>3, <2>2, <2>3, ChainedRan
<1>. QED BY <1>2, <1>3

\* What a session timer does.
LEMMA TimerFires ==
  ASSUME NEW x \in Sessions, NEW t \in Timers, NEW y \in Fired(x, t)
  PROVE  \/ Idled(x, y)
         \/ t = "instRetry" /\ x.st = "LoadingInstruments" /\ Advanced(x, y)
         \/ Chained(x, y) /\ (t = "posRetry" \/ x.phase = "QueryAccount" \/ x.inFlight \/ x.st = "Ready")
<1>1. CASE t \in {"connect", "auth", "login", "inst"}
  <2>1. \/ y = Move(x, {"Connecting"}, "Idle")
        \/ y = Move(x, {"Authenticating"}, "Connected")
        \/ y = Move(x, {"LoggingIn"}, "Authenticated")
        \/ y = Move(x, {"LoggingIn"}, "Connected")
        \/ y = Move(x, {"LoadingInstruments"}, "LoggedIn")
    BY <1>1 DEF Fired, on_connect_timeout, on_authenticate_failed, on_login_failed, on_instruments_load_failed
  <2>2. \A f, g \in TdStates : LET z == Move(x, {f}, g) IN
          /\ z \in Sessions /\ Core(x, z) /\ z.asked = x.asked /\ z.timers = x.timers
          /\ z.st = x.st \/ (x.st = f /\ z.st = g)
    BY DEF Sessions, Core, Move
  <2>3. y \in Sessions /\ Core(x, y) /\ y.asked = x.asked /\ y.timers = x.timers
        /\ \/ y.st = x.st
           \/ x.st = "Connecting" /\ y.st = "Idle"
           \/ x.st = "Authenticating" /\ y.st = "Connected"
           \/ x.st = "LoggingIn" /\ y.st \in {"Authenticated", "Connected"}
           \/ x.st = "LoadingInstruments" /\ y.st = "LoggedIn"
    BY <2>1, <2>2, SMTT(60) DEF TdStates
  <2>. QED BY <2>3 DEF Idled, Reached, InLogin
<1>2. CASE t = "instRetry"
  <2>1. y = x \/ (x.st = "LoadingInstruments" /\ y \in req_qry_instrument(x))
    BY <1>2 DEF Fired
  <2>. QED BY <1>2, <2>1, InstrumentQuery, IdledSelf
<1>3. CASE t \in {"pos", "poll_pos"}
  <2>. DEFINE c == [x EXCEPT !.inFlight = FALSE]
  <2>1. c \in Sessions /\ Chained(x, c)
    BY DEF Sessions, Chained
  <2>2. y = x \/ (x.inFlight /\ (y = c \/ y \in position_failed(c)))
    BY <1>3 DEF Fired, position_timeout
  <2>. HIDE DEF c
  <2>. QED BY <2>1, <2>2, PositionFailed, ChainedTwice, IdledSelf
<1>4. CASE t = "posRetry"
  <2>1. y = x \/ y \in req_qry_investor_position(x, TRUE)
    BY <1>4 DEF Fired
  <2>. QED BY <1>4, <2>1, PositionQuery, IdledSelf
<1>5. CASE t \in {"acc", "accOld"}
  <2>1. y = x \/ (x.phase = "QueryAccount" /\ y = account_failed(x))
    BY <1>5 DEF Fired, account_timeout
  <2>. QED BY <2>1, AccountFailed, IdledSelf
<1>6. CASE t = "accRetry"
  <2>1. y = x \/ (x.phase = "QueryAccount" /\ y \in req_qry_trading_account(x))
    BY <1>6 DEF Fired
  <2>. QED BY <2>1, AccountQuery, IdledSelf
<1>7. CASE t = "poll"
  <2>1. y = x \/ (x.st = "Ready" /\ \E c : (c = x \/ c \in req_qry_investor_position(x, FALSE)) /\ y = Arm(c, "poll"))
    BY <1>7 DEF Fired, on_position_poll_timer
  <2>2. ASSUME NEW c, c = x \/ c \in req_qry_investor_position(x, FALSE), y = Arm(c, "poll")
        PROVE  Chained(x, y)
    <3>1. Chained(x, x)
      BY DEF Chained
    <3>2. Chained(x, c) /\ c \in Sessions
      BY <2>2, <3>1, PositionQuery DEF Chained
    <3>3. Chained(c, y)
      BY <2>2, <3>2 DEF Chained, Arm, Sessions, Timers
    <3>. QED BY <3>2, <3>3, ChainedTwice
  <2>. QED BY <2>1, <2>2, IdledSelf
<1>. QED BY <1>1, <1>2, <1>3, <1>4, <1>5, <1>6, <1>7 DEF Timers

-----------------------------------------------------------------------------
(* The inductive invariant, of a session x, the events q that wait for it,  *)
(* whether it is in sessions_ (in) and what the database has of its day.    *)
Deep(x) == Reached(x) \/ "instRetry" \in x.timers

\* Answers come before news of the link: nothing is asked on a link before its
\* OnFrontConnected is handled, nor answered once it is lost.
LinksLast(x, q) ==
  /\ \A i, j \in 1..Len(q) : i < j /\ q[i].t \in Link => q[j].t \in Link
  /\ x.asked # {} => x.up /\ \A i \in 1..Len(q) : q[i].t \notin Link
  /\ x.up => \A i \in 1..Len(q) : q[i].t = "disc" =>
                \E k \in 1..Len(q) : k > i /\ q[k].t = "conn"

\* A session that has asked on a link hears of its end before it hears of another.
OnLink(x, q) ==
  Deep(x) =>
    /\ x.up \/ \E i \in 1..Len(q) : q[i].t = "disc"
    /\ \A j \in 1..Len(q) : q[j].t = "conn" => \E i \in 1..Len(q) : i < j /\ q[i].t = "disc"

\* One step of the login at a time is asked, answered or to be asked again.
OneToken(x, q) ==
  /\ \A i, j \in 1..Len(q) : q[i].t \in Toks /\ q[j].t \in Toks => i = j
  /\ \A a, b \in x.asked : a \in Toks /\ b \in Toks => a = b
  /\ x.asked \cap Toks # {} => "instRetry" \notin x.timers
  /\ \A i \in 1..Len(q) : q[i].t \in Toks => x.asked \cap Toks = {} /\ "instRetry" \notin x.timers

Logging(x, q) ==
  \/ x.asked \cap Toks # {} \/ "instRetry" \in x.timers
  \/ \E i \in 1..Len(q) : q[i].t \in Toks

\* The query chain has begun.
Moved(x, q, in) ==
  \/ x.phase # "QueryPosition" \/ x.inFlight \/ x.posOk \/ x.dataOk
  \/ "posRetry" \in x.timers \/ "pos" \in x.asked
  \/ in /\ \E i \in 1..Len(q) : q[i].t = "pos"

\* It begins after the last step of the login, in a session that has logged in.
ChainAfterLogin(x, q, in) ==
  /\ Moved(x, q, in) => x.st \in InLogin
  /\ Logging(x, q) => x.st # "Ready" /\ ~Moved(x, q, in)

\* ChainIsThisLogins and AccountRowNeedsPositions, with what posOk stands for.
DataInv(x, pr, ar) ==
  /\ x.posOk => x.baseline /\ pr
  /\ x.dataOk => x.baseline /\ pr
  /\ x.st = "LoadingInstruments" => x.phase # "Done" /\ ~x.dataOk
  /\ ar => pr

LoginInv(x, q, in, pr, ar) ==
  /\ LinksLast(x, q) /\ OnLink(x, q) /\ OneToken(x, q)
  /\ ChainAfterLogin(x, q, in) /\ DataInv(x, pr, ar)

\* What an event of the queue is made of.
LEMMA EventType ==
  ASSUME NEW q \in Seq(Events), NEW i \in 1..Len(q)
  PROVE  q[i] \in Events /\ q[i].t \in Requests \cup Link /\ q[i].ok \in BOOLEAN /\ q[i].day \in 0..MaxDay
<1>1. q[i] \in Events
  OBVIOUS
<1>2. q[i].t \in Requests \cup {"conn", "disc"} /\ q[i].ok \in BOOLEAN /\ q[i].day \in 0..MaxDay
  BY <1>1 DEF Events
<1>. QED BY <1>1, <1>2 DEF Link

\* A step that asks for nothing keeps the invariant.
LEMMA IdleKeeps ==
  ASSUME NEW x \in Sessions, NEW y, NEW q \in Seq(Events), NEW pr, NEW ar,
         LoginInv(x, q, TRUE, pr, ar), Idled(x, y)
  PROVE  LoginInv(y, q, TRUE, pr, ar)
<1>1. LinksLast(y, q)
  BY DEF LoginInv, LinksLast, Idled, Core
<1>2. OnLink(y, q)
  BY DEF LoginInv, OnLink, Deep, Idled, Core
<1>3. OneToken(y, q)
  BY DEF LoginInv, OneToken, Idled
<1>4. ChainAfterLogin(y, q, TRUE)
  BY DEF LoginInv, ChainAfterLogin, Moved, Logging, Idled, Core
<1>5. DataInv(y, pr, ar)
  BY DEF LoginInv, DataInv, Idled, Core
<1>. QED BY <1>1, <1>2, <1>3, <1>4, <1>5 DEF LoginInv

\* A step of the login keeps it, when no other step is pending and the chain has not begun.
LEMMA AdvanceKeeps ==
  ASSUME NEW x \in Sessions, NEW y, NEW q \in Seq(Events), NEW pr, NEW ar,
         LinksLast(x, q), OnLink(x, q), ~Logging(x, q), ~Moved(x, q, TRUE), x.st # "Ready",
         ar => pr, Advanced(x, y), ~(Behind(q) /\ Called(x, y))
  PROVE  LoginInv(y, q, TRUE, pr, ar)
<1>1. ~Moved(y, q, TRUE) /\ y.st # "Ready" /\ y.up = x.up
  BY DEF Moved, Advanced, Core, Toks
<1>2. \/ y.asked = x.asked
      \/ x.up /\ \E r \in Toks : y.asked = x.asked \cup {r} /\ r \notin x.asked
  BY DEF Advanced, Logging
<1>3. ~(y.asked \subseteq x.asked) \/ "instRetry" \in y.timers => x.up /\ \A i \in 1..Len(q) : q[i].t # "conn"
  BY DEF Advanced, Logging, Called, Retries, Behind
<1>4. ~(y.asked \subseteq x.asked) \/ "instRetry" \in y.timers => \A i \in 1..Len(q) : q[i].t \notin Link
  BY <1>3 DEF LinksLast, Link
<1>5. LinksLast(y, q)
  BY <1>1, <1>2, <1>3, <1>4 DEF LinksLast
<1>6. OnLink(y, q)
  <2>1. SUFFICES ASSUME Deep(y) PROVE OnLink(y, q)
    BY DEF OnLink
  <2>2. Deep(x) \/ (x.up /\ ~(y.asked \subseteq x.asked)) \/ "instRetry" \in y.timers
    BY <1>2, <2>1 DEF Deep, Advanced, Logging
  <2>. QED BY <1>1, <1>3, <2>2 DEF OnLink
<1>7. OneToken(y, q)
  <2>1. \A i \in 1..Len(q) : q[i].t \notin Toks
    BY DEF Logging
  <2>2. x.asked \cap Toks = {} /\ "instRetry" \notin x.timers
    BY DEF Logging
  <2>3. y.asked \cap Toks # {} => "instRetry" \notin y.timers
    BY <2>2 DEF Advanced
  <2>. QED BY <1>2, <2>1, <2>2, <2>3 DEF OneToken
<1>8. ChainAfterLogin(y, q, TRUE)
  BY <1>1 DEF ChainAfterLogin
<1>9. DataInv(y, pr, ar)
  BY <1>1 DEF Moved, DataInv
<1>. QED BY <1>5, <1>6, <1>7, <1>8, <1>9 DEF LoginInv

\* A step of the chain keeps it, when no step of the login is pending.
LEMMA RunKeeps ==
  ASSUME NEW x \in Sessions, NEW y, NEW q \in Seq(Events), NEW pr, NEW ar,
         LinksLast(x, q), OnLink(x, q), OneToken(x, q), ~Logging(x, q),
         Ran(x, y), ~(Behind(q) /\ Called(x, y)),
         x.st = "LoadingInstruments" => x.phase # "Done" /\ ~x.dataOk,
         y.posOk => y.baseline /\ pr, y.dataOk => y.baseline /\ pr, ar => pr
  PROVE  LoginInv(y, q, TRUE, pr, ar)
<1>1. y.asked \subseteq x.asked \/ x.asked # {} \/ (x.up /\ \A i \in 1..Len(q) : q[i].t # "conn")
  BY DEF Ran, Called, Behind
<1>2. y.asked # {} => x.up /\ \A i \in 1..Len(q) : q[i].t \notin Link
  BY <1>1 DEF LinksLast, Link
<1>3. LinksLast(y, q)
  BY <1>2 DEF LinksLast, Ran
<1>4. OnLink(y, q)
  BY DEF OnLink, Deep, Ran, Reached
<1>5. ~Logging(y, q)
  BY DEF Logging, Ran
<1>6. OneToken(y, q)
  BY <1>5 DEF Logging, OneToken
<1>7. ChainAfterLogin(y, q, TRUE)
  BY <1>5 DEF ChainAfterLogin, Ran
<1>8. DataInv(y, pr, ar)
  BY DEF DataInv, Ran
<1>. QED BY <1>3, <1>4, <1>6, <1>7, <1>8 DEF LoginInv

\* An event taken off the queue: an answer, or any event of a session that has asked for
\* nothing on its link.
LEMMA TailKeeps ==
  ASSUME NEW x \in Sessions, NEW q \in Seq(Events), NEW in \in BOOLEAN, NEW pr, NEW ar,
         LoginInv(x, q, in, pr, ar), q # <<>>, Head(q).t \notin Link \/ ~Deep(x)
  PROVE  LoginInv(x, Tail(q), in, pr, ar)
<1>. DEFINE z == Tail(q)
<1>1. z \in Seq(Events) /\ Len(z) = Len(q) - 1 /\ Len(z) \in Nat /\ Head(q) = q[1]
      /\ \A i \in 1..Len(z) : z[i] = q[i + 1] /\ i + 1 \in 1..Len(q)
  OBVIOUS
<1>2. \A i \in 1..Len(q) : i > 1 => i - 1 \in 1..Len(z) /\ z[i - 1] = q[i]
  BY <1>1
<1>. HIDE DEF z
<1>3. LinksLast(x, z)
  <2>1. ASSUME NEW i \in 1..Len(z), NEW j \in 1..Len(z), i < j, z[i].t \in Link
        PROVE  z[j].t \in Link
    <3>1. i + 1 < j + 1 /\ q[i + 1].t \in Link /\ i + 1 \in 1..Len(q) /\ j + 1 \in 1..Len(q)
      BY <1>1, <2>1
    <3>2. q[j + 1].t \in Link
      BY <3>1 DEF LoginInv, LinksLast
    <3>. QED BY <1>1, <3>2
  <2>2. x.asked # {} => x.up /\ \A i \in 1..Len(z) : z[i].t \notin Link
    BY <1>1 DEF LoginInv, LinksLast
  <2>3. ASSUME x.up, NEW i \in 1..Len(z), z[i].t = "disc"
        PROVE  \E k \in 1..Len(z) : k > i /\ z[k].t = "conn"
    <3>1. i + 1 \in 1..Len(q) /\ q[i + 1].t = "disc"
      BY <1>1, <2>3
    <3>2. PICK k \in 1..Len(q) : k > i + 1 /\ q[k].t = "conn"
      BY <3>1, <2>3 DEF LoginInv, LinksLast
    <3>3. k - 1 \in 1..Len(z) /\ z[k - 1].t = "conn" /\ k - 1 > i
      BY <1>2, <3>2
    <3>. QED BY <3>3
  <2>. QED BY <2>1, <2>2, <2>3 DEF LinksLast
<1>4. OnLink(x, z)
  <2>1. SUFFICES ASSUME Deep(x) PROVE OnLink(x, z)
    BY DEF OnLink
  <2>2. q[1].t # "disc"
    <3>1. Head(q).t \notin Link
      BY <2>1
    <3>. QED BY <1>1, <3>1 DEF Link
  <2>3. x.up \/ \E i \in 1..Len(z) : z[i].t = "disc"
    <3>1. CASE ~x.up
      <4>1. PICK i \in 1..Len(q) : q[i].t = "disc"
        BY <2>1, <3>1 DEF LoginInv, OnLink
      <4>2. i - 1 \in 1..Len(z) /\ z[i - 1].t = "disc"
        BY <1>2, <2>2, <4>1
      <4>. QED BY <4>2
    <3>. QED BY <3>1
  <2>4. ASSUME NEW j \in 1..Len(z), z[j].t = "conn"
        PROVE  \E i \in 1..Len(z) : i < j /\ z[i].t = "disc"
    <3>1. j + 1 \in 1..Len(q) /\ q[j + 1].t = "conn"
      BY <1>1, <2>4
    <3>2. PICK i \in 1..Len(q) : i < j + 1 /\ q[i].t = "disc"
      BY <2>1, <3>1 DEF LoginInv, OnLink
    <3>3. i - 1 \in 1..Len(z) /\ z[i - 1].t = "disc" /\ i - 1 < j
      BY <1>2, <2>2, <3>2
    <3>. QED BY <3>3
  <2>. QED BY <2>3, <2>4 DEF OnLink
<1>5. OneToken(x, z)
  BY <1>1 DEF LoginInv, OneToken
<1>6. ChainAfterLogin(x, z, in)
  <2>1. (\E i \in 1..Len(z) : z[i].t = "pos") => \E i \in 1..Len(q) : q[i].t = "pos"
    BY <1>1
  <2>2. (\E i \in 1..Len(z) : z[i].t \in Toks) => \E i \in 1..Len(q) : q[i].t \in Toks
    BY <1>1
  <2>3. (Moved(x, z, in) => Moved(x, q, in)) /\ (Logging(x, z) => Logging(x, q))
    BY <2>1, <2>2 DEF Moved, Logging
  <2>. QED BY <2>3 DEF LoginInv, ChainAfterLogin
<1>. QED BY <1>3, <1>4, <1>5, <1>6 DEF LoginInv, z

\* Stale renames the position answers and leaves the rest.
LEMMA StaleQueue ==
  ASSUME NEW q \in Seq(Events)
  PROVE  /\ Stale(q) \in Seq(Events) /\ Len(Stale(q)) = Len(q)
         /\ \A i \in 1..Len(q) :
              /\ Stale(q)[i].t # "pos"
              /\ Stale(q)[i].t = q[i].t \/ (q[i].t = "pos" /\ Stale(q)[i].t = "posOld")
<1>. DEFINE f(e) == IF e.t = "pos" THEN [e EXCEPT !.t = "posOld"] ELSE e
<1>1. ASSUME NEW e \in Events
      PROVE  f(e) \in Events /\ f(e).t # "pos" /\ (f(e).t = e.t \/ (e.t = "pos" /\ f(e).t = "posOld"))
  BY DEF Events, Requests
<1>2. Stale(q) = [i \in 1..Len(q) |-> f(q[i])]
  BY DEF Stale
<1>. HIDE DEF f
<1>3. \A i \in 1..Len(q) : q[i] \in Events
  OBVIOUS
<1>4. Stale(q) \in Seq(Events) /\ Len(Stale(q)) = Len(q)
  BY <1>1, <1>2, <1>3
<1>. QED BY <1>1, <1>2, <1>3, <1>4

\* The invariant does not need them.
LEMMA StaleKeeps ==
  ASSUME NEW x \in Sessions, NEW q \in Seq(Events), NEW in \in BOOLEAN, NEW pr, NEW ar,
         LoginInv(x, q, in, pr, ar)
  PROVE  LoginInv(x, Stale(q), in, pr, ar)
<1>. DEFINE z == Stale(q)
<1>1. z \in Seq(Events) /\ Len(z) = Len(q) /\ Len(q) \in Nat
      /\ \A i \in 1..Len(q) : z[i].t = q[i].t \/ (q[i].t = "pos" /\ z[i].t = "posOld")
  BY StaleQueue
<1>. HIDE DEF z
<1>2. ASSUME NEW i \in 1..Len(q)
      PROVE  /\ (z[i].t = "conn") <=> (q[i].t = "conn")
             /\ (z[i].t = "disc") <=> (q[i].t = "disc")
             /\ (z[i].t \in Toks) <=> (q[i].t \in Toks)
             /\ (z[i].t \in Link) <=> (q[i].t \in Link)
             /\ (z[i].t = "pos") => (q[i].t = "pos")
  <2>1. CASE z[i].t = q[i].t
    BY <2>1
  <2>2. CASE q[i].t = "pos" /\ z[i].t = "posOld"
    BY <2>2 DEF Link, Toks
  <2>. QED BY <1>1, <2>1, <2>2
<1>3. LinksLast(x, z)
  <2>1. LinksLast(x, q)
    BY DEF LoginInv
  <2>. QED BY <1>1, <1>2, <2>1 DEF LinksLast
<1>4. OnLink(x, z)
  BY <1>1, <1>2 DEF LoginInv, OnLink
<1>5. OneToken(x, z)
  <2>1. OneToken(x, q)
    BY DEF LoginInv
  <2>. QED BY <1>1, <1>2, <2>1 DEF OneToken
<1>6. ChainAfterLogin(x, z, in)
  <2>1. (\E i \in 1..Len(z) : z[i].t = "pos") => \E i \in 1..Len(q) : q[i].t = "pos"
    BY <1>1, <1>2
  <2>2. (\E i \in 1..Len(z) : z[i].t \in Toks) => \E i \in 1..Len(q) : q[i].t \in Toks
    BY <1>1, <1>2
  <2>3. (Moved(x, z, in) => Moved(x, q, in)) /\ (Logging(x, z) => Logging(x, q))
    BY <2>1, <2>2 DEF Moved, Logging
  <2>. QED BY <2>3 DEF LoginInv, ChainAfterLogin
<1>. QED BY <1>3, <1>4, <1>5, <1>6 DEF LoginInv, z

\* What Settle leaves of the session a handler returned.
Settled(y) == [y EXCEPT !.reasked = FALSE,
                        !.timers = IF y.inFlight THEN @ ELSE @ \ {"pos", "poll_pos"}]

\* Settle removes only timers of position queries.
LEMMA SettledType ==
  ASSUME NEW y \in Sessions
  PROVE  /\ Settled(y) \in Sessions /\ Idled(y, Settled(y))
         /\ Settled(y).st = y.st /\ ~Settled(y).reasked
<1>. DEFINE z == Settled(y)
<1>1. z \in Sessions /\ z.asked = y.asked /\ z.timers \subseteq y.timers /\ z.st = y.st /\ ~z.reasked
      /\ z.phase = y.phase /\ z.inFlight = y.inFlight /\ z.posOk = y.posOk
      /\ z.dataOk = y.dataOk /\ z.baseline = y.baseline /\ z.up = y.up
  BY DEF Sessions, Settled
<1>. HIDE DEF z
<1>2. Idled(y, z)
  BY <1>1 DEF Idled, Core, Reached
<1>. QED BY <1>1, <1>2 DEF z

\* Settle keeps the invariant of what the handler left.
LEMMA SettleKeeps ==
  ASSUME NEW y \in Sessions, NEW q \in Seq(Events), NEW pr, NEW ar,
         LoginInv(y, q, TRUE, pr, ar)
  PROVE  LoginInv(Settled(y), IF y.reasked THEN Stale(q) ELSE q, TRUE, pr, ar)
<1>1. LoginInv(Settled(y), q, TRUE, pr, ar) /\ Settled(y) \in Sessions
  BY SettledType, IdleKeeps
<1>2. LoginInv(Settled(y), Stale(q), TRUE, pr, ar)
  BY <1>1, StaleKeeps
<1>. QED BY <1>1, <1>2

-----------------------------------------------------------------------------
(* One event handled by the session.                                       *)
\* What RowsAfter does to the database's rows, pr and ar before and pr2 and ar2 after.
RowsStep(e, x, y, pr, ar, pr2, ar2) ==
  /\ e.t # "login" => (pr => pr2) /\ (ar => ar2)
  /\ pr2 => pr \/ (e.t = "pos" /\ e.ok /\ y.baseline)
  /\ e.t = "pos" /\ e.ok /\ y.baseline => pr2
  /\ ar2 => ar \/ (e.t = "acc" /\ x.posOk)
  /\ e.t = "login" => (ar2 /\ pr => pr2)

\* The handler of the first event of the queue keeps the invariant unless it crosses.
LEMMA EventKeeps ==
  ASSUME NEW x \in Sessions, NEW q \in Seq(Events), q # <<>>,
         NEW pr, NEW ar, NEW pr2, NEW ar2,
         NEW y \in Handled(x, Head(q)), LoginInv(x, q, TRUE, pr, ar),
         ~(Behind(Tail(q)) /\ Called(x, y)),
         RowsStep(Head(q), x, y, pr, ar, pr2, ar2)
  PROVE  y \in Sessions /\ LoginInv(y, Tail(q), TRUE, pr2, ar2)
<1>. DEFINE e == Head(q)
            z == Tail(q)
<1>1. e \in Events /\ e.t \in Requests \cup Link /\ e.ok \in BOOLEAN /\ e = q[1] /\ 1 \in 1..Len(q)
  <2>1. 1 \in 1..Len(q) /\ e = q[1]
    OBVIOUS
  <2>. QED BY <2>1, EventType
<1>2. z \in Seq(Events) /\ Len(z) = Len(q) - 1 /\ Len(q) \in Nat
      /\ \A i \in 1..Len(z) : z[i] = q[i + 1] /\ i + 1 \in 1..Len(q) /\ i + 1 > 1
  OBVIOUS
<1>3. y \in Handled(x, e)
  OBVIOUS
<1>4. ~(Behind(z) /\ Called(x, y))
  OBVIOUS
<1>5. (ar2 => ar \/ (e.t = "acc" /\ x.posOk)) /\ (pr2 => pr \/ (e.t = "pos" /\ e.ok /\ y.baseline))
      /\ (e.t # "login" => (pr => pr2) /\ (ar => ar2)) /\ (e.t = "login" => (ar2 /\ pr => pr2))
      /\ (e.t = "pos" /\ e.ok /\ y.baseline => pr2)
  BY DEF RowsStep
<1>6. e.t \notin Link \/ ~Deep(x) => LoginInv(x, z, TRUE, pr, ar)
  BY TailKeeps
<1>. HIDE DEF e, z
<1>7. (ar2 => pr2) \/ e.t = "pos"
  BY <1>5 DEF LoginInv, DataInv
<1>8. CASE e.t = "conn"
  <2>1. ~Deep(x)
    BY <1>1, <1>8 DEF LoginInv, OnLink
  <2>2. LoginInv(x, z, TRUE, pr, ar)
    BY <1>6, <2>1
  <2>3. x.asked = {} /\ "instRetry" \notin x.timers /\ x.st \notin InLogin
    BY <1>1, <1>8, <2>1 DEF LoginInv, LinksLast, Deep, Reached, Link
  <2>4. ~Moved(x, q, TRUE)
    BY <2>3 DEF LoginInv, ChainAfterLogin
  <2>5. \A i \in 1..Len(z) : z[i].t \in Link
    BY <1>1, <1>2, <1>8 DEF LoginInv, LinksLast, Link
  <2>6. ~Logging(x, z) /\ ~Moved(x, z, TRUE) /\ x.st # "Ready"
    BY <2>3, <2>4, <2>5 DEF Logging, Moved, Link, Toks, InLogin
  <2>7. Advanced(x, y)
    BY <1>3, <1>8, FrontConnected DEF Handled
  <2>8. LinksLast(x, z) /\ OnLink(x, z) /\ (ar2 => pr2)
    BY <1>7, <1>8, <2>2 DEF LoginInv
  <2>9. LoginInv(y, z, TRUE, pr2, ar2)
    BY <1>2, <1>4, <2>6, <2>7, <2>8, AdvanceKeeps
  <2>. QED BY <2>7, <2>9 DEF Advanced, z
<1>9. CASE e.t \in {"auth", "login", "settle"}
  <2>1. LoginInv(x, z, TRUE, pr, ar)
    BY <1>6, <1>9 DEF Link
  <2>2. Logging(x, q)
    BY <1>1, <1>9 DEF Logging, Toks
  <2>3. x.st # "Ready" /\ ~Moved(x, q, TRUE)
    BY <2>2 DEF LoginInv, ChainAfterLogin
  <2>4. ~Moved(x, z, TRUE)
    BY <1>2, <2>3 DEF Moved
  <2>5. ~Logging(x, z)
    BY <1>1, <1>2, <1>9 DEF LoginInv, OneToken, Logging, Toks
  <2>6. Advanced(x, y)
    BY <1>1, <1>3, <1>9, RspAuthenticate, RspUserLogin, RspSettlementConfirm DEF Handled
  <2>8. LinksLast(x, z) /\ OnLink(x, z) /\ (ar2 => pr2)
    BY <1>7, <1>9, <2>1 DEF LoginInv
  <2>9. LoginInv(y, z, TRUE, pr2, ar2)
    BY <1>2, <1>4, <2>3, <2>4, <2>5, <2>6, <2>8, AdvanceKeeps
  <2>. QED BY <2>6, <2>9 DEF Advanced, z
<1>10. CASE e.t = "inst"
  <2>1. LoginInv(x, z, TRUE, pr, ar)
    BY <1>6, <1>10 DEF Link
  <2>2. Logging(x, q)
    BY <1>1, <1>10 DEF Logging, Toks
  <2>3. ~x.dataOk
    BY <2>2 DEF LoginInv, ChainAfterLogin, Moved
  <2>4. ~Logging(x, z)
    BY <1>1, <1>2, <1>10 DEF LoginInv, OneToken, Logging, Toks
  <2>5. Idled(x, y) \/ (Ran(x, y) /\ ~y.posOk /\ ~y.dataOk)
    <3>1. y \in on_rsp_qry_instrument(x, e.ok)
      BY <1>3, <1>10 DEF Handled
    <3>. QED BY <1>1, <2>3, <3>1, RspQryInstrument
  <2>6. (pr => pr2) /\ (ar2 => pr2)
    BY <1>5, <1>7, <1>10
  <2>7. LoginInv(x, z, TRUE, pr2, ar2)
    BY <2>1, <2>6 DEF LoginInv, DataInv
  <2>8. CASE Idled(x, y)
    <3>1. LoginInv(y, z, TRUE, pr2, ar2)
      BY <1>2, <2>7, <2>8, IdleKeeps
    <3>. QED BY <2>8, <3>1 DEF Idled, z
  <2>9. CASE Ran(x, y) /\ ~y.posOk /\ ~y.dataOk
    <3>1. LinksLast(x, z) /\ OnLink(x, z) /\ OneToken(x, z)
          /\ (x.st = "LoadingInstruments" => x.phase # "Done" /\ ~x.dataOk)
      BY <2>1 DEF LoginInv, DataInv
    <3>2. LoginInv(y, z, TRUE, pr2, ar2)
      BY <1>2, <1>4, <2>4, <2>6, <2>9, <3>1, RunKeeps
    <3>. QED BY <2>9, <3>2 DEF Ran, z
  <2>. QED BY <2>5, <2>8, <2>9
<1>11. CASE e.t = "pos"
  <2>1. LoginInv(x, z, TRUE, pr, ar)
    BY <1>6, <1>11 DEF Link
  <2>2. Moved(x, q, TRUE)
    BY <1>1, <1>11 DEF Moved
  <2>3. x.st \in InLogin /\ ~Logging(x, q)
    BY <2>2 DEF LoginInv, ChainAfterLogin
  <2>4. ~Logging(x, z)
    BY <1>2, <2>3 DEF Logging
  <2>5. y \in on_rsp_qry_investor_position(x, e.ok) /\ (x.posOk => x.baseline)
    BY <1>3, <1>11 DEF Handled, LoginInv, DataInv
  <2>6. /\ Ran(x, y)
        /\ y.posOk => y.baseline /\ (e.ok \/ x.posOk)
        /\ y.dataOk => x.dataOk
        /\ x.baseline => y.baseline
    <3>1. /\ x.st \in InLogin => Ran(x, y)
          /\ y.posOk => (y.baseline /\ e.ok) \/ (y.baseline = x.baseline /\ x.posOk)
          /\ y.dataOk => x.dataOk
          /\ x.baseline => y.baseline
      BY <1>1, <2>5, RspQryInvestorPosition
    <3>. QED BY <2>3, <2>5, <3>1
  <2>7. (x.posOk => pr) /\ (x.dataOk => x.baseline /\ pr) /\ (ar => pr) /\ (pr => pr2) /\ (ar2 => ar)
    BY <1>5, <1>11 DEF LoginInv, DataInv
  <2>8. (y.posOk => y.baseline /\ pr2) /\ (y.dataOk => y.baseline /\ pr2) /\ (ar2 => pr2)
    BY <1>5, <1>11, <2>6, <2>7
  <2>9. LinksLast(x, z) /\ OnLink(x, z) /\ OneToken(x, z)
        /\ (x.st = "LoadingInstruments" => x.phase # "Done" /\ ~x.dataOk)
    BY <2>1 DEF LoginInv, DataInv
  <2>10. LoginInv(y, z, TRUE, pr2, ar2)
    BY <1>2, <1>4, <2>4, <2>6, <2>8, <2>9, RunKeeps
  <2>. QED BY <2>6, <2>10 DEF Ran, z
<1>12. CASE e.t = "acc"
  <2>1. LoginInv(x, z, TRUE, pr, ar)
    BY <1>6, <1>12 DEF Link
  <2>2. \/ Idled(x, y)
        \/ x.phase = "QueryAccount" /\ (x.st \in InLogin => Ran(x, y) /\ KeepsData(x, y))
    BY <1>1, <1>3, <1>12, RspQryTradingAccount DEF Handled
  <2>3. (pr => pr2) /\ (ar2 => pr2)
    BY <1>5, <1>7, <1>12
  <2>4. LoginInv(x, z, TRUE, pr2, ar2)
    BY <2>1, <2>3 DEF LoginInv, DataInv
  <2>5. CASE Idled(x, y)
    <3>1. LoginInv(y, z, TRUE, pr2, ar2)
      BY <1>2, <2>4, <2>5, IdleKeeps
    <3>. QED BY <2>5, <3>1 DEF Idled, z
  <2>6. CASE x.phase = "QueryAccount" /\ (x.st \in InLogin => Ran(x, y) /\ KeepsData(x, y))
    <3>1. Moved(x, z, TRUE)
      BY <2>6 DEF Moved
    <3>2. ~Logging(x, z) /\ Ran(x, y) /\ KeepsData(x, y)
      BY <2>1, <2>6, <3>1 DEF LoginInv, ChainAfterLogin
    <3>3. (y.posOk => y.baseline /\ pr2) /\ (y.dataOk => y.baseline /\ pr2)
      BY <2>4, <3>2 DEF KeepsData, LoginInv, DataInv
    <3>4. LinksLast(x, z) /\ OnLink(x, z) /\ OneToken(x, z)
          /\ (x.st = "LoadingInstruments" => x.phase # "Done" /\ ~x.dataOk)
      BY <2>1 DEF LoginInv, DataInv
    <3>5. LoginInv(y, z, TRUE, pr2, ar2)
      BY <1>2, <1>4, <2>3, <3>2, <3>3, <3>4, RunKeeps
    <3>. QED BY <3>2, <3>5 DEF Ran, z
  <2>. QED BY <2>2, <2>5, <2>6
<1>13. CASE e.t = "posOld"
  <2>1. LoginInv(x, z, TRUE, pr, ar) /\ y = x
    BY <1>3, <1>6, <1>13 DEF Link, Handled
  <2>2. (pr => pr2) /\ (ar2 => pr2)
    BY <1>5, <1>7, <1>13
  <2>3. LoginInv(x, z, TRUE, pr2, ar2)
    BY <2>1, <2>2 DEF LoginInv, DataInv
  <2>. QED BY <2>1, <2>3 DEF z
<1>14. CASE e.t = "disc"
  <2>1. y = [on_front_disconnected_sm(x) EXCEPT
               !.timers = {}, !.genOk = FALSE, !.phase = "QueryPosition",
               !.posOk = FALSE, !.accOk = FALSE, !.dataOk = FALSE,
               !.baseline = FALSE, !.inFlight = FALSE]
    BY <1>3, <1>14 DEF Handled, on_front_disconnected
  <2>. DEFINE c == on_front_disconnected_sm(x)
  <2>2. c \in Sessions /\ c.asked = x.asked /\ c.up = x.up /\ c.st \in {"Idle", "Disconnected"}
    <3>1. CASE x.st \in {"Idle", "Disconnected"}
      <4>1. c = x
        BY <3>1 DEF on_front_disconnected_sm
      <4>. QED BY <3>1, <4>1
    <3>2. CASE x.st \notin {"Idle", "Disconnected"}
      <4>1. c = [x EXCEPT !.st = "Disconnected", !.wasAuth = FALSE]
        BY <3>2 DEF on_front_disconnected_sm
      <4>. HIDE DEF c
      <4>. QED BY <4>1 DEF Sessions, TdStates
    <3>. QED BY <3>1, <3>2
  <2>. HIDE DEF c
  <2>3. y \in Sessions /\ y.asked = x.asked /\ y.up = x.up /\ y.st \in {"Idle", "Disconnected"}
        /\ y.timers = {} /\ y.phase = "QueryPosition" /\ ~y.posOk /\ ~y.dataOk /\ ~y.inFlight
    BY <2>1, <2>2, ZenonT(60) DEF c, Sessions, Phases
  <2>4. x.asked = {} /\ \A i \in 1..Len(z) : z[i].t \in Link
    BY <1>1, <1>2, <1>14 DEF LoginInv, LinksLast, Link
  <2>5. LinksLast(y, q) /\ OnLink(y, q) /\ OneToken(y, q)
    BY <2>3, <2>4 DEF LoginInv, LinksLast, OnLink, Deep, Reached, InLogin, OneToken
  <2>6. \A i \in 1..Len(q) : q[i].t \in Link
    BY <1>1, <1>14 DEF LoginInv, LinksLast, Link
  <2>7. ~Moved(y, q, TRUE) /\ y.st # "Ready"
    BY <2>3, <2>4, <2>6 DEF Moved, Link
  <2>8. LoginInv(y, q, TRUE, pr2, ar2)
    BY <1>7, <1>14, <2>3, <2>5, <2>7 DEF LoginInv, ChainAfterLogin, DataInv
  <2>9. ~Deep(y)
    BY <2>3 DEF Deep, Reached, InLogin
  <2>. QED
    BY <2>3, <2>8, <2>9, TailKeeps DEF z
<1>. QED
  BY <1>1, <1>8, <1>9, <1>10, <1>11, <1>12, <1>13, <1>14 DEF Requests, Link, z

\* A handler returns a session.
LEMMA HandledType ==
  ASSUME NEW x \in Sessions, NEW e \in Events, NEW y \in Handled(x, e)
  PROVE  y \in Sessions
<1>1. e.t \in Requests \cup {"conn", "disc"} /\ e.ok \in BOOLEAN
  BY DEF Events
<1>2. CASE e.t = "conn"
  BY <1>2, FrontConnected DEF Handled, Advanced
<1>3. CASE e.t = "auth"
  <2>1. y \in on_rsp_authenticate(x, e.ok)
    BY <1>3 DEF Handled
  <2>. QED BY <1>1, <2>1, RspAuthenticate DEF Advanced
<1>4. CASE e.t = "login"
  <2>1. y \in on_rsp_user_login(x, e.ok)
    BY <1>4 DEF Handled
  <2>. QED BY <1>1, <2>1, RspUserLogin DEF Advanced
<1>5. CASE e.t = "settle"
  <2>1. y \in on_rsp_settlement_confirm(x, e.ok)
    BY <1>5 DEF Handled
  <2>. QED BY <1>1, <2>1, RspSettlementConfirm DEF Advanced
<1>6. CASE e.t = "inst"
  <2>1. y \in on_rsp_qry_instrument(x, e.ok)
    BY <1>6 DEF Handled
  <2>. QED BY <1>1, <2>1, RspQryInstrument
<1>7. CASE e.t = "pos"
  <2>1. y \in on_rsp_qry_investor_position(x, e.ok)
    BY <1>7 DEF Handled
  <2>. QED BY <1>1, <2>1, RspQryInvestorPosition
<1>8. CASE e.t = "posOld"
  BY <1>8 DEF Handled
<1>9. CASE e.t = "acc"
  <2>1. y \in on_rsp_qry_trading_account(x, e.ok)
    BY <1>9 DEF Handled
  <2>. QED BY <1>1, <2>1, RspQryTradingAccount
<1>10. CASE e.t = "disc"
  <2>. DEFINE c == on_front_disconnected_sm(x)
  <2>1. y = [c EXCEPT
               !.timers = {}, !.genOk = FALSE, !.phase = "QueryPosition",
               !.posOk = FALSE, !.accOk = FALSE, !.dataOk = FALSE,
               !.baseline = FALSE, !.inFlight = FALSE]
    BY <1>10 DEF Handled, on_front_disconnected
  <2>2. c \in Sessions
    BY DEF on_front_disconnected_sm, Sessions, TdStates
  <2>. HIDE DEF c
  <2>. QED BY <2>1, <2>2, ZenonT(60) DEF Sessions, Phases
<1>. QED
  BY <1>1, <1>2, <1>3, <1>4, <1>5, <1>6, <1>7, <1>8, <1>9, <1>10 DEF Requests

\* A session that is not in sessions_ is a fresh one.
NoSession == ~sess => s = NewSession

IInv ==
  /\ TypeOK /\ NoSession /\ ReadyIsReady
  /\ ~crossed => LoginInv(s, evq, sess, posRow, accRow)

\* A fresh session has asked for nothing.
LEMMA NewSessionFields ==
  /\ NewSession \in Sessions /\ NewSession.st = "Idle" /\ NewSession.asked = {}
  /\ NewSession.timers = {} /\ ~NewSession.up /\ ~NewSession.posOk /\ ~NewSession.dataOk
  /\ ~NewSession.inFlight /\ NewSession.phase = "QueryPosition"
BY DEF NewSession, Sessions, TdStates, Phases, Timers, Requests

\* A fresh session satisfies the invariant over what its predecessor was sent.
LEMMA FreshKeeps ==
  ASSUME NEW x \in Sessions, x.asked = {}, ~x.up, x.timers \subseteq {"connect"},
         x.st \in {"Idle", "Connecting"}, ~x.posOk, ~x.dataOk, ~x.inFlight, x.phase = "QueryPosition",
         NEW q \in Seq(Events), NEW y, NEW in, NEW in2 \in BOOLEAN, NEW pr, NEW ar,
         LoginInv(y, q, in, pr, ar), in2 => \A i \in 1..Len(q) : q[i].t # "pos"
  PROVE  LoginInv(x, q, in2, pr, ar)
<1>1. LinksLast(x, q) /\ OnLink(x, q)
  BY DEF LoginInv, LinksLast, OnLink, Deep, Reached, InLogin
<1>2. OneToken(x, q)
  BY DEF LoginInv, OneToken
<1>3. ~Moved(x, q, in2)
  BY DEF Moved
<1>4. ChainAfterLogin(x, q, in2)
  BY <1>3 DEF ChainAfterLogin
<1>5. DataInv(x, pr, ar)
  BY DEF LoginInv, DataInv
<1>. QED BY <1>1, <1>2, <1>4, <1>5 DEF LoginInv

\* TdApi::run starts without a session.
LEMMA InitInv == Init => IInv
<1>. SUFFICES ASSUME Init PROVE IInv
  OBVIOUS
<1>1. evq = <<>> /\ s = NewSession /\ evq \in Seq(Events) /\ Len(evq) = 0
  BY DEF Init
<1>2. TypeOK
  <2>1. MaxQueue \in Nat /\ 0 \in 0..MaxDay /\ Len(evq) <= MaxQueue
    BY <1>1, BoundsAssumption
  <2>2. s \in Sessions
    BY <1>1, NewSessionFields
  <2>3. sess \in BOOLEAN /\ resync \in BOOLEAN /\ trigger \in BOOLEAN /\ posRow \in BOOLEAN
        /\ accRow \in BOOLEAN /\ crossed \in BOOLEAN
    BY Zenon DEF Init
  <2>. QED BY <1>1, <2>1, <2>2, <2>3 DEF Init, TypeOK
<1>3. LoginInv(s, evq, sess, posRow, accRow)
  <2>1. LinksLast(s, evq) /\ OnLink(s, evq) /\ OneToken(s, evq)
    BY <1>1, NewSessionFields DEF LinksLast, OnLink, OneToken, Deep, Reached, InLogin
  <2>2. ~Moved(s, evq, sess) /\ s.st # "Ready"
    BY <1>1, NewSessionFields DEF Moved
  <2>3. DataInv(s, posRow, accRow)
    BY <1>1, NewSessionFields DEF DataInv, Init
  <2>. QED BY <2>1, <2>2, <2>3 DEF LoginInv, ChainAfterLogin
<1>. QED BY <1>1, <1>2, <1>3 DEF Init, IInv, NoSession, ReadyIsReady

-----------------------------------------------------------------------------
(* TypeOK, NoSession and ReadyIsReady are preserved by every step.         *)
\* account_state_of calls Ready only what is Ready.
LEMMA StateOf ==
  ASSUME NEW st \in TdStates
  PROVE  /\ AccountStateOf(st) \in {"Offline", "LoggingIn", "Ready"}
         /\ AccountStateOf(st) = "Ready" => st = "Ready"
BY DEF AccountStateOf

\* What Settle makes of the session and the queue.
LEMMA SettleStep ==
  ASSUME NEW x, NEW y \in Sessions, NEW q \in Seq(Events), Settle(x, y, q), crossed \in BOOLEAN
  PROVE  /\ s' = Settled(y) /\ s' \in Sessions /\ s'.st = y.st
         /\ evq' = (IF y.reasked THEN Stale(q) ELSE q)
         /\ evq' \in Seq(Events) /\ Len(evq') = Len(q)
         /\ crossed' \in BOOLEAN
         /\ ~crossed' => ~crossed /\ ~(Behind(q) /\ Called(x, y))
<1>1. s' = Settled(y) /\ evq' = (IF y.reasked THEN Stale(q) ELSE q)
  BY DEF Settle, Settled
<1>2. s' \in Sessions /\ s'.st = y.st
  BY <1>1, SettledType
<1>3. evq' \in Seq(Events) /\ Len(evq') = Len(q)
  BY <1>1, StaleQueue
<1>4. crossed' = (crossed \/ (Behind(q) /\ Called(x, y)))
  BY DEF Settle
<1>5. crossed' \in BOOLEAN
  BY <1>4, Zenon
<1>6. ~crossed' => ~crossed /\ ~(Behind(q) /\ Called(x, y))
  BY <1>4, Zenon
<1>. QED BY <1>1, <1>2, <1>3, <1>5, <1>6

\* The main loop handles an event.
LEMMA ProcessEvent ==
  ASSUME IInv, process_event
  PROVE  IInv'
<1>1. TypeOK /\ NoSession /\ ReadyIsReady /\ (~crossed => LoginInv(s, evq, sess, posRow, accRow))
  BY DEF IInv
<1>2. /\ s \in Sessions /\ evq \in Seq(Events) /\ Len(evq) <= MaxQueue /\ MaxQueue \in Nat
      /\ evq # <<>> /\ Tail(evq) \in Seq(Events) /\ Len(Tail(evq)) <= MaxQueue
      /\ Head(evq) \in Events /\ Head(evq).day \in 0..MaxDay
  <2>1. s \in Sessions /\ evq \in Seq(Events) /\ Len(evq) <= MaxQueue /\ evq # <<>> /\ MaxQueue \in Nat
    BY <1>1, BoundsAssumption DEF TypeOK, process_event
  <2>2. Tail(evq) \in Seq(Events) /\ Len(Tail(evq)) <= MaxQueue /\ Head(evq) \in Events
    BY <2>1
  <2>. QED BY <2>1, <2>2 DEF Events
<1>3. sess \in BOOLEAN /\ crossed \in BOOLEAN /\ posRow \in BOOLEAN /\ accRow \in BOOLEAN
  BY <1>1 DEF TypeOK
<1>4. UNCHANGED <<cfg, sess, resync, ctpDay>>
  BY DEF process_event
<1>5. CASE ~sess
  <2>1. evq' = Tail(evq) /\ UNCHANGED <<s, pushed, health, trigger, day, posRow, accRow, crossed>>
    BY <1>5 DEF process_event, rows
  <2>2. TypeOK' /\ NoSession' /\ ReadyIsReady'
    BY <1>1, <1>2, <1>4, <2>1 DEF TypeOK, NoSession, ReadyIsReady
  <2>3. ~Deep(s)
    BY <1>1, <1>5, NewSessionFields DEF NoSession, Deep, Reached, InLogin
  <2>4. ~crossed => LoginInv(s, Tail(evq), sess, posRow, accRow)
    BY <1>1, <1>2, <1>3, <2>3, TailKeeps
  <2>5. ~crossed' => LoginInv(s', evq', sess', posRow', accRow')
    BY <1>4, <2>1, <2>4
  <2>. QED BY <2>2, <2>5 DEF IInv
<1>6. CASE sess
  <2>1. PICK y \in Handled(s, Head(evq)) :
          Settle(s, y, Tail(evq)) /\ DispatchTail(s.st, y.st) /\ RowsAfter(Head(evq), y)
    BY <1>6 DEF process_event
  <2>2. y \in Sessions
    BY <1>2, HandledType
  <2>3. /\ s' = Settled(y) /\ s' \in Sessions /\ s'.st = y.st
        /\ evq' = (IF y.reasked THEN Stale(Tail(evq)) ELSE Tail(evq))
        /\ evq' \in Seq(Events) /\ Len(evq') = Len(Tail(evq))
        /\ crossed' \in BOOLEAN
        /\ ~crossed' => ~crossed /\ ~(Behind(Tail(evq)) /\ Called(s, y))
    BY <1>2, <1>3, <2>1, <2>2, SettleStep
  <2>4. pushed' = AccountStateOf(y.st) /\ y.st \in TdStates
    BY <2>1, <2>2 DEF DispatchTail, write_account_status, Sessions
  <2>5. health' \in {"Up", "Down"}
    BY <1>1, <2>1 DEF TypeOK, DispatchTail
  <2>6. trigger' \in BOOLEAN
    <3>1. trigger' = (IF s.st # "Ready" THEN y.st = "Ready" ELSE trigger /\ y.st = "Ready")
      BY <2>1 DEF DispatchTail
    <3>. QED BY <3>1, Zenon
  <2>. DEFINE dayOpens == Head(evq).t = "login" /\ Head(evq).ok /\ Head(evq).day # day
  <2>7. /\ day' = IF dayOpens THEN Head(evq).day ELSE day
        /\ posRow' = (~dayOpens /\ (posRow \/ (Head(evq).t = "pos" /\ Head(evq).ok /\ y.baseline)))
        /\ accRow' = (~dayOpens /\ (accRow \/ (Head(evq).t = "acc" /\ WritesAccountRow(s, Head(evq).ok))))
    BY <2>1 DEF RowsAfter
  <2>8. posRow' \in BOOLEAN /\ accRow' \in BOOLEAN
    BY <2>7, Zenon
  <2>9. day' \in 0..MaxDay
    BY <1>1, <1>2, <2>7 DEF TypeOK
  <2>10. TypeOK'
    BY <1>1, <1>2, <1>4, <2>3, <2>4, <2>5, <2>6, <2>8, <2>9, StateOf DEF TypeOK
  <2>11. NoSession' /\ ReadyIsReady'
    BY <1>4, <1>6, <2>3, <2>4, StateOf DEF NoSession, ReadyIsReady
  <2>12. ASSUME ~crossed' PROVE LoginInv(s', evq', sess', posRow', accRow')
    <3>1. LoginInv(s, evq, TRUE, posRow, accRow) /\ ~(Behind(Tail(evq)) /\ Called(s, y))
      BY <1>1, <1>3, <1>6, <2>3, <2>12
    <3>2. RowsStep(Head(evq), s, y, posRow, accRow, posRow', accRow')
      BY <2>7, Zenon DEF RowsStep, WritesAccountRow
    <3>3. LoginInv(y, Tail(evq), TRUE, posRow', accRow')
      <4>1. ASSUME NEW a, NEW b, NEW a2, NEW b2,
                   LoginInv(s, evq, TRUE, a, b), RowsStep(Head(evq), s, y, a, b, a2, b2)
            PROVE  LoginInv(y, Tail(evq), TRUE, a2, b2)
        <5>1. s \in Sessions /\ evq \in Seq(Events) /\ evq # <<>>
          BY <1>2
        <5>2. y \in Handled(s, Head(evq))
          OBVIOUS
        <5>3. ~(Behind(Tail(evq)) /\ Called(s, y))
          BY <3>1
        <5>. QED BY <4>1, <5>1, <5>2, <5>3, EventKeeps
      <4>. QED BY <1>3, <2>8, <3>1, <3>2, <4>1, Zenon
    <3>4. LoginInv(Settled(y), IF y.reasked THEN Stale(Tail(evq)) ELSE Tail(evq), TRUE, posRow', accRow')
      BY <1>2, <2>2, <3>3, SettleKeeps
    <3>. QED BY <1>3, <1>4, <1>6, <2>3, <3>4
  <2>. QED BY <2>10, <2>11, <2>12 DEF IInv
<1>. QED BY <1>3, <1>5, <1>6

\* A timer, or the resync, moved the session from x to y over an unchanged queue.
LEMMA TimerKeeps ==
  ASSUME IInv, sess, NEW x \in Sessions, NEW y \in Sessions, Settle(x, y, evq),
         UNCHANGED <<cfg, sess, health, ctpDay, day, posRow, accRow>>,
         pushed' = pushed \/ pushed' = "Offline", resync' \in BOOLEAN, trigger' \in BOOLEAN,
         s.st = "Ready" => y.st = "Ready",
         ~crossed /\ ~(Behind(evq) /\ Called(x, y)) => LoginInv(y, evq, TRUE, posRow, accRow)
  PROVE  IInv'
<1>1. TypeOK /\ NoSession /\ ReadyIsReady
  BY DEF IInv
<1>2. evq \in Seq(Events) /\ Len(evq) <= MaxQueue /\ crossed \in BOOLEAN /\ sess \in BOOLEAN
  BY <1>1 DEF TypeOK
<1>3. /\ s' = Settled(y) /\ s' \in Sessions /\ s'.st = y.st
      /\ evq' = (IF y.reasked THEN Stale(evq) ELSE evq)
      /\ evq' \in Seq(Events) /\ Len(evq') = Len(evq)
      /\ crossed' \in BOOLEAN
      /\ ~crossed' => ~crossed /\ ~(Behind(evq) /\ Called(x, y))
  BY <1>2, SettleStep
<1>4. TypeOK' /\ NoSession' /\ ReadyIsReady'
  BY <1>1, <1>2, <1>3 DEF TypeOK, NoSession, ReadyIsReady
<1>5. ASSUME ~crossed' PROVE LoginInv(s', evq', sess', posRow', accRow')
  <2>1. LoginInv(y, evq, TRUE, posRow, accRow)
    BY <1>3, <1>5
  <2>2. LoginInv(Settled(y), IF y.reasked THEN Stale(evq) ELSE evq, TRUE, posRow, accRow)
    BY <1>2, <2>1, SettleKeeps
  <2>. QED BY <1>2, <1>3, <2>2
<1>. QED BY <1>4, <1>5 DEF IInv

\* A session timer fires.
LEMMA Timer ==
  ASSUME IInv, NEW t \in Timers, SessionTimer(t)
  PROVE  IInv'
<1>. DEFINE x == Cancel(s, {t})
<1>1. TypeOK /\ (~crossed => LoginInv(s, evq, sess, posRow, accRow)) /\ sess /\ t \in s.timers
  BY DEF IInv, SessionTimer
<1>2. s \in Sessions /\ evq \in Seq(Events)
  BY <1>1 DEF TypeOK
<1>3. PICK y \in Fired(x, t) :
        /\ Settle(x, y, evq)
        /\ IF t = "connect" /\ s.st = "Connecting" THEN write_account_status("Offline") ELSE UNCHANGED pushed
        /\ trigger' = (trigger /\ y.st = "Ready")
  BY DEF SessionTimer
<1>4. UNCHANGED <<cfg, sess, health, resync, ctpDay, day, posRow, accRow>>
  BY DEF SessionTimer, rows
<1>5. x \in Sessions /\ x.timers = s.timers \ {t} /\ x.st = s.st /\ x.asked = s.asked /\ x.up = s.up
      /\ x.phase = s.phase /\ x.inFlight = s.inFlight /\ x.posOk = s.posOk
      /\ x.dataOk = s.dataOk /\ x.baseline = s.baseline
  BY <1>2 DEF Sessions, Cancel
<1>. HIDE DEF x
<1>6. Idled(s, x)
  BY <1>5 DEF Idled, Core, Reached
<1>7. \/ Idled(x, y)
      \/ t = "instRetry" /\ x.st = "LoadingInstruments" /\ Advanced(x, y)
      \/ Chained(x, y) /\ (t = "posRetry" \/ x.phase = "QueryAccount" \/ x.inFlight \/ x.st = "Ready")
  BY <1>5, TimerFires
<1>8. y \in Sessions
  BY <1>7 DEF Idled, Advanced, Chained
<1>9. s.st = "Ready" => y.st = "Ready"
  BY <1>5, <1>7 DEF Idled, Chained
<1>10. trigger' \in BOOLEAN
  BY <1>3, Zenon
<1>11. pushed' = pushed \/ pushed' = "Offline"
  BY <1>3 DEF write_account_status
<1>12. resync' \in BOOLEAN
  BY <1>1, <1>4 DEF TypeOK
<1>13. ASSUME ~crossed, ~(Behind(evq) /\ Called(x, y))
       PROVE  LoginInv(y, evq, TRUE, posRow, accRow)
  <2>1. LoginInv(s, evq, TRUE, posRow, accRow)
    <3>1. LoginInv(s, evq, sess, posRow, accRow) /\ sess \in BOOLEAN
      BY <1>1, <1>13 DEF TypeOK
    <3>. QED BY <1>1, <3>1
  <2>2. LoginInv(x, evq, TRUE, posRow, accRow)
    BY <1>2, <1>6, <2>1, IdleKeeps
  <2>3. CASE Idled(x, y)
    BY <1>2, <1>5, <2>2, <2>3, IdleKeeps
  <2>4. CASE t = "instRetry" /\ x.st = "LoadingInstruments" /\ Advanced(x, y)
    <3>1. Logging(s, evq)
      BY <1>1, <2>4 DEF Logging
    <3>2. ~Moved(s, evq, TRUE)
      BY <2>1, <3>1 DEF LoginInv, ChainAfterLogin
    <3>3. ~Moved(x, evq, TRUE)
      BY <1>5, <3>2 DEF Moved
    <3>4. ~Logging(x, evq)
      BY <1>1, <1>5, <2>1, <2>4 DEF LoginInv, OneToken, Logging
    <3>5. LinksLast(x, evq) /\ OnLink(x, evq) /\ (accRow => posRow)
      BY <2>2 DEF LoginInv, DataInv
    <3>. QED BY <1>2, <1>5, <1>13, <2>4, <3>3, <3>4, <3>5, AdvanceKeeps
  <2>5. CASE Chained(x, y) /\ (t = "posRetry" \/ x.phase = "QueryAccount" \/ x.inFlight \/ x.st = "Ready")
    <3>1. Moved(s, evq, TRUE) \/ s.st = "Ready"
      BY <1>1, <1>5, <2>5 DEF Moved
    <3>2. s.st \in InLogin /\ ~Logging(s, evq)
      BY <2>1, <3>1 DEF LoginInv, ChainAfterLogin, InLogin
    <3>3. ~Logging(x, evq)
      BY <1>5, <3>2 DEF Logging
    <3>4. Ran(x, y) /\ KeepsData(x, y)
      BY <1>5, <2>5, <3>2, ChainedRan
    <3>5. LinksLast(x, evq) /\ OnLink(x, evq) /\ OneToken(x, evq) /\ (accRow => posRow)
          /\ (x.st = "LoadingInstruments" => x.phase # "Done" /\ ~x.dataOk)
      BY <2>2 DEF LoginInv, DataInv
    <3>6. (y.posOk => y.baseline /\ posRow) /\ (y.dataOk => y.baseline /\ posRow)
      BY <2>2, <3>4 DEF KeepsData, LoginInv, DataInv
    <3>. QED BY <1>2, <1>5, <1>13, <3>3, <3>4, <3>5, <3>6, RunKeeps
  <2>. QED BY <1>7, <2>3, <2>4, <2>5
<1>. QED
  BY <1>1, <1>3, <1>4, <1>5, <1>8, <1>9, <1>10, <1>11, <1>12, <1>13, TimerKeeps

\* on_data_resync_timer.
LEMMA ResyncTimer ==
  ASSUME IInv, on_data_resync_timer
  PROVE  IInv'
<1>. DEFINE incomplete == sess /\ s.st = "Ready" /\ ~s.dataOk
<1>1. TypeOK /\ NoSession /\ ReadyIsReady /\ (~crossed => LoginInv(s, evq, sess, posRow, accRow))
  BY DEF IInv
<1>2. s \in Sessions /\ evq \in Seq(Events) /\ sess \in BOOLEAN /\ crossed \in BOOLEAN /\ Len(evq) <= MaxQueue
  BY <1>1 DEF TypeOK
<1>3. PICK y \in (IF incomplete THEN resync_account_data(s) ELSE {s}) : Settle(s, y, evq)
  BY DEF on_data_resync_timer
<1>4. resync' = incomplete /\ UNCHANGED <<cfg, sess, pushed, health, trigger, ctpDay, day, posRow, accRow>>
  BY DEF on_data_resync_timer, rows
<1>5. resync' \in BOOLEAN
  BY <1>4, Zenon
<1>6. trigger' \in BOOLEAN
  BY <1>1, <1>4 DEF TypeOK
<1>7. y = s \/ (sess /\ s.st = "Ready" /\ y.st = "Ready" /\ Ran(s, y) /\ KeepsData(s, y))
  BY <1>2, <1>3, ResyncAccountData
<1>8. y \in Sessions
  BY <1>2, <1>7 DEF Ran
<1>9. CASE sess
  <2>1. ASSUME ~crossed, ~(Behind(evq) /\ Called(s, y))
        PROVE  LoginInv(y, evq, TRUE, posRow, accRow)
    <3>1. LoginInv(s, evq, TRUE, posRow, accRow)
      <4>1. LoginInv(s, evq, sess, posRow, accRow)
        BY <1>1, <2>1
      <4>. QED BY <1>2, <1>9, <4>1
    <3>2. CASE s.st = "Ready" /\ Ran(s, y) /\ KeepsData(s, y)
      <4>1. ~Logging(s, evq)
        BY <3>1, <3>2 DEF LoginInv, ChainAfterLogin
      <4>2. LinksLast(s, evq) /\ OnLink(s, evq) /\ OneToken(s, evq) /\ (accRow => posRow)
            /\ (s.st = "LoadingInstruments" => s.phase # "Done" /\ ~s.dataOk)
        BY <3>1 DEF LoginInv, DataInv
      <4>3. (y.posOk => y.baseline /\ posRow) /\ (y.dataOk => y.baseline /\ posRow)
        BY <3>1, <3>2 DEF KeepsData, LoginInv, DataInv
      <4>. QED BY <1>2, <2>1, <3>2, <4>1, <4>2, <4>3, RunKeeps
    <3>. QED BY <1>7, <3>1, <3>2
  <2>2. s.st = "Ready" => y.st = "Ready"
    BY <1>7
  <2>3. UNCHANGED <<cfg, sess, health, ctpDay, day, posRow, accRow>> /\ pushed' = pushed
    BY <1>4
  <2>4. PICK x \in Sessions : x = s
    BY <1>2
  <2>5. Settle(x, y, evq)
    BY <1>3, <2>4
  <2>6. ~crossed /\ ~(Behind(evq) /\ Called(x, y)) => LoginInv(y, evq, TRUE, posRow, accRow)
    BY <2>1, <2>4
  <2>. QED
    BY <1>5, <1>6, <1>8, <1>9, <2>2, <2>3, <2>5, <2>6, TimerKeeps
<1>10. CASE ~sess
  <2>1. y = s /\ s = NewSession
    BY <1>1, <1>7, <1>10 DEF NoSession
  <2>2. s \in Sessions /\ ~s.inFlight /\ s.timers = {} /\ s.reasked = FALSE
    BY <2>1, NewSessionFields DEF NewSession
  <2>3. /\ s' = Settled(s) /\ s' \in Sessions /\ evq' = evq
        /\ crossed' \in BOOLEAN /\ (~crossed' => ~crossed)
    BY <1>2, <1>3, <2>1, <2>2, SettleStep
  <2>4. Settled(s) = s
    BY <2>2 DEF Settled, Sessions
  <2>5. TypeOK' /\ NoSession' /\ ReadyIsReady'
    BY <1>1, <1>4, <1>5, <2>3, <2>4 DEF TypeOK, NoSession, ReadyIsReady
  <2>6. s' = s
    BY <2>3, <2>4
  <2>. QED BY <1>1, <1>4, <2>3, <2>5, <2>6 DEF IInv
<1>. QED BY <1>2, <1>9, <1>10

\* connect_account_by_id.
LEMMA Connect ==
  ASSUME IInv, connect_account_by_id
  PROVE  IInv'
<1>1. TypeOK /\ (~crossed => LoginInv(s, evq, sess, posRow, accRow))
  BY DEF IInv
<1>2. s \in Sessions /\ evq \in Seq(Events) /\ Len(evq) <= MaxQueue /\ sess \in BOOLEAN /\ ~sess
  BY <1>1 DEF TypeOK, connect_account_by_id
<1>3. /\ sess' = TRUE /\ s' = open(NewSession) /\ evq' = Stale(evq) /\ pushed' = "LoggingIn"
      /\ UNCHANGED <<cfg, health, resync, trigger, ctpDay, day, posRow, accRow, crossed>>
  BY DEF connect_account_by_id, write_account_status, rows
<1>4. /\ s' \in Sessions /\ s'.st = "Connecting" /\ s'.asked = {} /\ s'.timers = {"connect"}
      /\ ~s'.up /\ ~s'.posOk /\ ~s'.dataOk /\ ~s'.inFlight /\ s'.phase = "QueryPosition"
  <2>1. open(NewSession) = [NewSession EXCEPT !.st = "Connecting", !.timers = {"connect"}]
    BY DEF open, on_connect, Move, Arm, NewSession
  <2>. QED BY <1>3, <2>1, ZenonT(60) DEF NewSession, Sessions, TdStates, Timers, Phases
<1>5. evq' \in Seq(Events) /\ Len(evq') = Len(evq) /\ \A i \in 1..Len(evq') : evq'[i].t # "pos"
  BY <1>2, <1>3, StaleQueue
<1>6. TypeOK' /\ NoSession' /\ ReadyIsReady'
  BY <1>1, <1>2, <1>3, <1>4, <1>5 DEF TypeOK, NoSession, ReadyIsReady
<1>7. ASSUME ~crossed' PROVE LoginInv(s', evq', sess', posRow', accRow')
  <2>1. LoginInv(s, Stale(evq), sess, posRow, accRow)
    BY <1>1, <1>2, <1>3, <1>7, StaleKeeps
  <2>2. LoginInv(s', evq', TRUE, posRow, accRow)
    BY <1>3, <1>4, <1>5, <2>1, FreshKeeps
  <2>. QED BY <1>3, <2>2
<1>. QED BY <1>6, <1>7 DEF IInv

\* disconnect_account_by_id.
LEMMA Disconnect ==
  ASSUME IInv, disconnect_account_by_id
  PROVE  IInv'
<1>1. TypeOK /\ (~crossed => LoginInv(s, evq, sess, posRow, accRow))
  BY DEF IInv
<1>2. evq \in Seq(Events)
  BY <1>1 DEF TypeOK
<1>3. /\ sess' = FALSE /\ s' = NewSession /\ pushed' = "Offline" /\ trigger' = FALSE
      /\ UNCHANGED <<cfg, evq, health, resync, ctpDay, day, posRow, accRow, crossed>>
  BY DEF disconnect_account_by_id, write_account_status, rows
<1>4. TypeOK' /\ NoSession' /\ ReadyIsReady'
  BY <1>1, <1>3, NewSessionFields DEF TypeOK, NoSession, ReadyIsReady
<1>5. ASSUME ~crossed' PROVE LoginInv(s', evq', sess', posRow', accRow')
  <2>1. LoginInv(s, evq, sess, posRow, accRow)
    BY <1>1, <1>3, <1>5
  <2>2. LoginInv(NewSession, evq, FALSE, posRow, accRow)
    BY <1>2, <2>1, NewSessionFields, FreshKeeps
  <2>. QED BY <1>3, <2>2
<1>. QED BY <1>4, <1>5 DEF IInv

\* report_full_snapshot and apply_config_change.
LEMMA Report ==
  ASSUME IInv, report_full_snapshot \/ apply_config_change
  PROVE  IInv'
<1>1. TypeOK /\ NoSession /\ ReadyIsReady /\ (~crossed => LoginInv(s, evq, sess, posRow, accRow))
  BY DEF IInv
<1>2. /\ UNCHANGED <<sess, s, evq, health, resync, trigger, ctpDay, day, posRow, accRow, crossed>>
      /\ cfg' \in {"enabled", "disabled", "removed"}
      /\ pushed' = AccountStateOf(s.st) \/ pushed' = pushed
  <2>1. CASE report_full_snapshot
    BY <1>1, <2>1 DEF report_full_snapshot, report_account_status_all, TypeOK, rows
  <2>2. CASE apply_config_change
    BY <1>1, <2>2 DEF apply_config_change, report_account_status_all, TypeOK, rows
  <2>. QED BY <2>1, <2>2
<1>3. s.st \in TdStates /\ s \in Sessions
  BY <1>1 DEF TypeOK, Sessions
<1>4. TypeOK'
  BY <1>1, <1>2, <1>3, StateOf DEF TypeOK
<1>5. NoSession' /\ ReadyIsReady'
  BY <1>1, <1>2, <1>3, StateOf, NewSessionFields DEF NoSession, ReadyIsReady
<1>6. ~crossed' => LoginInv(s', evq', sess', posRow', accRow')
  BY <1>1, <1>2
<1>. QED BY <1>4, <1>5, <1>6 DEF IInv

-----------------------------------------------------------------------------
(* CTP's callbacks.                                                        *)
\* What a callback appends to the queue.
LEMMA CallbackStep ==
  ASSUME IInv, NEW t \in Requests \cup Link, NEW ok \in BOOLEAN, NEW y \in Sessions,
         Callback(t, ok, y), ctpDay' \in 0..MaxDay, y.st = s.st
  PROVE  /\ TypeOK' /\ NoSession' /\ ReadyIsReady'
         /\ sess /\ s' = y /\ evq \in Seq(Events) /\ evq' \in Seq(Events)
         /\ Len(evq') = Len(evq) + 1 /\ Len(evq) \in Nat
         /\ evq'[Len(evq) + 1].t = t /\ \A i \in 1..Len(evq) : evq'[i] = evq[i]
         /\ UNCHANGED <<sess, posRow, accRow, crossed>>
<1>1. TypeOK /\ NoSession /\ ReadyIsReady
  BY DEF IInv
<1>. DEFINE e == [t |-> t, ok |-> ok, day |-> ctpDay']
<1>2. sess /\ Len(evq) < MaxQueue /\ evq' = Append(evq, e) /\ s' = y
      /\ UNCHANGED <<cfg, sess, pushed, health, resync, trigger, day, posRow, accRow, crossed>>
  BY DEF Callback, rows
<1>3. e \in Events /\ e.t = t
  BY DEF Events, Link
<1>. HIDE DEF e
<1>4. evq \in Seq(Events) /\ MaxQueue \in Nat /\ Len(evq) \in Nat
  BY <1>1, BoundsAssumption DEF TypeOK
<1>5. evq' \in Seq(Events) /\ Len(evq') = Len(evq) + 1 /\ evq'[Len(evq) + 1] = e
      /\ \A i \in 1..Len(evq) : evq'[i] = evq[i]
  BY <1>2, <1>3, <1>4
<1>6. Len(evq') <= MaxQueue
  BY <1>2, <1>4, <1>5
<1>7. TypeOK'
  BY <1>1, <1>2, <1>5, <1>6 DEF TypeOK
<1>8. NoSession' /\ ReadyIsReady'
  BY <1>1, <1>2 DEF NoSession, ReadyIsReady
<1>. QED BY <1>2, <1>3, <1>4, <1>5, <1>7, <1>8

\* The invariant over a queue z that is q and one event more, of kind t.
Longer(q, z, t) ==
  /\ Len(z) = Len(q) + 1 /\ Len(q) \in Nat
  /\ z[Len(q) + 1].t = t /\ \A i \in 1..Len(q) : z[i] = q[i]

\* An index of the longer queue is one of the shorter or the new one.
LEMMA LongerIndex ==
  ASSUME NEW q, NEW z, NEW t, Longer(q, z, t), NEW i \in 1..Len(z)
  PROVE  (i \in 1..Len(q) /\ z[i] = q[i]) \/ (i = Len(q) + 1 /\ z[i].t = t)
BY DEF Longer

\* OnFrontConnected queued: the link before it, if any, has its end queued.
LEMMA ConnKeeps ==
  ASSUME NEW x \in Sessions, NEW y \in Sessions, NEW q \in Seq(Events), NEW z \in Seq(Events),
         NEW pr, NEW ar, LoginInv(x, q, TRUE, pr, ar), Longer(q, z, "conn"), ~x.up,
         y = [x EXCEPT !.up = TRUE]
  PROVE  LoginInv(y, z, TRUE, pr, ar)
<1>1. y.up /\ y.asked = x.asked /\ y.timers = x.timers /\ y.st = x.st /\ y.phase = x.phase
      /\ y.inFlight = x.inFlight /\ y.posOk = x.posOk /\ y.dataOk = x.dataOk /\ y.baseline = x.baseline
  BY DEF Sessions
<1>2. Len(q) \in Nat /\ Len(z) = Len(q) + 1 /\ \A i \in 1..Len(z) :
        (i \in 1..Len(q) /\ z[i] = q[i]) \/ (i = Len(q) + 1 /\ z[i].t = "conn")
  BY LongerIndex DEF Longer
<1>3. z[Len(q) + 1].t = "conn" /\ Len(q) + 1 \in 1..Len(z) /\ \A i \in 1..Len(q) : i \in 1..Len(z) /\ z[i] = q[i]
  BY <1>2 DEF Longer
<1>4. x.asked = {}
  BY DEF LoginInv, LinksLast
<1>5. LinksLast(y, z)
  <2>1. ASSUME NEW i \in 1..Len(z), NEW j \in 1..Len(z), i < j, z[i].t \in Link PROVE z[j].t \in Link
    BY <1>2, <2>1 DEF LoginInv, LinksLast, Link
  <2>2. ASSUME NEW i \in 1..Len(z), z[i].t = "disc" PROVE \E k \in 1..Len(z) : k > i /\ z[k].t = "conn"
    <3>1. i \in 1..Len(q)
      BY <1>2, <2>2
    <3>. QED BY <1>2, <1>3, <3>1
  <2>. QED BY <1>1, <1>4, <2>1, <2>2 DEF LinksLast
<1>6. OnLink(y, z)
  <2>1. SUFFICES ASSUME Deep(y) PROVE OnLink(y, z)
    BY DEF OnLink
  <2>2. Deep(x)
    BY <1>1, <2>1 DEF Deep, Reached
  <2>3. PICK d \in 1..Len(q) : q[d].t = "disc"
    BY <2>2 DEF LoginInv, OnLink
  <2>4. ASSUME NEW j \in 1..Len(z), z[j].t = "conn"
        PROVE  \E i \in 1..Len(z) : i < j /\ z[i].t = "disc"
    <3>1. CASE j = Len(q) + 1
      BY <1>2, <1>3, <2>3, <3>1
    <3>2. CASE j \in 1..Len(q)
      <4>1. q[j].t = "conn"
        BY <1>3, <2>4, <3>2
      <4>2. PICK i \in 1..Len(q) : i < j /\ q[i].t = "disc"
        BY <2>2, <3>2, <4>1 DEF LoginInv, OnLink
      <4>. QED BY <1>3, <4>2
    <3>. QED BY <1>2, <3>1, <3>2
  <2>. QED BY <1>1, <2>4 DEF OnLink
<1>7. OneToken(y, z)
  <2>1. OneToken(x, q)
    BY DEF LoginInv
  <2>2. \A i \in 1..Len(z) : z[i].t \in Toks => i \in 1..Len(q) /\ q[i].t \in Toks
    BY <1>2 DEF Toks
  <2>. QED BY <1>1, <2>1, <2>2 DEF OneToken
<1>8. (Moved(y, z, TRUE) => Moved(x, q, TRUE)) /\ (Logging(y, z) => Logging(x, q))
  <2>1. \A i \in 1..Len(z) : z[i].t \in Toks \cup {"pos"} => i \in 1..Len(q) /\ z[i] = q[i]
    BY <1>2 DEF Toks
  <2>. QED BY <1>1, <2>1 DEF Moved, Logging
<1>9. ChainAfterLogin(y, z, TRUE) /\ DataInv(y, pr, ar)
  BY <1>1, <1>8 DEF LoginInv, ChainAfterLogin, DataInv
<1>. QED BY <1>5, <1>6, <1>7, <1>9 DEF LoginInv

\* OnFrontDisconnected queued: nothing asked on the link will be answered.
LEMMA DiscKeeps ==
  ASSUME NEW x \in Sessions, NEW y \in Sessions, NEW q \in Seq(Events), NEW z \in Seq(Events),
         NEW pr, NEW ar, LoginInv(x, q, TRUE, pr, ar), Longer(q, z, "disc"), x.up,
         y = [x EXCEPT !.up = FALSE, !.asked = {}]
  PROVE  LoginInv(y, z, TRUE, pr, ar)
<1>1. ~y.up /\ y.asked = {} /\ y.timers = x.timers /\ y.st = x.st /\ y.phase = x.phase
      /\ y.inFlight = x.inFlight /\ y.posOk = x.posOk /\ y.dataOk = x.dataOk /\ y.baseline = x.baseline
  BY DEF Sessions
<1>2. Len(q) \in Nat /\ Len(z) = Len(q) + 1 /\ \A i \in 1..Len(z) :
        (i \in 1..Len(q) /\ z[i] = q[i]) \/ (i = Len(q) + 1 /\ z[i].t = "disc")
  BY LongerIndex DEF Longer
<1>3. z[Len(q) + 1].t = "disc" /\ Len(q) + 1 \in 1..Len(z) /\ \A i \in 1..Len(q) : i \in 1..Len(z) /\ z[i] = q[i]
  BY <1>2 DEF Longer
<1>5. LinksLast(y, z)
  <2>1. ASSUME NEW i \in 1..Len(z), NEW j \in 1..Len(z), i < j, z[i].t \in Link PROVE z[j].t \in Link
    BY <1>2, <2>1 DEF LoginInv, LinksLast, Link
  <2>. QED BY <1>1, <2>1 DEF LinksLast
<1>6. OnLink(y, z)
  <2>1. SUFFICES ASSUME Deep(y) PROVE OnLink(y, z)
    BY DEF OnLink
  <2>2. Deep(x)
    BY <1>1, <2>1 DEF Deep, Reached
  <2>4. ASSUME NEW j \in 1..Len(z), z[j].t = "conn"
        PROVE  \E i \in 1..Len(z) : i < j /\ z[i].t = "disc"
    <3>1. j \in 1..Len(q) /\ q[j].t = "conn"
      BY <1>2, <2>4
    <3>2. PICK i \in 1..Len(q) : i < j /\ q[i].t = "disc"
      BY <2>2, <3>1 DEF LoginInv, OnLink
    <3>. QED BY <1>3, <3>2
  <2>. QED BY <1>3, <2>4 DEF OnLink
<1>7. OneToken(y, z)
  <2>1. OneToken(x, q)
    BY DEF LoginInv
  <2>2. \A i \in 1..Len(z) : z[i].t \in Toks => i \in 1..Len(q) /\ q[i].t \in Toks
    BY <1>2 DEF Toks
  <2>. QED BY <1>1, <2>1, <2>2 DEF OneToken
<1>8. (Moved(y, z, TRUE) => Moved(x, q, TRUE)) /\ (Logging(y, z) => Logging(x, q))
  <2>1. \A i \in 1..Len(z) : z[i].t \in Toks \cup {"pos"} => i \in 1..Len(q) /\ z[i] = q[i]
    BY <1>2 DEF Toks
  <2>. QED BY <1>1, <2>1 DEF Moved, Logging
<1>9. ChainAfterLogin(y, z, TRUE) /\ DataInv(y, pr, ar)
  BY <1>1, <1>8 DEF LoginInv, ChainAfterLogin, DataInv
<1>. QED BY <1>5, <1>6, <1>7, <1>9 DEF LoginInv

\* An answer queued: what was asked is now to be handled.
LEMMA RspKeeps ==
  ASSUME NEW x \in Sessions, NEW y \in Sessions, NEW q \in Seq(Events), NEW z \in Seq(Events),
         NEW pr, NEW ar, LoginInv(x, q, TRUE, pr, ar), NEW r \in x.asked, Longer(q, z, r),
         y = [x EXCEPT !.asked = @ \ {r}]
  PROVE  LoginInv(y, z, TRUE, pr, ar)
<1>1. y.up = x.up /\ y.asked = x.asked \ {r} /\ y.timers = x.timers /\ y.st = x.st /\ y.phase = x.phase
      /\ y.inFlight = x.inFlight /\ y.posOk = x.posOk /\ y.dataOk = x.dataOk /\ y.baseline = x.baseline
  BY DEF Sessions
<1>2. Len(q) \in Nat /\ Len(z) = Len(q) + 1 /\ \A i \in 1..Len(z) :
        (i \in 1..Len(q) /\ z[i] = q[i]) \/ (i = Len(q) + 1 /\ z[i].t = r)
  BY LongerIndex DEF Longer
<1>3. r \in Requests /\ r \notin Link
  BY DEF Sessions, Requests, Link
<1>4. x.up /\ \A i \in 1..Len(q) : q[i].t \notin Link
  BY DEF LoginInv, LinksLast
<1>5. \A i \in 1..Len(z) : z[i].t \notin Link
  BY <1>2, <1>3, <1>4
<1>6. LinksLast(y, z) /\ OnLink(y, z)
  BY <1>1, <1>4, <1>5 DEF LinksLast, OnLink, Link
<1>7. OneToken(y, z)
  <2>1. OneToken(x, q)
    BY DEF LoginInv
  <2>2. \A i \in 1..Len(z) : z[i].t \in Toks =>
          (i \in 1..Len(q) /\ q[i].t \in Toks) \/ (i = Len(q) + 1 /\ r \in Toks)
    BY <1>2
  <2>3. r \in Toks => /\ \A i \in 1..Len(q) : q[i].t \notin Toks
                      /\ y.asked \cap Toks = {} /\ "instRetry" \notin x.timers
    BY <1>1, <2>1 DEF OneToken
  <2>. QED BY <1>1, <2>1, <2>2, <2>3 DEF OneToken
<1>8. (Moved(y, z, TRUE) => Moved(x, q, TRUE)) /\ (Logging(y, z) => Logging(x, q))
  <2>1. \A i \in 1..Len(z) : (i \in 1..Len(q) /\ z[i] = q[i]) \/ z[i].t = r
    BY <1>2
  <2>2. Moved(y, z, TRUE) => Moved(x, q, TRUE)
    BY <1>1, <2>1 DEF Moved
  <2>3. Logging(y, z) => Logging(x, q)
    BY <1>1, <2>1 DEF Logging
  <2>. QED BY <2>2, <2>3
<1>9. ChainAfterLogin(y, z, TRUE) /\ DataInv(y, pr, ar)
  BY <1>1, <1>8 DEF LoginInv, ChainAfterLogin, DataInv
<1>. QED BY <1>6, <1>7, <1>9 DEF LoginInv

\* CTP's callbacks keep the invariant.
LEMMA Ctp ==
  ASSUME IInv, OnFrontConnected \/ OnFrontDisconnected \/ OnRsp
  PROVE  IInv'
<1>1. TypeOK /\ (~crossed => LoginInv(s, evq, sess, posRow, accRow))
  BY DEF IInv
<1>2. s \in Sessions /\ sess \in BOOLEAN /\ ctpDay \in 0..MaxDay /\ MaxDay \in Nat
  BY <1>1, BoundsAssumption DEF TypeOK
<1>3. ASSUME NEW t \in Requests \cup Link, NEW ok \in BOOLEAN, NEW x \in Sessions, NEW y \in Sessions, x = s,
             Callback(t, ok, y), ctpDay' \in 0..MaxDay, y.st = s.st,
             \A q, z \in Seq(Events) : \A pr, ar : Longer(q, z, t) /\ LoginInv(x, q, TRUE, pr, ar)
                => LoginInv(y, z, TRUE, pr, ar)
      PROVE  IInv'
  <2>1. /\ TypeOK' /\ NoSession' /\ ReadyIsReady'
        /\ sess /\ s' = y /\ evq \in Seq(Events) /\ evq' \in Seq(Events)
        /\ Len(evq') = Len(evq) + 1 /\ Len(evq) \in Nat
        /\ evq'[Len(evq) + 1].t = t /\ \A i \in 1..Len(evq) : evq'[i] = evq[i]
        /\ UNCHANGED <<sess, posRow, accRow, crossed>>
    BY <1>3, CallbackStep
  <2>2. Longer(evq, evq', t)
    BY <2>1 DEF Longer
  <2>3. ASSUME ~crossed' PROVE LoginInv(s', evq', sess', posRow', accRow')
    <3>1. LoginInv(s, evq, sess, posRow, accRow)
      BY <1>1, <2>1, <2>3
    <3>2. LoginInv(x, evq, TRUE, posRow, accRow)
      BY <1>2, <1>3, <2>1, <3>1
    <3>3. LoginInv(y, evq', TRUE, posRow, accRow)
      BY <1>3, <2>1, <2>2, <3>2
    <3>. QED BY <1>2, <2>1, <3>3
  <2>. QED BY <2>1, <2>3 DEF IInv
<1>4. PICK x \in Sessions : x = s
  BY <1>2
<1>5. CASE OnFrontConnected
  <2>1. PICK y : y = [x EXCEPT !.up = TRUE]
    OBVIOUS
  <2>2. ~x.up /\ ctpDay' \in 0..MaxDay /\ Callback("conn", TRUE, y)
    <3>1. ~s.up /\ ctpDay' \in {ctpDay, ctpDay + 1} /\ ctpDay' <= MaxDay
      BY <1>5 DEF OnFrontConnected
    <3>2. ctpDay' \in 0..MaxDay
      BY <1>2, <3>1
    <3>3. Callback("conn", TRUE, [s EXCEPT !.up = TRUE])
      BY <1>5 DEF OnFrontConnected
    <3>4. y = [s EXCEPT !.up = TRUE]
      BY <1>4, <2>1
    <3>. QED BY <1>4, <3>1, <3>2, <3>3, <3>4
  <2>3. y \in Sessions /\ y.st = s.st
    BY <1>4, <2>1 DEF Sessions
  <2>4. \A q, z \in Seq(Events) : \A pr, ar : Longer(q, z, "conn") /\ LoginInv(x, q, TRUE, pr, ar)
           => LoginInv(y, z, TRUE, pr, ar)
    BY <2>1, <2>2, <2>3, ConnKeeps
  <2>. QED BY <1>3, <1>4, <2>2, <2>3, <2>4 DEF Link
<1>6. CASE OnFrontDisconnected
  <2>1. PICK y : y = [x EXCEPT !.up = FALSE, !.asked = {}]
    OBVIOUS
  <2>2. x.up /\ ctpDay' \in 0..MaxDay /\ Callback("disc", TRUE, y)
    BY <1>2, <1>4, <1>6, <2>1 DEF OnFrontDisconnected
  <2>3. y \in Sessions /\ y.st = s.st
    BY <1>4, <2>1 DEF Sessions
  <2>4. \A q, z \in Seq(Events) : \A pr, ar : Longer(q, z, "disc") /\ LoginInv(x, q, TRUE, pr, ar)
           => LoginInv(y, z, TRUE, pr, ar)
    BY <2>1, <2>2, <2>3, DiscKeeps
  <2>. QED BY <1>3, <1>4, <2>2, <2>3, <2>4 DEF Link
<1>7. CASE OnRsp
  <2>1. PICK r \in x.asked, ok \in BOOLEAN :
          UNCHANGED ctpDay /\ Callback(r, ok, [x EXCEPT !.asked = @ \ {r}])
    BY <1>4, <1>7 DEF OnRsp
  <2>2. PICK y : y = [x EXCEPT !.asked = @ \ {r}]
    OBVIOUS
  <2>3. ctpDay' \in 0..MaxDay /\ Callback(r, ok, y) /\ r \in Requests
    BY <1>2, <2>1, <2>2 DEF Sessions
  <2>4. y \in Sessions /\ y.st = s.st
    BY <1>4, <2>2 DEF Sessions
  <2>5. \A q, z \in Seq(Events) : \A pr, ar : Longer(q, z, r) /\ LoginInv(x, q, TRUE, pr, ar)
           => LoginInv(y, z, TRUE, pr, ar)
    BY <2>2, <2>4, RspKeeps
  <2>. QED BY <1>3, <1>4, <2>3, <2>4, <2>5
<1>. QED BY <1>5, <1>6, <1>7

-----------------------------------------------------------------------------
\* A stuttering step keeps it.
LEMMA StutterInv ==
  ASSUME IInv, UNCHANGED vars
  PROVE  IInv'
<1>1. UNCHANGED <<cfg, sess, s, evq, pushed, health, resync, trigger, ctpDay, day, posRow, accRow, crossed>>
  BY DEF vars, rows
<1>2. TypeOK' /\ NoSession' /\ ReadyIsReady'
  BY <1>1 DEF IInv, TypeOK, NoSession, ReadyIsReady
<1>3. ~crossed' => LoginInv(s', evq', sess', posRow', accRow')
  BY <1>1 DEF IInv
<1>. QED BY <1>2, <1>3 DEF IInv

\* The inductive invariant of the session, its queue and its rows.
THEOREM Invariance == Spec => []IInv
<1>1. IInv /\ [Next]_vars => IInv'
  <2>. SUFFICES ASSUME IInv, [Next]_vars PROVE IInv'
    OBVIOUS
  <2>1. CASE process_event
    BY <2>1, ProcessEvent
  <2>2. ASSUME NEW t \in Timers, SessionTimer(t) PROVE IInv'
    BY <2>2, Timer
  <2>3. CASE on_data_resync_timer
    BY <2>3, ResyncTimer
  <2>4. CASE connect_account_by_id
    BY <2>4, Connect
  <2>5. CASE disconnect_account_by_id
    BY <2>5, Disconnect
  <2>6. CASE report_full_snapshot \/ apply_config_change
    BY <2>6, Report
  <2>7. CASE OnFrontConnected \/ OnFrontDisconnected \/ OnRsp
    BY <2>7, Ctp
  <2>8. CASE UNCHANGED vars
    BY <2>8, StutterInv
  <2>. QED
    BY <2>1, <2>2, <2>3, <2>4, <2>5, <2>6, <2>7, <2>8 DEF Next
<1>. QED
  BY <1>1, InitInv, PTL DEF Spec

\* td_account_session.cpp: the flags of a login are that login's and no account row is
\* in the database without the positions of its day, however long the queue of CTP's
\* callbacks grows.
THEOREM StructureCorrect == Spec => []StructureOK
<1>1. IInv => StructureOK
  <2>1. ASSUME IInv PROVE TypeOK
    BY <2>1 DEF IInv
  <2>2. ASSUME IInv, ~crossed PROVE ChainIsThisLogins /\ AccountRowNeedsPositions
    <3>1. DataInv(s, posRow, accRow) /\ s.phase \in Phases
      BY <2>2 DEF IInv, LoginInv, TypeOK, Sessions
    <3>. QED BY <3>1 DEF DataInv, ChainIsThisLogins, AccountRowNeedsPositions, Phases
  <2>. QED BY <2>1, <2>2 DEF StructureOK
<1>. QED BY <1>1, Invariance, PTL

\* td_api.cpp, the callers of write_account_status: no consumer takes the account for
\* Ready when it is not, stale callbacks of earlier sessions included.
THEOREM ReadyIsTrue == Spec => []ReadyIsReady
<1>1. IInv => ReadyIsReady
  BY DEF IInv
<1>. QED BY <1>1, Invariance, PTL
=============================================================================
