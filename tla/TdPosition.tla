----------------------------- MODULE TdPosition -----------------------------
(***************************************************************************)
(* The positions of an account in the td gateway (td_position.cpp and the  *)
(* handlers of td_account_session.cpp that drive it): trade reports move a *)
(* holding, working closing orders freeze it, and a query of the counter,  *)
(* repeated on a timer, overwrites it.                                     *)
(*                                                                         *)
(* One instrument and its long side: a short side is the same code with    *)
(* the directions exchanged and shares nothing with it.  Prices are left   *)
(* out.  The counter (CTP) is external.  It reports orders and trades in   *)
(* the order in which they happen; the answer of a query is a snapshot     *)
(* that travels apart from the reports and may overtake them or be         *)
(* overtaken.  TdSession models the login, TdSync the reports' way to the  *)
(* strategies; here the login's own query succeeds and reports that the    *)
(* connection lost are repeated after the next login.                      *)
(***************************************************************************)
EXTENDS Integers, Sequences, SequencesExt

CONSTANTS
    Orders,      \* closing orders of the day
    Volumes,     \* their volumes
    exchange,    \* "SHFE" (and INE) or another: what a plain close closes
    InitToday, InitYd,
    MaxOpens,    \* bound: opening trades
    MaxDrops,    \* bound: connections lost
    MaxFails     \* bound: queries that fail or are never answered

Effects == {"close", "close_today", "close_yd"}

ASSUME PositionAssumption ==
    /\ IsFiniteSet(Orders)
    /\ Volumes \subseteq Nat \ {0}
    /\ {InitToday, InitYd, MaxOpens, MaxDrops, MaxFails} \subseteq Nat

VARIABLES
    held,      \* the counter's holding: today and yd; history: trades so far
    book,      \* its orders: effect, volume, volume traded, status
    reports,   \* reports that the session has not taken in
    query,     \* none, asked, answered, failed, lost
    snapshot,  \* the holding of the last answer
    st,        \* down, loading, ready
    ready,     \* position_baseline_ready_
    in_flight, \* position_query_in_flight_
    side,      \* PositionSide: today, yd, frozen_td, frozen_yd
    active,    \* active_orders_
    known,     \* report_filter_: the last report of every order
    buffered,  \* how many of the reports wait for the end of the login
    seen,      \* history: the counter's holding at the last report taken in
    raced,     \* history: the snapshot in use was not where the reports were
    pushed,    \* the last position frame
    row,       \* the row of the trade database, or NoRow
    opens, drops, fails

counter == <<held, book, opens>>
session == <<st, ready, in_flight, side, active, known, buffered, seen, raced, pushed, row>>
positionVars == <<counter, reports, query, snapshot, session, drops, fails>>

----------------------------------------------------------------------------
(* PositionHolding. *)

Flat == [today |-> 0, yd |-> 0, frozen_td |-> 0, frozen_yd |-> 0]

NoRow == [today |-> -1]

is_terminal(o) == o.status = "done"

Remaining(orders, effects) ==
    MapThenSumSet(LAMBDA i : Max({0, orders[i].volume - orders[i].traded}),
                  {i \in DOMAIN orders : orders[i].effect \in effects})

(* What the working closing orders freeze; a plain close takes today's first.
   Never more than there is. *)
recompute_frozen(s, orders) ==
    LET generic == Remaining(orders, {"close"})
        td      == Remaining(orders, {"close_today"})
        yd      == Remaining(orders, {"close_yd"})
        take_td == Min({generic, Max({0, s.today - td})})
        take_yd == Min({generic - take_td, Max({0, s.yd - yd})})
    IN  [s EXCEPT !.frozen_td = Min({td + take_td, s.today}),
                  !.frozen_yd = Min({yd + take_yd, s.yd})]

close_side(s, effect, n) ==
    LET plain == effect = "close" /\ exchange # "SHFE"
        today == IF plain \/ effect = "close_today" THEN s.today - n ELSE s.today
        spill == IF plain /\ today < 0 THEN today ELSE 0
        yd    == IF ~plain /\ effect # "close_today" THEN s.yd - n ELSE s.yd + spill
    IN  [s EXCEPT !.today = Max({0, today}), !.yd = Max({0, yd})]

MoveBy(s, t) ==
    IF t.effect = "open" THEN [s EXCEPT !.today = @ + t.volume]
    ELSE close_side(s, t.effect, t.volume)

(* The plausible bug: the frozen volume waits for the order's own report. *)
TradeKeepsFrozen(s, orders, t) == MoveBy(s, t)

apply_trade(s, orders, t) == recompute_frozen(MoveBy(s, t), orders)

Updated(orders, new) ==
    [i \in DOMAIN orders \cup DOMAIN new |-> IF i \in DOMAIN new THEN new[i] ELSE orders[i]]

(* New states of orders; one that is done freezes nothing. *)
apply_orders(orders, new) ==
    LET all == Updated(orders, new)
    IN  [i \in {j \in DOMAIN all : ~(j \in DOMAIN new /\ is_terminal(all[j]))} |-> all[i]]

(* The counter says how much is held and how much of it since yesterday. *)
apply_query_side(s, orders, volume, yd) ==
    LET y == Max({0, Min({yd, volume})})
    IN  recompute_frozen([s EXCEPT !.today = volume - y, !.yd = y], orders)

rebuild_active_orders(orders) ==
    [i \in {j \in DOMAIN orders : ~is_terminal(orders[j])} |-> orders[i]]

Held(s) == [today |-> s.today, yd |-> s.yd]

Volume(s) == s.today + s.yd

----------------------------------------------------------------------------
(* The counter. *)

NoOrder == [effect |-> "close", volume |-> 0, traded |-> 0, status |-> "none"]

Working == {i \in Orders : book[i].status = "working"}

CtpFrozen(effects) == Remaining([i \in Working |-> book[i]], effects)

(* Orders that close yesterday's holding only. *)
OnlyYd(effect) == effect = "close_yd" \/ (effect = "close" /\ exchange = "SHFE")

(* What is free to be closed with an effect: a counter never lets more be
   closed than is held, of today's or of yesterday's where the order says. *)
CtpFree(effect) ==
    LET total == Volume(held) - CtpFrozen(Effects)
        today == held.today - CtpFrozen({"close_today"})
        yd    == held.yd - CtpFrozen({e \in Effects : OnlyYd(e)})
    IN  CASE effect = "close_today" -> Min({total, today})
          [] OnlyYd(effect) -> Min({total, yd})
          [] OTHER -> total

CtpClosed(effect, n) ==
    CASE effect = "close_today" -> [held EXCEPT !.today = @ - n, !.trades = @ + 1]
      [] OnlyYd(effect) -> [held EXCEPT !.yd = @ - n, !.trades = @ + 1]
      [] OTHER -> [today |-> Max({0, held.today - n}),
                   yd |-> held.yd - Max({0, n - held.today}),
                   trades |-> held.trades + 1]

(* What an order takes is there. *)
CtpHolds(effect, n) ==
    CASE effect = "close_today" -> n <= held.today
      [] OnlyYd(effect) -> n <= held.yd
      [] OTHER -> n <= Volume(held)

(* A report; history: the counter's holding at that moment. *)
OrderReport(i, o, at) == [kind |-> "order", id |-> i, order |-> o, at |-> at]
TradeReport(effect, n, at) == [kind |-> "trade", effect |-> effect, volume |-> n, at |-> at]

(* It accepts a closing order of the strategy or of another terminal. *)
Accept(i, effect, n) ==
    LET o == [effect |-> effect, volume |-> n, traded |-> 0, status |-> "working"]
    IN  /\ book[i] = NoOrder
        /\ n <= CtpFree(effect)
        /\ book' = [book EXCEPT ![i] = o]
        /\ reports' = Append(reports, OrderReport(i, o, held))
        /\ UNCHANGED <<held, opens, query, snapshot, session, drops, fails>>

(* One lot of it trades; which of the two reports comes first is not fixed. *)
Match(i) ==
    LET o    == book[i]
        done == o.traded + 1 = o.volume
        next == [o EXCEPT !.traded = @ + 1, !.status = IF done THEN "done" ELSE "working"]
    IN  /\ i \in Working
        /\ CtpHolds(o.effect, 1)
        /\ held' = CtpClosed(o.effect, 1)
        /\ book' = [book EXCEPT ![i] = next]
        /\ \/ reports' = reports \o <<TradeReport(o.effect, 1, held'), OrderReport(i, next, held')>>
           \/ reports' = reports \o <<OrderReport(i, next, held), TradeReport(o.effect, 1, held')>>
        /\ UNCHANGED <<opens, query, snapshot, session, drops, fails>>

Cancel(i) ==
    LET next == [book[i] EXCEPT !.status = "done"]
    IN  /\ i \in Working
        /\ book' = [book EXCEPT ![i] = next]
        /\ reports' = Append(reports, OrderReport(i, next, held))
        /\ UNCHANGED <<held, opens, query, snapshot, session, drops, fails>>

OpenTrade ==
    /\ opens < MaxOpens
    /\ opens' = opens + 1
    /\ held' = [held EXCEPT !.today = @ + 1, !.trades = @ + 1]
    /\ reports' = Append(reports, TradeReport("open", 1, held'))
    /\ UNCHANGED <<book, query, snapshot, session, drops, fails>>

(* It answers a query with what it holds at this moment. *)
Answer ==
    /\ query = "asked"
    /\ query' = "answered"
    /\ snapshot' = held
    /\ UNCHANGED <<counter, reports, session, drops, fails>>

(* Or with an error, or not at all. *)
AnswerFails ==
    /\ query = "asked" /\ st = "ready"
    /\ fails < MaxFails /\ fails' = fails + 1
    /\ query' \in {"failed", "lost"}
    /\ UNCHANGED <<counter, reports, snapshot, session, drops>>

----------------------------------------------------------------------------
(* The session. *)

(* A changed side is pushed, and the frame persisted. *)
push_position(holding) ==
    \E next \in {holding} :
        /\ side' = next
        /\ pushed' = IF next = side THEN pushed ELSE next
        /\ row' = IF next = side THEN row ELSE next

(* What a report says of its order; the report filter remembers it. *)
Latest(r) == [i \in {r.id} |-> r.order]

on_rtn_order(r) ==
    /\ known' = Updated(known, Latest(r))
    /\ IF ready
       THEN \E orders \in {apply_orders(active, Latest(r))} :
               /\ active' = orders
               /\ push_position(recompute_frozen(side, orders))
       ELSE UNCHANGED <<active, side, pushed, row>>

on_rtn_trade(r) ==
    /\ IF ready THEN push_position(apply_trade(side, active, r))
       ELSE UNCHANGED <<side, pushed, row>>
    /\ UNCHANGED <<active, known>>

(* A report during the login is buffered. *)
Deliver ==
    /\ buffered < Len(reports) /\ st # "down"
    /\ IF st = "loading"
       THEN /\ buffered' = buffered + 1
            /\ UNCHANGED <<reports, side, active, known, seen, pushed, row>>
       ELSE /\ UNCHANGED buffered
            /\ reports' = Tail(reports)
            /\ seen' = Head(reports).at
            /\ IF Head(reports).kind = "order" THEN on_rtn_order(Head(reports))
               ELSE on_rtn_trade(Head(reports))
    /\ UNCHANGED <<counter, query, snapshot, st, ready, in_flight, raced, drops, fails>>

(* The query is complete: it replaces the holding, the working orders freeze
   it again, and the day's rows are replaced when anything has changed. *)
apply_position_query ==
    \E absolute \in {apply_query_side(side, active, Volume(snapshot), snapshot.yd)},
      orders \in {rebuild_active_orders(known)} :
    \E next \in {recompute_frozen(absolute, orders)} :
        /\ active' = orders
        /\ side' = next
        /\ pushed' = IF next = side /\ absolute = side THEN pushed ELSE next
        /\ row' = CASE ~ready \/ absolute # side ->
                          IF Volume(snapshot) = 0 THEN NoRow ELSE next
                    [] ready /\ absolute = side /\ next # side -> next
                    [] OTHER -> row
        /\ ready' = TRUE

on_rsp_qry_investor_position ==
    /\ query \in {"answered", "failed"}
    /\ query' = "none"
    /\ in_flight' = FALSE
    /\ IF query = "answered"
       THEN /\ apply_position_query
            /\ raced' = (snapshot.trades # seen.trades)
       ELSE UNCHANGED <<active, side, pushed, row, ready, raced>>
    /\ UNCHANGED <<counter, reports, snapshot, st, known, buffered, seen, drops, fails>>

(* The login asks for the positions first. *)
start_login ==
    /\ st = "down"
    /\ st' = "loading"
    /\ query' = "asked" /\ in_flight' = TRUE
    /\ UNCHANGED <<counter, reports, snapshot, ready, side, active, known, buffered, seen, raced,
                   pushed, row, drops, fails>>

(* The buffered reports of an order; the last one counts. *)
BufferedOf(i) == {k \in 1..buffered : reports[k].kind = "order" /\ reports[k].id = i}

BufferedOrders ==
    [i \in {j \in Orders : BufferedOf(j) # {}} |-> reports[Max(BufferedOf(i))].order]

(* The end of the login: buffered orders, then buffered trades, whose volume is
   taken to be in the snapshot. *)
replay_buffered_reports ==
    /\ st = "loading" /\ ready
    /\ st' = "ready"
    /\ known' = Updated(known, BufferedOrders)
    /\ \E orders \in {apply_orders(active, BufferedOrders)} :
          /\ active' = orders
          /\ push_position(recompute_frozen(side, orders))
    /\ seen' = IF buffered = 0 THEN seen ELSE reports[buffered].at
    /\ raced' = (snapshot.trades # seen'.trades)
    /\ reports' = SubSeq(reports, buffered + 1, Len(reports)) /\ buffered' = 0
    /\ UNCHANGED <<counter, query, snapshot, ready, in_flight, drops, fails>>

on_position_poll_timer ==
    /\ st = "ready" /\ ready /\ ~in_flight
    /\ query' = "asked" /\ in_flight' = TRUE
    /\ UNCHANGED <<counter, reports, snapshot, st, ready, side, active, known, buffered, seen,
                   raced, pushed, row, drops, fails>>


(* 90 seconds without an answer: another query may be sent, and the answer of
   this one is still welcome until it is. *)
QueryTimeout ==
    /\ st = "ready" /\ in_flight /\ query \in {"asked", "answered", "lost"}
    /\ in_flight' = FALSE
    /\ UNCHANGED <<counter, reports, query, snapshot, st, ready, side, active, known, buffered,
                   seen, raced, pushed, row, drops, fails>>

(* The reports the session has not taken in are repeated after the next login. *)
on_front_disconnected ==
    /\ st # "down" /\ drops < MaxDrops
    /\ drops' = drops + 1
    /\ st' = "down" /\ ready' = FALSE /\ in_flight' = FALSE
    /\ query' = "none"
    /\ side' = Flat /\ active' = <<>>
    /\ buffered' = 0
    /\ UNCHANGED <<counter, reports, snapshot, known, seen, raced, pushed, row, fails>>

PositionInit ==
    /\ held = [today |-> InitToday, yd |-> InitYd, trades |-> 0]
    /\ book = [i \in Orders |-> NoOrder]
    /\ reports = <<>> /\ opens = 0
    /\ query = "none" /\ snapshot = held
    /\ st = "down" /\ ready = FALSE /\ in_flight = FALSE
    /\ side = Flat /\ active = <<>> /\ known = <<>> /\ buffered = 0
    /\ seen = held /\ raced = FALSE /\ pushed = Flat /\ row = NoRow
    /\ drops = 0 /\ fails = 0

PositionNext ==
    \/ \E i \in Orders : (\E e \in Effects, n \in Volumes : Accept(i, e, n)) \/ Match(i) \/ Cancel(i)
    \/ OpenTrade
    \/ Answer
    \/ AnswerFails
    \/ Deliver
    \/ on_rsp_qry_investor_position
    \/ start_login
    \/ replay_buffered_reports
    \/ on_position_poll_timer
    \/ QueryTimeout
    \/ on_front_disconnected

PositionSpec == PositionInit /\ [][PositionNext]_positionVars

(* Timers fire, the event queue is read and the counter answers; nobody is
   bound to trade. *)
PositionFairness ==
    /\ WF_positionVars(Answer) /\ WF_positionVars(Deliver)
    /\ SF_positionVars(on_rsp_qry_investor_position)
    /\ WF_positionVars(start_login) /\ WF_positionVars(replay_buffered_reports)
    /\ WF_positionVars(on_position_poll_timer) /\ WF_positionVars(QueryTimeout)

PositionFairSpec == PositionSpec /\ PositionFairness

----------------------------------------------------------------------------
(* Properties. *)

SideType == [today : Nat, yd : Nat, frozen_td : Nat, frozen_yd : Nat]

HeldType == [today : Nat, yd : Nat, trades : Nat]

PositionTypeOK ==
    /\ held \in HeldType /\ snapshot \in HeldType /\ seen \in HeldType
    /\ query \in {"none", "asked", "answered", "failed", "lost"}
    /\ st \in {"down", "loading", "ready"}
    /\ ready \in BOOLEAN /\ in_flight \in BOOLEAN /\ raced \in BOOLEAN
    /\ side \in SideType /\ pushed \in SideType
    /\ row = NoRow \/ row \in SideType
    /\ DOMAIN active \subseteq Orders /\ DOMAIN known \subseteq Orders

(* td_account_session.cpp on_rtn_trade, apply_position_query: as long as the
   snapshot it started from and the reports it has taken in end at the same
   trade, a holding is what the counter held right after the last report taken
   in: nothing is counted twice and none is left out, whatever the order in which
   orders, trades and answers arrive.  And it never freezes more than it holds. *)
NoDrift ==
    /\ PositionTypeOK
    /\ st = "ready" /\ ~raced => Held(side) = Held(seen)
    /\ reports = <<>> => seen = held
    /\ side.frozen_td <= side.today /\ side.frozen_yd <= side.yd

(* td_account_session.cpp push_position, apply_position_query: the last frame
   the readers got is the holding, and the row of the database is it too, or
   gone with the holding.  After a reconnect this is said of a holding that
   still exists only. *)
FramesFollowHolding ==
    ready =>
        /\ drops = 0 \/ Held(side) # Held(Flat) => pushed = side
        /\ row = side \/ (row = NoRow /\ Held(side) = Held(Flat))

(* The session's holding, the readers' and the database's are the same one. *)
HoldingsAgree == NoDrift /\ FramesFollowHolding

=============================================================================
