------------------------------ MODULE TdSync ------------------------------
(***************************************************************************)
(* How the reports of one account reach the database and a strategy, on    *)
(* one trading day: the CTP trade gateway (AccountSession with its         *)
(* ReportFilter, OrderRefMap and average tracker, the day load at login,   *)
(* TdApi's rejections), the queue of the persistence writer and one        *)
(* strategy behind the SDK (SdkIngest).                                    *)
(*                                                                         *)
(* CTP keeps the day's private stream and replays all of it after every    *)
(* login.  TdSession has the login in detail; here it is four steps:       *)
(* connecting, logged in (reports are handled), loading (reports are       *)
(* buffered) and the flush barrier before Ready.  The queue of callbacks   *)
(* is left out: it keeps their order.  Orders open one position, so the    *)
(* position changes with trades and queries only.                          *)
(***************************************************************************)
EXTENDS SdkIngest

CONSTANTS
  Own,          \* orders the strategy will place: their OrderRef and order_id
  External,     \* OrderRefs of orders placed at another terminal
  MaxVer,       \* reports of one order
  MaxTrades,    \* trades of the day
  MaxLogins, MaxStarts,
  MaxFaults,    \* lost links, closed sessions, crashes, vanished positions
  MaxChannel,   \* unread frames
  Backlog,      \* a login, a crash or a rejection without a session may find
                \* rows that the writer has not committed
  EarlyOrders   \* the strategy may order before the session's first login

ASSUME OrdersAssumption ==
  /\ Own \subseteq Nat \ {0} /\ External \subseteq Nat \ {0} /\ Own \cap External = {}
  /\ Own \cup External # {} /\ IsFiniteSet(Own \cup External)
ASSUME SwitchAssumption == Backlog \in BOOLEAN /\ EarlyOrders \in BOOLEAN
ASSUME BoundsAssumption == {MaxVer, MaxTrades, MaxLogins, MaxStarts, MaxFaults, MaxChannel} \subseteq Nat

VARIABLES
  ctp,     \* CTP: the day's stream, order states, the account's position
  g,       \* the gateway: its AccountSession
  alloc,   \* AccountSeqAllocator: the last seq given without a session
  fresh,   \* order ids taken from the order id meta
  pq,      \* PersistWriter: tasks not committed yet
  fwd,     \* history: the own reports sent to the channel, the highest seq
           \* sent, and whether a seq was given twice
  bound    \* history: how often the bounded steps were taken

vars == <<db, ch, sdk, user, ctp, g, alloc, fresh, pq, fwd, bound>>

Refs == Own \cup External
FreshId == Max(Refs) + 1 + fresh

\* Partial functions by order id.
Put(f, o, v) == [p \in DOMAIN f \cup {o} |-> IF p = o THEN v ELSE f[p]]
Has(f, o) == o \in DOMAIN f

\* map: OrderRefMap, mine: order ids with a strategy, base/keys/cnt: the
\* report filter and the average tracker, lastO/lastT: its latest records,
\* pos: how much of the stream this login has seen, buf: buffered_orders_ and
\* buffered_trades_, hold/ready: the position is held and its baseline queried.
NoReports == [ord |-> <<>>, trd |-> <<>>]
NewSession ==
  [st |-> "none", seq |-> 0, map |-> <<>>, mine |-> {}, base |-> <<>>, keys |-> {},
   cnt |-> <<>>, lastO |-> <<>>, lastT |-> <<>>, pos |-> 0, buf |-> NoReports,
   hold |-> FALSE, ready |-> FALSE, logged |-> FALSE]

-----------------------------------------------------------------------------
(* Handlers work on x = [g, out, tasks, fresh]: the session, the records   *)
(* written to the channel and those queued for the database, and the id    *)
(* counter.                                                                *)
Emit(x, r) == [x EXCEPT !.g.seq = r.seq, !.out = Append(@, r), !.tasks = Append(@, r)]
Seq1(x) == x.g.seq + 1

accept_order(x, r) ==
  Emit([x EXCEPT !.g.base = Put(@, r.oid, r), !.g.lastO = <<r>>], r)
accept_trade(x, r) ==
  Emit([x EXCEPT !.g.keys = @ \cup {r.id}, !.g.lastT = <<r>>], r)

ForgetsTime(s, oid, e) == Has(s.base, oid) /\ s.base[oid].v = e.v
\* same_order_fields, or older than what is known.
check_order_skips(s, oid, e) ==
  Has(s.base, oid) /\ (s.base[oid].v = e.v \/ e.t < s.base[oid].t)

ForwardsEveryTrade(s, id) == FALSE
check_trade_skips(s, id) == id \in s.keys

push_position(x) == Emit([x EXCEPT !.g.hold = TRUE], PositionRec(Seq1(x)))

\* An unknown OrderRef becomes an external order with an id of its own.
on_rtn_order(x, e) ==
  LET known == Has(x.g.map, e.ref)
      oid == IF known THEN x.g.map[e.ref] ELSE Max(Refs) + 1 + x.fresh
      y == IF known THEN x
           ELSE [x EXCEPT !.g.map = Put(@, e.ref, oid), !.fresh = @ + 1]
      n == IF Has(x.g.cnt, oid) THEN x.g.cnt[oid]
           ELSE IF Has(x.g.base, oid) THEN x.g.base[oid].n ELSE 0
  IN  IF check_order_skips(y.g, oid, e) THEN y
      ELSE accept_order(y, OrderRec(oid, oid \in y.g.mine, e.v, e.t, n, Seq1(y)))

refresh_order_avg(x, oid) ==
  IF ~Has(x.g.base, oid) \/ x.g.base[oid].n = x.g.cnt[oid] THEN x
  ELSE accept_order(x, [x.g.base[oid] EXCEPT !.n = x.g.cnt[oid], !.seq = Seq1(x)])

on_rtn_trade(x, e, replaying) ==
  LET oid == IF Has(x.g.map, e.ref) THEN x.g.map[e.ref] ELSE 0
      y == accept_trade(x, TradeRec(oid, oid \in x.g.mine, e.id, Seq1(x)))
      z == refresh_order_avg(
             [y EXCEPT !.g.cnt = Put(@, oid, (IF Has(@, oid) THEN @[oid] ELSE 0) + 1)], oid)
  IN  IF check_trade_skips(x.g, e.id) THEN x
      ELSE IF x.g.ready /\ ~replaying THEN push_position(z) ELSE z

OnReport(x, e, replaying) ==
  IF e.k = "ord" THEN on_rtn_order(x, e) ELSE on_rtn_trade(x, e, replaying)

\* Buffered orders first, then buffered trades.
replay_buffered_reports(x) ==
  LET s == x.g.buf.ord \o x.g.buf.trd
      y[n \in 0..Len(s)] == IF n = 0 THEN [x EXCEPT !.g.buf = NoReports]
                            ELSE OnReport(y[n - 1], s[n], TRUE)
  IN  y[Len(s)]

\* The position query's answer: a position found gone is pushed as a zero frame
\* that takes a seq and is not stored; its row is deleted by the rebuild.
push_zero(x) ==
  [x EXCEPT !.g.seq = Seq1(x), !.g.hold = FALSE,
            !.out = Append(@, [PositionRec(Seq1(x)) EXCEPT !.k = "zero"])]
delete_rows(x) == [x EXCEPT !.tasks = Append(@, [PositionRec(0) EXCEPT !.k = "del"])]

apply_position_query(x, held) ==
  LET y == CASE held /\ ~x.g.hold -> push_position(x)
             [] ~held /\ x.g.hold -> push_zero(x)
             [] OTHER             -> x
      z == IF ~held /\ (x.g.hold \/ ~x.g.ready) THEN delete_rows(y) ELSE y
  IN  [z EXCEPT !.g.ready = TRUE]

push_account(x) == Emit(x, AccountRec(Seq1(x)))

\* A rejection is not checked against the filter, only recorded in it.
reject_order(x, oid) == accept_order(x, OrderRec(oid, TRUE, 0, 0, 0, Seq1(x)))

-----------------------------------------------------------------------------
X0 == [g |-> g, out |-> <<>>, tasks |-> <<>>, fresh |-> fresh]
Status(st) == <<[k |-> "st", st |-> st]>>
Forwarded(h, out) ==
  LET own == SelectSeq(out, LAMBDA r : r.own)
  IN  [ord |-> FoldLeft(LAMBDA f, r : Put(f, r.oid, r), h.ord,
                        SelectSeq(own, LAMBDA r : r.k = "ord")),
       trd |-> h.trd \cup {own[i].id : i \in {j \in 1..Len(own) : own[j].k = "trd"}},
       top |-> Max({h.top} \cup {out[i].seq : i \in 1..Len(out)}),
       reused |-> h.reused \/ \E i \in 1..Len(out) : out[i].seq <= h.top]

\* Frames go to the channel at once and to the database through the queue.
Write(frames) == ch' = IF sdk.up = "closed" THEN ch ELSE ch \o frames
Send(x, st) ==
  /\ g' = [x.g EXCEPT !.st = st] /\ fresh' = x.fresh
  /\ Write(x.out) /\ pq' = pq \o x.tasks
  /\ fwd' = Forwarded(fwd, x.out)
Settled == Backlog \/ pq = <<>>
Room == Len(ch) < MaxChannel
Step(b, max) == bound[b] < max /\ bound' = [bound EXCEPT ![b] = @ + 1]

connect_account_by_id ==
  /\ g.st = "none" /\ Room
  /\ g' = [NewSession EXCEPT !.st = "conn"] /\ Write(Status("LoggingIn"))
  /\ UNCHANGED <<db, sdk, user, ctp, alloc, fresh, pq, fwd, bound>>

Reconnect ==
  /\ g.st = "off" /\ Room
  /\ g' = [g EXCEPT !.st = "conn"] /\ Write(Status("LoggingIn"))
  /\ UNCHANGED <<db, sdk, user, ctp, alloc, fresh, pq, fwd, bound>>

Trades(d) == {r \in d : r.k = "trd"}
\* Only the current day is loaded: the row of order 0 is of an earlier one.
Orders(d) == {r \in d : r.k = "ord" /\ r.oid # 0}
LastOf(S) == IF S = {} THEN <<>> ELSE <<CHOOSE r \in S : \A q \in S : q.seq <= r.seq>>

KeepsCounter(s, d) ==
  [s EXCEPT !.seq = Max({@, alloc}), !.logged = TRUE, !.pos = 0]

\* load_trading_day: seq from MAX(seq) of what is committed (or the allocator),
\* the filter and the averages from the day's committed rows.  The OrderRefMap
\* is not loaded.
load_trading_day_baseline(s, d) ==
  LET cnt == [o \in {r.oid : r \in Trades(d)} |-> Cardinality({r \in Trades(d) : r.oid = o})]
  IN  [s EXCEPT
        !.seq = Max({query_max_seq(d), alloc}),
        !.base = [o \in {r.oid : r \in Orders(d)} |->
                    LET r == CHOOSE q \in Orders(d) : q.oid = o
                    IN  IF Has(cnt, o) THEN [r EXCEPT !.n = cnt[o]] ELSE r],
        !.keys = {r.id : r \in Trades(d)}, !.cnt = cnt,
        !.lastO = LastOf(Orders(d)), !.lastT = LastOf(Trades(d)),
        !.logged = TRUE, !.pos = 0]

on_rsp_user_login ==
  /\ g.st = "conn" /\ Settled
  /\ Step("logins", MaxLogins)
  /\ g' = [load_trading_day_baseline(g, db) EXCEPT !.st = "login"]
  /\ UNCHANGED <<db, ch, sdk, user, ctp, alloc, fresh, pq, fwd>>

on_settlement_confirmed ==
  /\ g.st = "login" /\ g' = [g EXCEPT !.st = "load"]
  /\ UNCHANGED <<db, ch, sdk, user, ctp, alloc, fresh, pq, fwd, bound>>

\* During the load a report waits in buffered_orders_ or buffered_trades_.
buffer_report(x, e) ==
  IF e.k = "ord" THEN [x EXCEPT !.g.buf.ord = Append(@, e)] ELSE [x EXCEPT !.g.buf.trd = Append(@, e)]

\* CTP's next report of this login.
OnRtn ==
  /\ g.st \in {"login", "load", "ready"} /\ g.pos < Len(ctp.log) /\ Room
  /\ LET e == ctp.log[g.pos + 1]
         x == [X0 EXCEPT !.g.pos = @ + 1]
     IN  Send(IF g.st = "load" THEN buffer_report(x, e) ELSE OnReport(x, e, FALSE), g.st)
  /\ UNCHANGED <<db, sdk, user, ctp, alloc, bound>>

\* The queries are answered (the position query may fail: then no funds row
\* either); the finalizer replays the buffer and queues the flush signal.
FinishQueries ==
  /\ g.st = "load" /\ Room
  /\ \E posOk \in BOOLEAN :
       Send(replay_buffered_reports(
              IF posOk THEN push_account(apply_position_query(X0, ctp.held)) ELSE X0), "flush")
  /\ UNCHANGED <<db, sdk, user, ctp, alloc, bound>>

LatestRecord(s) ==
  LET o == s.lastO  t == s.lastT
  IN  IF o # <<>> /\ (t = <<>> \/ o[1].seq >= t[1].seq) THEN o ELSE t

\* Ready: announced, and then the newer of the last order and trade again.
repush_last_records ==
  /\ g.st = "flush" /\ Settled /\ Room
  /\ g' = [g EXCEPT !.st = "ready"] /\ Write(Status("Ready") \o LatestRecord(g))
  /\ UNCHANGED <<db, sdk, user, ctp, alloc, fresh, pq, fwd, bound>>

PositionPoll ==
  /\ g.st = "ready" /\ Room /\ (ctp.held # g.hold \/ ~g.ready)
  /\ Send(apply_position_query(X0, ctp.held), "ready")
  /\ UNCHANGED <<db, sdk, user, ctp, alloc, bound>>

on_front_disconnected ==
  /\ g.st \in {"conn", "login", "load", "ready"} /\ g.logged /\ Room
  /\ Step("faults", MaxFaults)
  /\ g' = [g EXCEPT !.st = "off", !.buf = NoReports, !.hold = FALSE, !.ready = FALSE]
  /\ Write(Status("Offline"))
  /\ UNCHANGED <<db, sdk, user, ctp, alloc, fresh, pq, fwd>>

disconnect_account_by_id ==
  /\ g.st \notin {"none", "flush"} /\ Room
  /\ Step("faults", MaxFaults)
  /\ g' = NewSession /\ Write(Status("Offline"))
  /\ UNCHANGED <<db, sdk, user, ctp, alloc, fresh, pq, fwd>>

\* The process dies with its queue; the master reports its accounts Offline
\* and starts it again.
Crash ==
  /\ Settled /\ Room
  /\ Step("faults", MaxFaults)
  /\ g' = NewSession /\ alloc' = 0 /\ pq' = <<>> /\ Write(Status("Offline"))
  /\ UNCHANGED <<db, sdk, user, ctp, fresh, fwd>>

NoSession(r) ==
  LET rec == OrderRec(r, TRUE, 0, 0, 0, Max({alloc, query_max_seq(db)}) + 1)
  IN  /\ Settled /\ alloc' = rec.seq /\ UNCHANGED <<g, fresh>>
      /\ Write(<<rec>>) /\ pq' = Append(pq, rec) /\ fwd' = Forwarded(fwd, <<rec>>)

\* Whatever stops the order before CTP has taken it (state, unknown instrument,
\* risk gate, ReqOrderInsert) ends in a rejection.
place_order(r) ==
  \/ /\ Send(reject_order(X0, r), g.st)
     /\ ctp' = [ctp EXCEPT !.asked = @ \cup {r}]
  \/ /\ g.st = "ready"
     /\ Send([X0 EXCEPT !.g.map = Put(@, r, r), !.g.mine = @ \cup {r}], g.st)
     /\ ctp' = [ctp EXCEPT !.asked = @ \cup {r}, !.live = @ \cup {r}]

\* The strategy orders.
on_order_req(r) ==
  /\ sdk.up = "up" /\ r \notin ctp.asked /\ Room
  /\ g.st # "flush" /\ (EarlyOrders \/ g.logged \/ g.st = "none")
  /\ IF g.st = "none" THEN NoSession(r) /\ ctp' = [ctp EXCEPT !.asked = @ \cup {r}]
     ELSE UNCHANGED alloc /\ place_order(r)
  /\ UNCHANGED <<db, sdk, user, bound>>

\* CTP's front turns the order down: the response is followed by the error
\* report, each is a rejection, and the order is not in the private stream.
on_err_rtn_order_insert(x, r) == reject_order(x, r)
on_rsp_order_insert(r) ==
  /\ r \in ctp.live /\ ctp.v[r] = 0 /\ g.st = "ready" /\ Has(g.map, r) /\ Room
  /\ ctp' = [ctp EXCEPT !.live = @ \ {r}]
  /\ Send(on_err_rtn_order_insert(reject_order(X0, r), r), g.st)
  /\ UNCHANGED <<db, sdk, user, alloc, bound>>

-----------------------------------------------------------------------------
(* CTP: an order's next report, in the same second or a later one; a trade *)
(* of a reported order; a position that is gone without a trade report     *)
(* (a trade counted as part of a snapshot, a settlement).                  *)
Report(r) ==
  /\ r \in External \cup ctp.live /\ ctp.v[r] < MaxVer
  /\ \E t \in {ctp.t[r], ctp.t[r] + 1} \ {0} :
       ctp' = [ctp EXCEPT !.v[r] = @ + 1, !.t[r] = t,
                          !.log = Append(@, [k |-> "ord", ref |-> r, v |-> ctp.v[r] + 1, t |-> t])]
  /\ UNCHANGED <<db, ch, sdk, user, g, alloc, fresh, pq, fwd, bound>>

Trade(r) ==
  /\ ctp.v[r] > 0 /\ ctp.trades < MaxTrades
  /\ ctp' = [ctp EXCEPT !.trades = @ + 1, !.held = TRUE,
                        !.log = Append(@, [k |-> "trd", ref |-> r, id |-> ctp.trades + 1])]
  /\ UNCHANGED <<db, ch, sdk, user, g, alloc, fresh, pq, fwd, bound>>

PositionVanishes ==
  /\ ctp.held /\ Step("faults", MaxFaults) /\ ctp' = [ctp EXCEPT !.held = FALSE]
  /\ UNCHANGED <<db, ch, sdk, user, g, alloc, fresh, pq, fwd>>

\* PersistWriter (its batches, errors and retries are in PersistWriter).
Commit ==
  /\ pq # <<>> /\ db' = Upsert(db, Head(pq)) /\ pq' = Tail(pq)
  /\ UNCHANGED <<ch, sdk, user, ctp, g, alloc, fresh, fwd, bound>>

GatewayUnchanged == UNCHANGED <<ctp, g, alloc, fresh, pq, fwd>>
Sdk ==
  /\ \/ Step("starts", MaxStarts) /\ OpenReader
     \/ UNCHANGED bound /\ (load_all_watermarks \/ dz_release)
  /\ GatewayUnchanged
dz_next_event ==
  (NextEventEntry \/ NextEventFrame \/ NextEventReturn) /\ GatewayUnchanged /\ UNCHANGED bound

\* A row of an earlier day: the account has a watermark.
Init ==
  /\ db = {OrderRec(0, FALSE, 1, 1, 0, 1)} /\ ch = <<>>
  /\ sdk = NewContext /\ user = NoUser
  /\ ctp = [log |-> <<>>, v |-> [r \in Refs |-> 0], t |-> [r \in Refs |-> 0], trades |-> 0,
            held |-> FALSE, live |-> {}, asked |-> {}]
  /\ g = NewSession /\ alloc = 0 /\ fresh = 0 /\ pq = <<>>
  /\ fwd = [ord |-> <<>>, trd |-> {}, top |-> 1, reused |-> FALSE]
  /\ bound = [logins |-> 0, faults |-> 0, starts |-> 0]

Next ==
  \/ connect_account_by_id \/ Reconnect \/ on_rsp_user_login \/ on_settlement_confirmed
  \/ OnRtn \/ FinishQueries \/ repush_last_records \/ PositionPoll
  \/ on_front_disconnected \/ disconnect_account_by_id \/ Crash
  \/ (\E r \in Own : on_order_req(r) \/ on_rsp_order_insert(r))
  \/ (\E r \in Refs : Report(r) \/ Trade(r)) \/ PositionVanishes
  \/ Commit \/ Sdk \/ dz_next_event

Spec == Init /\ [][Next]_vars

-----------------------------------------------------------------------------
TypeOK ==
  /\ g.st \in {"none", "conn", "login", "load", "flush", "ready", "off"}
  /\ g.seq \in Nat /\ alloc \in Nat /\ fresh \in Nat
  /\ Len(ch) <= MaxChannel + Len(ctp.log) * 3 + 4
  /\ sdk.scan \in BOOLEAN /\ Len(sdk.replay) <= ReplaySlots
  /\ sdk.gap.attempts \in 0..kGapRetryMax
  /\ user.lost \subseteq {"exhausted", "overflow", "reset"}

\* "每笔成交恰好一次" (td-data-sync.md, section 5), the half that says never
\* twice: over replays, logins, backfill and resets of the gate.
TradeOnce == \A i \in DOMAIN user.trd : user.trd[i] <= 1

Knows(u) ==
  /\ \A o \in DOMAIN fwd.ord : o \in DOMAIN u.ord /\ u.ord[o].v = fwd.ord[o].v
                                                  /\ u.ord[o].n = fwd.ord[o].n
  /\ fwd.trd \subseteq DOMAIN u.trd

\* A strategy that has read everything and has seen a frame since it started
\* knows the latest state of every order of its own and every trade, unless
\* the loss was logged, a reset skipped unread frames or a seq was given twice.
NothingMissed ==
  CaughtUp /\ sdk.hasLast /\ user.lost = {} /\ ~fwd.reused => Knows(user)

\* "每笔成交恰好一次" (td-data-sync.md, section 5): both halves, for what the
\* strategy is told of orders and trades.
ExactlyOnce == TradeOnce /\ NothingMissed

\* The strategy never sees an order go back in time.
OrderForward ==
  [][sdk.up = "up" /\ sdk'.up = "up" =>
       \A o \in DOMAIN user.ord : user'.ord[o].t >= user.ord[o].t]_vars

\* The rows that wait are newer than every committed row and in order, which is
\* what lets gap_covered conclude from one committed row on all before it.
CommitsInSeqOrder ==
  LET rows == {i \in DOMAIN pq : pq[i].k # "del"}
  IN  /\ \A i \in rows : pq[i].seq > query_max_seq(db)
      /\ \A i, j \in rows : i < j => pq[i].seq < pq[j].seq

\* The gateway, the database and the gate of the SDK stay within their bounds,
\* and the database fills in the order of the sequence numbers.
StructureOK == TypeOK /\ CommitsInSeqOrder
=============================================================================
