------------------------------- MODULE TdWeb -------------------------------
(***************************************************************************)
(* What the web UI shows of one account's orders and positions.  The       *)
(* server forwards the frames of an account that is online, keeps the last *)
(* ones for browsers that connect, and counts the orders of the day        *)
(* (td_domain_service.cpp, td_stats.cpp); it answers requests from the     *)
(* trade database (td_orders_query.cpp, td_positions_query.cpp).  The page *)
(* merges answers and events (tdListStore.ts, tdPositions.ts).             *)
(*                                                                         *)
(* The gateway is external here (TdSession, TdSync): it numbers its rows,  *)
(* writes each to the channel and queues it for the database, and is Ready *)
(* only with an empty queue.  A row is a version of an order, whose left   *)
(* is the volume not traded (0: done), or of the position, whose left is   *)
(* its volume.  Trades are shown as orders are, funds as positions are.    *)
(* The page shows one of the two lists, whose first load is done; the      *)
(* other one is closed and takes nothing, and its rows are left out.       *)
(***************************************************************************)
EXTENDS Integers, Sequences, FiniteSets
LOCAL INSTANCE SequencesExt
LOCAL INSTANCE FiniteSetsExt
LOCAL INSTANCE Functions

CONSTANTS RowIds,         \* orders, or instruments
          OrderVolume,
          Capacity,       \* TD_LIST_WINDOW_CAPACITY
          RingCapacity,   \* kTdRecentCapacityPerAccount
          MaxSeq,         \* bound: rows
          MaxDays,        \* bound
          MaxTroubles     \* bound: ends of the session, repeated states, recounts, lost connections,
                          \* failing requests

VARIABLES day, gate, seq,         \* external: the gateway
          unwritten, stored,      \* rows queued for the database, and in it
          feed,                   \* frames the server has not applied
          online,                 \* online_date_ of the account, 0 when it has none
          ring,                   \* recent_ of the account
          stats,                  \* stats_ and stats_ready_
          joined, push,           \* the WebSocket, and what is sent on it
          tab,                    \* the list that is open: "ord" or "pos"
          orders,                 \* the list of orders in the browser
          positions,              \* the positions there
          fetches,                \* its requests
          troubles,
          hasty,      \* ghost: counted before a row that was seen was stored
          stalled,    \* ghost: the last recount failed
          muddled,    \* ghost: a list was requested while another was under way, or anew
                      \* without a row that was not stored
          crossing    \* ghost: a position arrived while its list was under way, or was dropped
                      \* before it was stored

gateway == <<day, gate, seq, unwritten, stored>>
backend == <<online, ring, stats, hasty, stalled>>
page    == <<tab, orders, positions, fetches, muddled, crossing>>
webVars == <<gateway, feed, backend, joined, push, page, troubles>>

Row(k, id, left) == [k |-> k, id |-> id, day |-> day, seq |-> seq + 1, left |-> left]
Same(r, s) == r.k = s.k /\ r.id = s.id /\ r.day = s.day
OfDay(rows, k, d) == {r \in rows : r.k = k /\ r.day = d}
Known == stored \cup {unwritten[i] : i \in DOMAIN unwritten}
Newest(k, id) ==
    LET rows == {r \in OfDay(Known, k, day) : r.id = id}
    IN {r \in rows : \A s \in rows : s.seq <= r.seq}

Trouble == troubles < MaxTroubles /\ troubles' = troubles + 1

-----------------------------------------------------------------------------
(* The gateway. *)
Writes(r) ==
    /\ gate # "off" /\ seq < MaxSeq /\ seq' = r.seq
    /\ feed' = Append(feed, [t |-> "row", r |-> r])
    /\ unwritten' = Append(unwritten, r)
    /\ UNCHANGED <<day, gate, stored, backend, joined, push, page, troubles>>

(* An order is placed, trades one lot, or ends. *)
OrderMoves(id) ==
    IF tab # "ord" THEN FALSE
    ELSE IF Newest("ord", id) = {}
    THEN (\A d \in 1..MaxDays : \A r \in OfDay(Known, "ord", d) : r.id # id)
         /\ Writes(Row("ord", id, OrderVolume))
    ELSE \E r \in Newest("ord", id) : \E left \in {r.left - 1, 0} :
           r.left > 0 /\ Writes(Row("ord", id, left))

(* A position is opened or closed. *)
PositionMoves(id) ==
    LET was == IF Newest("pos", id) = {} THEN 0 ELSE (CHOOSE r \in Newest("pos", id) : TRUE).left
    IN tab = "pos" /\ Writes(Row("pos", id, 1 - was))

Commit ==
    /\ unwritten # <<>> /\ unwritten' = Tail(unwritten)
    /\ stored' = {r \in stored : ~ Same(r, Head(unwritten))} \cup {Head(unwritten)}
    /\ UNCHANGED <<day, gate, seq, feed, backend, joined, push, page, troubles>>

Status(state) == [t |-> "status", state |-> state, day |-> day]

(* Ready, then the last order once more under its own number. *)
GoesReady ==
    LET rows == OfDay(stored, "ord", day)
        last == {r \in rows : \A s \in rows : s.seq <= r.seq}
    IN /\ gate = "login" /\ unwritten = <<>> /\ gate' = "ready"
       /\ feed' = feed \o <<Status("ready")>> \o SetToSeq({[t |-> "row", r |-> r] : r \in last})
       /\ UNCHANGED <<day, seq, unwritten, stored, backend, joined, push, page, troubles>>

(* On a new day the positions held are written anew. *)
LogsIn(d) ==
    LET held == {r \in UNION {Newest("pos", id) : id \in RowIds} : r.left > 0}
        rows == IF d = day THEN <<>>
                ELSE LET old == SetToSeq(held)
                     IN [i \in DOMAIN old |-> [old[i] EXCEPT !.day = d, !.seq = seq + i]]
    IN /\ gate = "off" /\ d \in day..MaxDays /\ day' = d /\ gate' = "login"
       /\ seq' = seq + Len(rows) /\ unwritten' = unwritten \o rows
       /\ feed' = feed \o <<Status("logging_in")>>
                       \o [i \in DOMAIN rows |-> [t |-> "row", r |-> rows[i]]]
       /\ UNCHANGED <<stored, backend, joined, push, page, troubles>>

GoesOffline ==
    /\ gate # "off" /\ Trouble /\ gate' = "off" /\ feed' = Append(feed, Status("offline"))
    /\ UNCHANGED <<day, seq, unwritten, stored, backend, joined, push, page>>

(* It ends without a word, with its queue written. *)
Crash ==
    /\ gate # "off" /\ unwritten = <<>> /\ Trouble /\ gate' = "off"
    /\ UNCHANGED <<day, seq, unwritten, stored, feed, backend, joined, push, page>>

(* Somebody has asked for the account's status. *)
RepeatsStatus ==
    /\ gate = "ready" /\ Trouble /\ feed' = Append(feed, Status("ready"))
    /\ UNCHANGED <<gateway, backend, joined, push, page>>

-----------------------------------------------------------------------------
(* TdStatsCounter: total orders, unfilled orders and volume, the unfilled
   orders themselves, and the watermark of the last recount. *)
NoStats == [ready |-> FALSE, total |-> 0, open |-> 0, rest |-> 0, active |-> <<>>, mark |-> 0]

query_values(d) ==
    LET rows == OfDay(stored, "ord", d)
        unfilled == {r \in rows : r.left > 0}
    IN [total |-> Cardinality(rows), open |-> Cardinality(unfilled),
        rest |-> MapThenSumSet(LAMBDA r : r.left, unfilled)]

query_active(d) ==
    LET unfilled == {r \in OfDay(stored, "ord", d) : r.left > 0}
    IN [id \in {r.id : r \in unfilled} |-> (CHOOSE r \in unfilled : r.id = id).left]

query_watermarks == Max({0} \cup {r.seq : r \in stored})

(* One read transaction; with no account online there is nothing to read. *)
recompute(d) ==
    IF d = 0 THEN [NoStats EXCEPT !.ready = TRUE]
    ELSE query_values(d) @@ [ready |-> TRUE, active |-> query_active(d), mark |-> query_watermarks]

(* The counters after an order report; an order that is not among the
   unfilled ones is a new one. *)
apply(s, r) ==
    IF r.id \in DOMAIN s.active
    THEN [s EXCEPT !.rest = @ + r.left - s.active[r.id],
                   !.open = IF r.left > 0 THEN @ ELSE @ - 1,
                   !.active = IF r.left > 0 THEN [@ EXCEPT ![r.id] = r.left]
                              ELSE Restrict(@, DOMAIN @ \ {r.id})]
    ELSE [s EXCEPT !.total = @ + 1,
                   !.open = IF r.left > 0 THEN @ + 1 ELSE @,
                   !.rest = @ + r.left,
                   !.active = IF r.left > 0
                              THEN [id \in DOMAIN @ \cup {r.id} |-> IF id = r.id THEN r.left ELSE @[id]]
                              ELSE @]

(* The plausible bug: a row counts whether or not it was read. *)
CountsAlways(s, r) == IF r.k = "ord" THEN apply(s, r) ELSE s

(* What a report counts for: the rows the recount has read do not count again. *)
counted(s, r) == IF r.k = "ord" /\ r.seq > s.mark THEN apply(s, r) ELSE s

recount(d) ==
    /\ stats' = recompute(d) /\ stalled' = FALSE
    /\ hasty' = \E i \in DOMAIN unwritten : \A j \in DOMAIN feed : feed[j] # [t |-> "row", r |-> unwritten[i]]

(* A failing read keeps the counters. *)
reconcile_stats(d) ==
    \/ recount(d) /\ UNCHANGED troubles
    \/ d # 0 /\ Trouble /\ stalled' = TRUE /\ UNCHANGED <<stats, hasty>>

-----------------------------------------------------------------------------
(* TdDomainService. *)
Broadcast(msgs) == push' = IF joined THEN push \o msgs ELSE push
Changed == [t |-> "data_changed"]

(* Every Ready is a point to count again, whatever has changed. *)
on_account_status(f) ==
    IF f.state = "ready"
    THEN /\ online' = f.day /\ UNCHANGED ring
         /\ Broadcast(IF online # f.day THEN <<Changed>> ELSE <<>>)
         /\ reconcile_stats(f.day)
    ELSE IF online # 0
    THEN /\ online' = 0 /\ ring' = IF f.state = "offline" THEN <<>> ELSE ring
         /\ Broadcast(<<Changed>>) /\ reconcile_stats(0)
    ELSE UNCHANGED <<online, ring, stats, hasty, stalled, push, troubles>>

push_recent(r) ==
    ring' = Append(IF Len(ring) >= RingCapacity THEN Tail(ring) ELSE ring, r)

on_report(r) ==
    IF online = 0 THEN UNCHANGED <<backend, push, troubles>>
    ELSE /\ stats' = counted(stats, r)
         /\ Broadcast(<<[t |-> "row", r |-> r]>>) /\ push_recent(r)
         /\ UNCHANGED <<online, hasty, stalled, troubles>>

ApplyFeed ==
    /\ feed # <<>> /\ feed' = Tail(feed)
    /\ LET f == Head(feed) IN IF f.t = "status" THEN on_account_status(f) ELSE on_report(f.r)
    /\ UNCHANGED <<gateway, joined, page>>

(* The timer of set_reconcile_scheduler; when the read fails, nothing changes. *)
Reconcile ==
    /\ Trouble /\ recount(online)
    /\ UNCHANGED <<gateway, feed, online, ring, joined, push, page>>

recent_events == [t |-> "recent", rows |-> IF online = 0 THEN <<>> ELSE ring]

-----------------------------------------------------------------------------
(* Answers. *)
td_degraded_body == [at |-> "degraded", day |-> 0, items |-> {}]

(* The newest orders of the day, while the account is online. *)
OrdersAnswer ==
    LET rows == IF online = 0 THEN {} ELSE OfDay(stored, "ord", online)
    IN [at |-> "answer", day |-> online,
        items |-> {r \in rows : Cardinality({s \in rows : s.id > r.id}) < Capacity}]

(* The last day that has positions, whether or not the account is online. *)
td_account_anchor_days == Max({0} \cup {r.day : r \in {s \in stored : s.k = "pos"}})
PositionsAnswer ==
    [at |-> "answer", day |-> online,
     items |-> {r \in OfDay(stored, "pos", td_account_anchor_days) : r.left > 0}]

(* The database may be absent, busy or of another version. *)
Answer(q) ==
    /\ q.at = "server"
    /\ \/ /\ UNCHANGED troubles
          /\ fetches' = (fetches \ {q}) \cup
                {(IF q.k = "ord" THEN OrdersAnswer ELSE PositionsAnswer) @@ q}
       \/ Trouble /\ fetches' = (fetches \ {q}) \cup {td_degraded_body @@ q}
    /\ UNCHANGED <<gateway, feed, backend, joined, push, tab, orders, positions, muddled, crossing>>

-----------------------------------------------------------------------------
(* tdListStore.ts: the list of orders.  Requests are not numbered. *)
MaxSeqOf(rows) == Max({0} \cup {r.seq : r \in rows})

mergeTdRows(existing, incoming) ==
    LET all == existing \cup incoming
        best == {r \in all : \A s \in all : s.id = r.id => s.seq <= r.seq}
    IN {r \in best : Cardinality({s \in best : s.id > r.id}) < Capacity}

clearList(o) == [o EXCEPT !.rows = {}, !.seen = 0, !.batch = <<>>]

UnderWay(k) == {q \in fetches : q.k = k}

\* n tells apart the requests under way.
Fetch(k, seed) == [k |-> k, n |-> Cardinality(UnderWay(k)), seed |-> seed,
                   at |-> "server", day |-> 0, items |-> {}]

\* A row not stored yet that the page will not be sent again.
Missed(k, coming, seed) == \E i \in DOMAIN unwritten :
    LET r == unwritten[i]
    IN /\ r.k = k /\ r \notin seed
       /\ \A j \in DOMAIN feed : feed[j] # [t |-> "row", r |-> r]
       /\ \A j \in DOMAIN coming : coming[j] # [t |-> "row", r |-> r]

loadFirstPage(reset, seed) ==
    /\ orders' = IF reset THEN clearList(orders) ELSE [orders EXCEPT !.retry = FALSE]
    /\ fetches' = fetches \cup {Fetch("ord", seed)}

(* The answer is merged, whatever the request was; its day is the list's. *)
TakeOrders(q) ==
    /\ q.k = "ord" /\ q.at # "server" /\ fetches' = fetches \ {q}
    /\ IF q.at = "degraded"
       THEN orders' = [orders EXCEPT !.retry = TRUE] /\ muddled' = (muddled \/ ~ q.seed \subseteq stored)
       ELSE LET rows == mergeTdRows(orders.rows, q.items \cup q.seed)
            IN /\ orders' = [orders EXCEPT !.rows = rows, !.day = q.day, !.retry = FALSE,
                                           !.seen = MaxSeqOf(rows)]
               /\ UNCHANGED muddled
    /\ UNCHANGED <<gateway, feed, backend, joined, push, tab, positions, troubles, crossing>>

RetryOrders ==
    /\ orders.retry /\ loadFirstPage(FALSE, {})
    /\ muddled' = (muddled \/ UnderWay("ord") # {})
    /\ UNCHANGED <<gateway, feed, backend, joined, push, tab, positions, troubles, crossing>>

(* ingest: a row of a new day, or a new order with an old number, is the sign
   of a reset; a row of an earlier day is dropped. *)
ResetSign(o, r) ==
    \/ o.day # 0 /\ r.day > o.day
    \/ r.day >= o.day /\ r.id \notin {s.id : s \in o.rows} /\ r.seq < o.seen

flushPending ==
    LET batch == {orders.batch[i] : i \in DOMAIN orders.batch}
        taken == {r \in batch : orders.day = 0 \/ r.day = orders.day}
    IN /\ batch # {}
       /\ IF \E r \in batch : ResetSign(orders, r)
          THEN /\ loadFirstPage(TRUE, {})
               /\ muddled' = (muddled \/ UnderWay("ord") # {} \/ Missed("ord", push, {}))
          ELSE /\ orders' = [orders EXCEPT !.batch = <<>>, !.rows = mergeTdRows(@, taken),
                                           !.seen = Max({@} \cup {r.seq : r \in taken})]
               /\ UNCHANGED <<fetches, muddled>>
       /\ UNCHANGED <<gateway, feed, backend, joined, push, tab, positions, troubles, crossing>>

-----------------------------------------------------------------------------
(* tdPositions.ts: an absolute state.  Requests are numbered: the answer to
   any but the last is ignored, so that the others are left out. *)
clearData(p) == [p EXCEPT !.rows = {}, !.seen = 0]
loadBaseline(others) == (others \ UnderWay("pos")) \cup {[Fetch("pos", {}) EXCEPT !.n = 0]}

(* A row of the page is kept when it is newer than the same row of the
   answer, or than the newest one there. *)
reconcilePositionBaseline(items, rows) ==
    LET kept == {r \in rows : IF \E s \in items : s.id = r.id
                              THEN \A s \in items : s.id = r.id => r.seq > s.seq
                              ELSE items # {} /\ r.seq > MaxSeqOf(items)}
    IN kept \cup {s \in items : \A r \in kept : r.id # s.id}

TakePositions(q) ==
    /\ q.k = "pos" /\ q.at # "server" /\ fetches' = fetches \ {q}
    /\ IF q.at = "degraded" THEN positions' = [positions EXCEPT !.retry = TRUE]
       ELSE LET rows == reconcilePositionBaseline(q.items, positions.rows)
            IN positions' = [positions EXCEPT !.rows = rows, !.seen = MaxSeqOf(rows), !.retry = FALSE]
    /\ UNCHANGED <<gateway, feed, backend, joined, push, tab, orders, troubles, muddled, crossing>>

RetryPositions ==
    /\ positions.retry /\ positions' = [positions EXCEPT !.retry = FALSE]
    /\ fetches' = loadBaseline(fetches)
    /\ UNCHANGED <<gateway, feed, backend, joined, push, tab, orders, troubles, muddled, crossing>>

(* A closed position goes; a known one is replaced by a newer version; a new
   one with an old number is the sign of a reset. *)
applyPositionEvent(p, r) ==
    LET mine == {s \in p.rows : s.id = r.id}
    IN IF r.left = 0 THEN [p EXCEPT !.rows = @ \ mine]
       ELSE IF mine # {}
       THEN IF \E s \in mine : r.seq <= s.seq \/ r.day < s.day THEN p
            ELSE [p EXCEPT !.rows = (@ \ mine) \cup {r}, !.seen = Max({@, r.seq})]
       ELSE [p EXCEPT !.rows = @ \cup {r}, !.seen = Max({@, r.seq})]

PositionReset(p, r) ==
    r.left > 0 /\ (\A s \in p.rows : s.id # r.id) /\ r.seq < p.seen

-----------------------------------------------------------------------------
(* The messages as the page takes them. *)
ReloadAll(seed) ==
    \/ /\ tab = "ord" /\ loadFirstPage(TRUE, seed)
       /\ muddled' = (UnderWay("ord") # {} \/ Missed("ord", push', seed))
       /\ UNCHANGED <<positions, crossing>>
    \/ /\ tab = "pos" /\ positions' = clearData(positions) /\ fetches' = loadBaseline(fetches)
       /\ crossing' = Missed("pos", push', {})
       /\ UNCHANGED <<orders, muddled>>

TakePosition(r) ==
    IF PositionReset(positions, r)
    THEN /\ positions' = clearData(positions) /\ fetches' = loadBaseline(fetches)
         /\ crossing' = Missed("pos", push', {})
    ELSE /\ positions' = applyPositionEvent(positions, r)
         /\ crossing' = (crossing \/ UnderWay("pos") # {} \/ positions.retry)
         /\ UNCHANGED fetches

Receive ==
    /\ push # <<>> /\ push' = Tail(push)
    /\ LET m == Head(push)
       IN \/ m.t = "data_changed" /\ ReloadAll({})
          \/ m.t = "recent" /\ ReloadAll({r \in {m.rows[i] : i \in DOMAIN m.rows} : r.k = "ord"})
          \/ /\ m.t = "row" /\ m.r.k = "ord" /\ orders' = [orders EXCEPT !.batch = Append(@, m.r)]
             /\ UNCHANGED <<positions, fetches, muddled, crossing>>
          \/ m.t = "row" /\ m.r.k = "pos" /\ TakePosition(m.r) /\ UNCHANGED <<orders, muddled>>
    /\ UNCHANGED <<gateway, feed, backend, joined, tab, troubles>>

Join ==
    /\ ~ joined /\ joined' = TRUE /\ push' = <<recent_events>>
    /\ UNCHANGED <<gateway, feed, backend, page, troubles>>

Leave ==
    /\ joined /\ Trouble /\ joined' = FALSE /\ push' = <<>>
    /\ UNCHANGED <<gateway, feed, backend, page>>

-----------------------------------------------------------------------------
(* The account is Ready and has no rows yet. *)
WebInit ==
    /\ day = 1 /\ gate = "ready" /\ seq = 0 /\ unwritten = <<>> /\ stored = {}
    /\ feed = <<>> /\ online = 1 /\ ring = <<>> /\ stats = recompute(1)
    /\ joined = TRUE /\ push = <<>> /\ tab \in {"ord", "pos"} /\ fetches = {} /\ troubles = 0
    /\ orders = [rows |-> {}, day |-> 1, seen |-> 0, batch |-> <<>>, retry |-> FALSE]
    /\ positions = [rows |-> {}, seen |-> 0, retry |-> FALSE]
    /\ hasty = FALSE /\ stalled = FALSE /\ muddled = FALSE /\ crossing = FALSE

WebNext ==
    \/ (\E id \in RowIds : OrderMoves(id) \/ PositionMoves(id)) \/ Commit
    \/ GoesReady \/ GoesOffline \/ Crash \/ RepeatsStatus \/ (\E d \in 1..MaxDays : LogsIn(d))
    \/ ApplyFeed \/ Reconcile
    \/ \E q \in fetches : Answer(q) \/ TakeOrders(q) \/ TakePositions(q)
    \/ RetryOrders \/ RetryPositions \/ flushPending
    \/ Receive \/ Join \/ Leave

-----------------------------------------------------------------------------
WebTypeOK ==
    /\ online \in 0..MaxDays /\ Len(ring) <= RingCapacity
    /\ stats.open \in 0..stats.total /\ Cardinality(orders.rows) <= Capacity

Served == gate = "ready" /\ feed = <<>> /\ unwritten = <<>>

(* td_domain_service.cpp on_order_report, reconcile_stats: the counters are
   those of the database, although reports arrive before and after their rows
   are stored and Ready repeats the last one; unless a recount ran between a
   report and its row, or failed. *)
StatsFollow ==
    Served /\ ~ hasty /\ ~ stalled =>
        /\ stats.total = query_values(day).total /\ stats.open = query_values(day).open
        /\ stats.rest = query_values(day).rest

Settled ==
    /\ Served /\ joined /\ push = <<>> /\ fetches = {} /\ orders.batch = <<>>
    /\ ~ orders.retry /\ ~ positions.retry

(* tdListStore.ts: a list that has taken everything in holds the newest
   version of the newest orders of the day and nothing else, through logins,
   new days and lost connections; unless two requests crossed, or the ring of
   the server still had the rows of an earlier day. *)
OrdersFollow ==
    tab = "ord" /\ Settled /\ ~ muddled /\ (\A i \in DOMAIN ring : ring[i].day = online) =>
        orders.rows = OrdersAnswer.items /\ orders.day = online

(* tdPositions.ts: the positions shown are those of the database, unless one
   changed while the list was on its way. *)
PositionsFollow ==
    tab = "pos" /\ Settled /\ ~ crossing => positions.rows = PositionsAnswer.items

TradingViewsHonest == WebTypeOK /\ StatsFollow /\ OrdersFollow /\ PositionsFollow
=============================================================================
