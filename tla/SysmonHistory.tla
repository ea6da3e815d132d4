--------------------------- MODULE SysmonHistory ---------------------------
(***************************************************************************)
(* The history of the system monitor: the recorder that aggregates the     *)
(* samples of a window (apps/sysmon/history_recorder.cpp), the writer      *)
(* thread behind a bounded queue (libs/sysmonstore history_writer.cpp),    *)
(* the two tables with their retention (history_store.cpp,                 *)
(* history_retention.cpp), the main loop that drives them (main.cpp) and   *)
(* the query of the web server (sysmon_history_service.cpp).               *)
(*                                                                         *)
(* Time is counted in measure intervals and a minute is Minute of them.  A *)
(* sample is its number; an aggregate (min, max, avg, last, n) is the set  *)
(* of samples it was made from.  "scalar" stands for the wide row and Dims *)
(* for the rows of the dimension table.                                    *)
(***************************************************************************)
EXTENDS Integers, Sequences, FiniteSets
LOCAL INSTANCE SequencesExt
LOCAL INSTANCE FiniteSetsExt

CONSTANTS
    DimOrder,         \* the dimension metrics, in the order of their keys
    Absent,           \* those that cannot be read at some times, per time
    Windows,          \* record windows: interval and phase
    FirstWindow,      \* the one configured at first
    Minute,
    RawRetention, MaxRetention,
    MaxRows,          \* max_bytes, counted in rows
    QueueCapacity, MaxBatchRecords, MaintenanceBatch,
    Jumps,            \* bound: how far the wall clock is set
    MaxTime,          \* bound
    MaxMaintenance,   \* bound: maintenance periods
    MaxTurns,         \* bound: stops, crashes, settings, clock changes
    MaxFaults         \* bound: missed ticks and failing operations

Dims == Range(DimOrder)

ASSUME HistoryAssumption ==
    /\ FirstWindow \in Windows
    /\ \A t \in DOMAIN Absent : Absent[t] \subseteq Dims
    /\ \A c \in Windows : c.interval > 0
    /\ {Minute, QueueCapacity, MaxBatchRecords, MaintenanceBatch} \subseteq Nat \ {0}

Metrics == {"scalar"} \cup Dims
None    == -100

VARIABLES
    now,        \* the wall clock
    config,     \* the record window, and history.enabled
    rec,        \* HistoryRecorder
    baseline,   \* prev_wall_ms_ is set
    main,       \* the main thread
    writer,     \* history_writer_: queue, stop flag, counters
    worker,     \* its thread
    rows,       \* sysmon_scalar and sysmon_dimension
    marks,      \* sysmon_mark
    samples,    \* history: bucket and metrics of every observed sample
    lost,       \* history: dropped, not written, or gone with the process
    replaced,   \* history: overwritten by a later row of the same bucket
    expired,    \* history: deleted by the retention
    reopened,   \* history: a bucket may have been begun twice
    maintained, turns, faults

ghosts == <<samples, lost, replaced, expired, reopened>>
recorder == <<now, config, rec, baseline>>
store  == <<rows, marks>>
bounds == <<maintained, turns, faults>>
vars   == <<recorder, main, writer, worker, store, ghosts, bounds>>

----------------------------------------------------------------------------
(* records.cpp: buckets, aggregates and batches. *)

(* Floor division: \div of TLA+ already rounds down. *)
bucket_start(ts, c) ==
    LET phase == c.phase % c.interval
    IN ((ts - phase) \div c.interval) * c.interval + phase

minute_bucket_start(ts) == (ts \div Minute) * Minute

NoSamples == [m \in Metrics |-> {}]

EmptyBatch == [windows |-> <<>>, marks |-> <<>>]

record_count(b) ==
    FoldLeft(LAMBDA n, w : n + 1 + Cardinality({d \in Dims : w.agg[d] # {}}), 0, b.windows)
        + Len(b.marks)

move_into(target, source) ==
    [windows |-> target.windows \o source.windows, marks |-> target.marks \o source.marks]

Observed(b) ==
    UNION {{<<s, m>> : s \in w.agg[m]} : w \in Range(b.windows), m \in Metrics}

Merged(queue) == FoldLeft(move_into, EmptyBatch, queue)

----------------------------------------------------------------------------
(* HistoryRecorder. *)

NewRecorder ==
    [bucket |-> None, width |-> 0, agg |-> NoSamples, samples |-> 0, missed |-> 0,
     marks |-> <<>>]

expected_samples_per_window(c) == Max({1, c.interval})

(* Mutant: two samples may be missing. *)
LooselyFull(n, c) == n + 2 >= expected_samples_per_window(c)

window_is_full(n, c) == n + 1 >= expected_samples_per_window(c)

mark_if_incomplete(b, ts, r, c) ==
    IF window_is_full(r.samples, c) /\ r.missed = 0 THEN b
    ELSE [b EXCEPT !.marks = Append(@, [ts |-> ts, kind |-> "sample_gap"])]

take_batch(r) ==
    [windows |-> <<[ts |-> r.bucket, width |-> r.width, agg |-> r.agg]>>, marks |-> r.marks]

Reset(r) == [r EXCEPT !.agg = NoSamples, !.samples = 0, !.missed = 0, !.marks = <<>>]

observe_values(r, s, read) ==
    [r EXCEPT !.agg = [m \in Metrics |-> IF m \in read THEN @[m] \cup {s} ELSE @[m]],
              !.samples = @ + 1]

(* A sample of a new bucket first closes the window that is open. *)
observe(r, s, read, ts, c) ==
    LET bucket == bucket_start(ts, c)
        begin(x) == [x EXCEPT !.bucket = bucket, !.width = c.interval]
    IN CASE r.bucket = None   -> [rec |-> observe_values(begin(r), s, read), batch |-> EmptyBatch]
         [] r.bucket = bucket -> [rec |-> observe_values(r, s, read), batch |-> EmptyBatch]
         [] OTHER ->
              [rec   |-> observe_values(begin(Reset(r)), s, read),
               batch |-> mark_if_incomplete(take_batch(r), r.bucket, r, c)]

flush_recorder(r, ts, c) ==
    IF r.bucket = None \/ r.samples <= 0
    THEN [windows |-> <<>>, marks |-> r.marks]
    ELSE mark_if_incomplete(take_batch(r), ts, r, c)

----------------------------------------------------------------------------
(* HistoryWriter. *)

NewWriter ==
    [open |-> TRUE, queue |-> <<>>, stop |-> FALSE,
     enqueued |-> 0, written |-> 0, dropped |-> 0, failed |-> 0]

Idle == [pc |-> "idle", hand |-> EmptyBatch, leftover |-> <<>>, should_stop |-> FALSE,
         policy |-> [now |-> 0, window |-> FirstWindow]]

NoWriter == [NewWriter EXCEPT !.open = FALSE]

(* The queue is full: its oldest batch goes. *)
enqueue(w, b) ==
    LET n    == record_count(b)
        keep == IF Len(w.queue) >= QueueCapacity
                THEN SubSeq(w.queue, Len(w.queue) - QueueCapacity + 2, Len(w.queue))
                ELSE w.queue
        out  == SubSeq(w.queue, 1, Len(w.queue) - Len(keep))
    IN IF n = 0 THEN w
       ELSE [w EXCEPT !.queue = Append(keep, b), !.enqueued = @ + n,
                      !.dropped = @ + record_count(Merged(out))]

Overflow(w, b) ==
    IF record_count(b) = 0 \/ Len(w.queue) < QueueCapacity THEN {}
    ELSE Observed(Merged(SubSeq(w.queue, 1, Len(w.queue) - QueueCapacity + 1)))

(* The batches of one transaction: one that does not fit is left over, and
   the loop goes on with the next. *)
Gather(queue) ==
    FoldLeft(LAMBDA g, b :
                 IF record_count(g.merged) = 0
                    \/ record_count(g.merged) + record_count(b) <= MaxBatchRecords
                 THEN [g EXCEPT !.merged = move_into(@, b)]
                 ELSE [g EXCEPT !.left = Append(@, b)],
             [merged |-> EmptyBatch, left |-> <<>>], queue)

----------------------------------------------------------------------------
(* HistoryStore: an upsert replaces the aggregate of a bucket and keeps its
   interval_sec; a dimension without samples has no row. *)

Key(r) == <<r.level, r.ts, r.m>>

upsert(table, new) ==
    LET written == {r \in new : r.m = "scalar" \/ r.agg # {}}
        old(r)  == {x \in table : Key(x) = Key(r)}
    IN (table \ UNION {old(r) : r \in written}) \cup
       {[r EXCEPT !.width = IF old(r) = {} THEN @ ELSE (CHOOSE x \in old(r) : TRUE).width] :
           r \in written}

RowsOf(w) ==
    {[level |-> "raw", ts |-> w.ts, m |-> m, width |-> w.width, agg |-> w.agg[m]] : m \in Metrics}

write_batch(table, b) == FoldLeft(LAMBDA t, w : upsert(t, RowsOf(w)), table, b.windows)

Stored(table) == UNION {{<<s, r.m>> : s \in r.agg} : r \in table}

AtLevel(table, level) == {r \in table : r.level = level}

----------------------------------------------------------------------------
(* history_retention.cpp. *)

(* Mutant: the raw retention holds for windows of a minute and more too. *)
HorizonAlwaysRaw(p) ==
    [compact |-> p.window.interval < Minute, max_cutoff |-> p.now - MaxRetention,
     raw_cutoff |-> Max({p.now - RawRetention, p.now - MaxRetention})]

Horizon(p) ==
    LET max_cutoff == p.now - MaxRetention
        compact    == p.window.interval < Minute
    IN [compact |-> compact, max_cutoff |-> max_cutoff,
        raw_cutoff |-> IF compact THEN Max({p.now - RawRetention, max_cutoff}) ELSE max_cutoff]

(* ORDER BY bucket_ts, then the key of the metric. *)
Position(m) == IF m = "scalar" THEN 0 ELSE CHOOSE i \in DOMAIN DimOrder : DimOrder[i] = m

Before(x, r) == x.ts < r.ts \/ (x.ts = r.ts /\ Position(x.m) < Position(r.m))
                  \/ (x.ts = r.ts /\ x.m = r.m /\ x.level = "raw" /\ r.level = "minute")

(* The oldest rows below a cutoff, at most a batch of them. *)
OldestRows(table, cutoff) ==
    LET below == {r \in table : r.ts < cutoff}
    IN {r \in below : Cardinality({x \in below : Before(x, r)}) < MaintenanceBatch}

(* The aggregates of a minute, the row that is there already included. *)
MinuteRow(table, batch, ts, m) ==
    LET parts == {r \in batch : r.m = m /\ minute_bucket_start(r.ts) = ts}
        there == {r \in AtLevel(table, "minute") : r.m = m /\ r.ts = ts}
    IN [level |-> "minute", ts |-> ts, m |-> m, width |-> Minute,
        agg |-> UNION {r.agg : r \in parts \cup there}]

(* Scalars and dimensions are limited apart: exactly the rows that went into
   a minute are deleted, in the same transaction. *)
ExpiredRaw(table, cutoff) ==
    LET raw == AtLevel(table, "raw")
    IN OldestRows({r \in raw : r.m = "scalar"}, cutoff)
         \cup OldestRows({r \in raw : r.m # "scalar"}, cutoff)

(* Mutant: the whole bucket is deleted. *)
CompactDropsBuckets(table, batch) ==
    {r \in upsert(table, {MinuteRow(table, batch, minute_bucket_start(r.ts), r.m) : r \in batch}) :
        ~ \E b \in batch : b.level = r.level /\ b.ts = r.ts}

compact_batch(table, batch) ==
    LET minutes == {MinuteRow(table, batch, minute_bucket_start(r.ts), r.m) : r \in batch}
    IN upsert(table, minutes) \ batch

(* delete_bucket: the scalar row and every dimension row of the bucket. *)
delete_buckets(table, buckets) ==
    {r \in table : ~ \E b \in buckets : b.level = r.level /\ b.ts = r.ts}

ExpiredBuckets(table, level, cutoff) ==
    OldestRows({r \in AtLevel(table, level) : r.m = "scalar"}, cutoff)

(* A batch without a scalar row clears the orphans of the dimension table. *)
delete_expired(table, level, cutoff) ==
    LET buckets == ExpiredBuckets(table, level, cutoff)
    IN IF buckets = {} THEN {r \in table : r.level # level \/ r.ts >= cutoff}
       ELSE delete_buckets(table, buckets)

Exhausted(table, level, cutoff) ==
    Cardinality(ExpiredBuckets(table, level, cutoff)) < MaintenanceBatch

(* enforce_size_limit: the oldest buckets of both levels; orphans only when
   no scalar row is left. *)
shrink(table) ==
    LET scalars == {r \in table : r.m = "scalar"}
        oldest  == OldestRows(scalars, MaxTime + MaxTime)
    IN IF scalars # {} THEN delete_buckets(table, oldest)
       ELSE {r \in table : \A x \in OldestRows(table, MaxTime + MaxTime) : r.ts # x.ts}

----------------------------------------------------------------------------
(* The main thread (main.cpp). *)

restart_mark(ts) == [windows |-> <<>>, marks |-> <<[ts |-> ts, kind |-> "restart"]>>]

(* init_history: the history is off, or its store cannot be opened (bound:
   late). *)
Init ==
    /\ config \in {[window |-> FirstWindow, enabled |-> e] : e \in BOOLEAN}
    /\ rec = NewRecorder /\ baseline = FALSE
    /\ main = "run"
    /\ \/ /\ config.enabled /\ now = 0
          /\ writer = enqueue(NewWriter, restart_mark(0)) /\ worker = Idle
       \/ /\ now = MaxTime - 3
          /\ writer = NoWriter /\ worker = [Idle EXCEPT !.pc = "done"]
    /\ rows = {} /\ marks = {}
    /\ samples = <<>> /\ lost = {} /\ replaced = {} /\ expired = {} /\ reopened = FALSE
    /\ maintained = 0 /\ turns = 0 /\ faults = 0

Turn  == turns < MaxTurns /\ turns' = turns + 1 /\ UNCHANGED <<maintained, faults>>
Fault == faults < MaxFaults /\ faults' = faults + 1 /\ UNCHANGED <<maintained, turns>>

InWindow == UNION {{<<s, m>> : s \in rec.agg[m]} : m \in Metrics}

(* record_history_tick, called by on_measure.  k ticks were missed before this one:
   the recorder counts them even while there is no writer.  The wall clock
   was set by d since the last tick. *)
record_history_tick(k, d) ==
    LET ts     == now + 1 + k + d
        noted  == [rec EXCEPT !.missed = @ + k]
        jumped == IF baseline /\ d # 0
                  THEN [noted EXCEPT !.marks = Append(@, [ts |-> ts, kind |-> "clock_jump"])]
                  ELSE noted
        read   == Metrics \ (IF ts \in DOMAIN Absent THEN Absent[ts] ELSE {})
        out    == observe(jumped, Len(samples) + 1, read, ts, config.window)
    IN /\ main = "run"
       /\ now' = ts /\ ts \in 0..MaxTime
       /\ IF writer.open
          THEN /\ rec' = out.rec
               /\ baseline' = TRUE
               /\ samples' = Append(samples, [bucket |-> out.rec.bucket, read |-> read])
               /\ lost' = lost \cup Overflow(writer, out.batch)
               /\ writer' = enqueue(writer, out.batch)
          ELSE /\ rec' = noted
               /\ UNCHANGED <<baseline, samples, lost, writer>>
       /\ UNCHANGED <<config, main, worker, store, replaced, expired>>

(* Bound: time passes while the thread waits or writes a batch.  What a slow
   maintenance does to the queue a slow batch does too. *)
TimePasses == worker.pc \notin {"compact", "delete_raw", "delete_minute", "delete_marks", "shrink",
                               "maintain", "decide"}

Tick == TimePasses /\ record_history_tick(0, 0) /\ UNCHANGED <<reopened, bounds>>

MissedTick == TimePasses /\ record_history_tick(2, 0) /\ Fault /\ UNCHANGED reopened

JumpTick ==
    /\ TimePasses /\ Turn
    /\ \E d \in Jumps : record_history_tick(0, d) /\ reopened' = (reopened \/ d < 0)

(* start_history: the store opens, or the process goes on without a history. *)
start_history(restarted) ==
    \/ /\ writer' = IF restarted THEN enqueue(NewWriter, restart_mark(now')) ELSE NewWriter
       /\ worker' = Idle
       /\ UNCHANGED bounds
    \/ /\ Fault
       /\ writer' = NoWriter
       /\ worker' = [Idle EXCEPT !.pc = "done"]

(* shutdown_history, first part: what the window holds is enqueued. *)
flush_window ==
    LET b == flush_recorder(rec, now, config.window)
    IN /\ writer' = enqueue(writer, b)
       /\ lost' = lost \cup Overflow(writer, b)
       /\ rec' = [Reset(rec) EXCEPT !.bucket = None]

(* apply_sysmon_config. *)
apply_window(c) ==
    /\ main = "run" /\ c # config.window /\ Turn
    /\ config' = [config EXCEPT !.window = c]
    /\ reopened' = TRUE
    /\ UNCHANGED <<now, rec, baseline, main, writer, worker, store, samples,
                   lost, replaced, expired>>

enable_history_at_runtime ==
    /\ main = "run" /\ ~ writer.open
    /\ config' = [config EXCEPT !.enabled = TRUE]
    /\ reopened' = TRUE
    /\ now' = now
    /\ start_history(FALSE)
    /\ UNCHANGED <<rec, baseline, main, store, samples, lost, replaced, expired>>

disable_history_at_runtime ==
    /\ main = "run" /\ config.enabled
    /\ Turn
    /\ config' = [config EXCEPT !.enabled = FALSE]
    /\ baseline' = FALSE
    /\ IF writer.open
       THEN /\ flush_window /\ main' = "disabling"
       ELSE UNCHANGED <<writer, lost, rec, main>>
    /\ UNCHANGED <<now, worker, store, samples, replaced, expired, reopened>>

(* request_stop, then the end of run(). *)
request_stop ==
    /\ main = "run" /\ Turn
    /\ IF writer.open
       THEN /\ flush_window /\ main' = "stopping"
       ELSE UNCHANGED <<writer, lost, rec>> /\ main' = "down"
    /\ UNCHANGED <<now, config, baseline, worker, store, samples, replaced,
                   expired, reopened>>

(* HistoryWriter::flush: no more batches, wait for the thread, close. *)
SetStop ==
    /\ main \in {"disabling", "stopping"} /\ ~ writer.stop
    /\ writer' = [writer EXCEPT !.stop = TRUE]
    /\ UNCHANGED <<recorder, main, worker, store, ghosts, bounds>>

Joined ==
    /\ main \in {"disabling", "stopping"} /\ writer.stop /\ worker.pc = "done"
    /\ main' = IF main = "stopping" THEN "down" ELSE "run"
    /\ writer' = NoWriter
    /\ UNCHANGED <<recorder, worker, store, ghosts, bounds>>

(* The process dies: the window, the queue and what the thread held go. *)
Crash ==
    /\ main # "down" /\ Turn
    /\ main' = "down"
    /\ lost' = lost \cup InWindow \cup Observed(Merged(writer.queue)) \cup Observed(worker.hand)
                    \cup Observed(Merged(worker.leftover))
    /\ writer' = NoWriter
    /\ worker' = [Idle EXCEPT !.pc = "done"]
    /\ UNCHANGED <<recorder, store, samples, replaced, expired, reopened>>

Restart ==
    /\ main = "down"
    /\ main' = "run"
    /\ \E d \in {0, 2} : now' = now + d /\ now' <= MaxTime
    /\ baseline' = FALSE
    /\ rec' = NewRecorder
    /\ reopened' = TRUE
    /\ IF config.enabled THEN start_history(TRUE)
       ELSE writer' = NoWriter /\ worker' = [Idle EXCEPT !.pc = "done"] /\ UNCHANGED bounds
    /\ UNCHANGED <<config, store, samples, lost, replaced, expired>>

----------------------------------------------------------------------------
(* The thread of the writer: HistoryWriter::Impl::run. *)

To(pc) == worker' = [worker EXCEPT !.pc = pc]

unwritten == <<recorder, main, ghosts, bounds>>

Take ==
    /\ worker.pc = "idle"
    /\ writer.stop \/ writer.queue # <<>>
    /\ LET g == Gather(writer.queue)
       IN worker' = [worker EXCEPT !.hand = g.merged, !.leftover = g.left,
                                   !.should_stop = writer.stop,
                                   !.pc = IF g.left # <<>> THEN "putback" ELSE "flush"]
    /\ writer' = [writer EXCEPT !.queue = <<>>]
    /\ UNCHANGED <<unwritten, store>>

PutBack ==
    /\ worker.pc = "putback"
    /\ writer' = [writer EXCEPT !.queue = worker.leftover \o @]
    /\ worker' = [worker EXCEPT !.leftover = <<>>, !.pc = "flush"]
    /\ UNCHANGED <<unwritten, store>>

(* flush_batch: one transaction, or nothing is written. *)
flush_batch(next) ==
    LET n     == record_count(worker.hand)
        after == write_batch(rows, worker.hand)
    IN /\ worker' = [worker EXCEPT !.hand = EmptyBatch, !.pc = next]
       /\ \/ /\ rows' = after
             /\ marks' = marks \cup Range(worker.hand.marks)
             /\ replaced' = replaced \cup ((Stored(rows) \cup Observed(worker.hand)) \ Stored(after))
             /\ writer' = [writer EXCEPT !.written = @ + n]
             /\ UNCHANGED <<lost, bounds>>
          \/ /\ n > 0 /\ Fault
             /\ lost' = lost \cup Observed(worker.hand)
             /\ writer' = [writer EXCEPT !.failed = @ + n]
             /\ UNCHANGED <<store, replaced>>
       /\ UNCHANGED <<recorder, main, samples, expired, reopened>>

Flush == worker.pc = "flush" /\ flush_batch("maintain")

(* run_maintenance_if_due: also after an idle wait. *)
run_maintenance ==
    /\ worker.pc \in {"idle", "maintain"}
    /\ maintained < MaxMaintenance /\ maintained' = maintained + 1
    /\ LET p == [now |-> now, window |-> config.window]
       IN worker' = [worker EXCEPT !.policy = p,
                                   !.pc = IF Horizon(p).compact THEN "compact" ELSE "delete_raw"]
    /\ UNCHANGED <<recorder, main, writer, store, ghosts, turns, faults>>

(* Mutant: the round that saw the stop goes back to waiting. *)
DecideIgnoresStop ==
    /\ worker.pc \in {"maintain", "decide"} /\ To("idle")
    /\ UNCHANGED <<unwritten, writer, store>>

(* The end of a round. *)
Decide ==
    /\ worker.pc \in {"maintain", "decide"}
    /\ To(IF worker.should_stop THEN "drain" ELSE "idle")
    /\ UNCHANGED <<unwritten, writer, store>>

Compact ==
    LET batch == ExpiredRaw(rows, Horizon(worker.policy).raw_cutoff)
    IN /\ worker.pc = "compact"
       /\ IF batch = {} THEN To("delete_raw") /\ UNCHANGED rows
          ELSE rows' = compact_batch(rows, batch) /\ UNCHANGED worker
       /\ UNCHANGED <<unwritten, writer, marks>>

(* A level below its cutoff, batch by batch; a cutoff of 0 or less deletes
   nothing. *)
delete_level(pc, level, cutoff, next) ==
    /\ worker.pc = pc
    /\ IF cutoff <= 0 THEN To(next) /\ UNCHANGED <<rows, expired>>
       ELSE /\ rows' = delete_expired(rows, level, cutoff)
            /\ expired' = expired \cup (Stored(rows) \ Stored(rows'))
            /\ IF Exhausted(rows, level, cutoff) THEN To(next) ELSE UNCHANGED worker
    /\ UNCHANGED <<recorder, main, writer, marks, samples, lost, replaced, reopened, bounds>>

DeleteRaw == delete_level("delete_raw", "raw", Horizon(worker.policy).raw_cutoff, "delete_minute")

DeleteMinute ==
    delete_level("delete_minute", "minute", Horizon(worker.policy).max_cutoff, "delete_marks")

DeleteMarks ==
    /\ worker.pc = "delete_marks" /\ To("shrink")
    /\ marks' = {m \in marks : Horizon(worker.policy).max_cutoff <= 0
                               \/ m.ts >= Horizon(worker.policy).max_cutoff}
    /\ UNCHANGED <<unwritten, writer, rows>>

Shrink ==
    /\ worker.pc = "shrink"
    /\ IF Cardinality(rows) > MaxRows
       THEN rows' = shrink(rows) /\ UNCHANGED worker
       ELSE To("decide") /\ UNCHANGED rows
    /\ expired' = expired \cup (Stored(rows) \ Stored(rows'))
    /\ UNCHANGED <<recorder, main, writer, marks, samples, lost, replaced, reopened, bounds>>

(* A step of the maintenance throws: the rest waits for the next period. *)
MaintenanceFails ==
    /\ worker.pc \in {"compact", "delete_raw", "delete_minute", "delete_marks", "shrink"}
    /\ Fault /\ To("decide")
    /\ UNCHANGED <<recorder, main, writer, store, ghosts>>

(* drain_remaining. *)
Drain ==
    /\ worker.pc = "drain"
    /\ IF writer.queue = <<>> THEN To("done") /\ UNCHANGED writer
       ELSE /\ worker' = [worker EXCEPT !.hand = Merged(writer.queue), !.pc = "drain_flush"]
            /\ writer' = [writer EXCEPT !.queue = <<>>]
    /\ UNCHANGED <<unwritten, store>>

DrainFlush == worker.pc = "drain_flush" /\ flush_batch("drain")

Work ==
    \/ Take \/ PutBack \/ Flush \/ Compact \/ DeleteRaw \/ DeleteMinute
    \/ DeleteMarks \/ Shrink \/ Decide \/ Drain \/ DrainFlush

MainNext ==
    \/ Tick \/ MissedTick \/ JumpTick
    \/ \E c \in Windows : apply_window(c)
    \/ enable_history_at_runtime \/ disable_history_at_runtime \/ request_stop
    \/ SetStop \/ Joined \/ Crash \/ Restart

Next == MainNext \/ Work \/ run_maintenance \/ MaintenanceFails

Spec == Init /\ [][Next]_vars

(* The scheduler runs both threads; nothing forces a restart, a maintenance
   period or a fault. *)
FairSpec == Spec /\ WF_vars(Work) /\ WF_vars(SetStop \/ Joined)

----------------------------------------------------------------------------
(* The query of the web server: SysmonHistoryService::query. *)

(* Descending with one row more than asked for, then cut: the newest ones. *)
load_level(metric, level, from, to, max_points) ==
    LET found == {r \in AtLevel(rows, level) : r.m = metric /\ r.ts >= from /\ r.ts < to}
    IN {r \in found : Cardinality({x \in found : x.ts > r.ts}) < max_points}

select_auto_level(from, to) == IF to - from <= 2 * Minute THEN "raw" ELSE "minute"

(* The neighbours in the series of the answer. *)
Adjacent(points) ==
    {pq \in points \X points : /\ pq[1].ts < pq[2].ts
                             /\ \A r \in points : r.ts <= pq[1].ts \/ r.ts >= pq[2].ts}

derive_interval_from_buckets(points) ==
    LET deltas == {pq[2].ts - pq[1].ts : pq \in Adjacent(points)}
    IN IF deltas = {} THEN 0 ELSE Min(deltas)

Newest(points) == CHOOSE r \in points : \A x \in points : x.ts <= r.ts

query_interval(metric, level, points) ==
    CASE points = {}        -> 0
      [] level = "minute"   -> Minute
      [] metric = "scalar"  -> Newest(points).width
      [] OTHER              -> derive_interval_from_buckets(points)

derive_gaps(points, interval) ==
    {[from |-> pq[1].ts + interval, to |-> pq[2].ts] :
        pq \in {x \in Adjacent(points) : x[2].ts > x[1].ts + interval}}

query(metric, from, to, max_points) ==
    LET wanted == select_auto_level(from, to)
        other  == IF wanted = "raw" THEN "minute" ELSE "raw"
        first  == load_level(metric, wanted, from, to, max_points)
        second == load_level(metric, other, from, to, max_points)
        level  == IF first = {} /\ second # {} THEN other ELSE wanted
        points == IF first = {} THEN second ELSE first
        width  == query_interval(metric, level, points)
    IN [level |-> level, points |-> points,
        gaps |-> IF width > 0 THEN derive_gaps(points, width) ELSE {}]

----------------------------------------------------------------------------
(* Properties. *)

WorkerStates ==
    {"idle", "putback", "flush", "maintain", "compact", "delete_raw", "delete_minute",
     "delete_marks", "shrink", "decide", "drain", "drain_flush", "done"}

TypeOK ==
    /\ now \in 0..MaxTime /\ turns \in 0..MaxTurns /\ faults \in 0..MaxFaults /\ maintained \in 0..MaxMaintenance
    /\ config.window \in Windows /\ config.enabled \in BOOLEAN
    /\ main \in {"run", "disabling", "stopping", "down"}
    /\ worker.pc \in WorkerStates
    /\ Len(writer.queue) <= QueueCapacity + Len(worker.leftover) + QueueCapacity
    /\ \A r \in rows : r.level \in {"raw", "minute"} /\ r.m \in Metrics

(* Every record handed to the writer is queued, in the hands of its thread,
   written, or counted as dropped or failed: the numbers that the shutdown
   logs are the whole truth. *)
RecordsConserved ==
    writer.open =>
      writer.enqueued = record_count(Merged(writer.queue)) + record_count(worker.hand)
                          + record_count(Merged(worker.leftover))
                          + writer.written + writer.dropped + writer.failed

(* A key names one row, and a sample is in one row of its metric: neither a
   compaction in batches nor one that is interrupted counts a sample twice. *)
CountedOnce ==
    \A r, x \in rows : r # x => /\ Key(r) # Key(x)
                                /\ r.m = x.m => r.agg \cap x.agg = {}

InFlight ==
    InWindow \cup Observed(Merged(writer.queue)) \cup Observed(worker.hand)
      \cup Observed(Merged(worker.leftover))

(* No sample disappears without a reason: what was observed is in the window,
   on its way, or stored, unless the writer counted it as dropped or failed,
   the process died, the retention deleted it, or a bucket that was begun a
   second time (after a restart, a new window, a clock set back) took its
   place.  After a stop nothing is on its way any more. *)
SamplesAccounted ==
    /\ \A s \in 1..Len(samples) : \A m \in samples[s].read :
         <<s, m>> \in InFlight \cup Stored(rows) \cup lost \cup expired \cup replaced
    /\ replaced # {} => reopened
    /\ (main = "down" \/ ~ writer.open) =>
         \A s \in 1..Len(samples) : \A m \in samples[s].read :
           <<s, m>> \in Stored(rows) \cup lost \cup expired \cup replaced

(* The records and the samples of the history, from the reading to the row. *)
HistoryAccounted == TypeOK /\ RecordsConserved /\ CountedOnce /\ SamplesAccounted

(* A sample leaves the raw rows only when its bucket is older than the raw
   retention, and the store only when its bucket, or the minute it went into,
   is older than the whole retention, except when the size limit deletes the
   oldest buckets: a window that is configured below a minute for a while
   shortens nothing, and no failure in the middle does. *)
RetentionHonest ==
    [][LET gone(level) == Stored(AtLevel(rows, level)) \ Stored(AtLevel(rows', level))
           left   == Stored(rows) \ Stored(rows')
           age(t) == worker.policy.now - t
       IN worker.pc \notin {"shrink", "flush", "drain_flush"} =>
            /\ \A p \in gone("raw") : age(samples[p[1]].bucket) > Min({RawRetention, MaxRetention})
            /\ \A p \in left : age(minute_bucket_start(samples[p[1]].bucket)) > MaxRetention]_vars

(* A window with fewer samples than it should have carries a sample_gap mark,
   so that a hole in it is not taken for quiet load. *)
IncompleteIsMarked ==
    ~ reopened =>
      \A r \in AtLevel(rows, "raw") :
        (r.m = "scalar" /\ Cardinality(r.agg) + 1 < r.width) =>
          \E k \in marks : k.kind = "sample_gap" /\ k.ts \in r.ts..(r.ts + r.width - 1)

(* The gaps of an answer are the holes between its points: no moment is both
   covered by a point and reported missing, and none is neither, as long as
   all rows have one width. *)
GapsHonest ==
    ~ reopened =>
      \A from \in {0, Minute}, max_points \in {2, MaxTime} :
        LET a == query("scalar", from, MaxTime + 1, max_points)
            covered(t) == \E r \in a.points : t >= r.ts /\ t < r.ts + r.width
            missing(t) == \E g \in a.gaps : t >= g.from /\ t < g.to
        IN a.points # {} =>
             \A t \in Min({r.ts : r \in a.points})..Newest(a.points).ts : covered(t) <=> ~ missing(t)

(* What the web server answers is honest about what was not measured. *)
AnswersHonest == IncompleteIsMarked /\ GapsHonest

(* A stop or a disable comes to an end: the thread empties its queue and is
   joined.  A batch that is queued is taken. *)
HistoryProgress ==
    /\ main \in {"disabling", "stopping"} ~> main \in {"run", "down"}
    /\ writer.queue # <<>> ~> writer.queue = <<>>
=============================================================================
