----------------------------- MODULE SdkIngest -----------------------------
(***************************************************************************)
(* The strategy SDK's intake of trading frames, for one account and one    *)
(* trading day: TdIngestGate (watermark, first-frame gap, reset, second    *)
(* defence against duplicate trades), the backfill of a gap from the trade *)
(* database with its retries, the replay ring, and dz_next_event, which    *)
(* hands the strategy one frame per call.                                  *)
(*                                                                         *)
(* The event channel is the part of it this reader has not read yet; it is *)
(* what ShmChannel promises a reader, an ordered log.  The database can be *)
(* read at any time: the SDK reads it in one snapshot per query.           *)
(***************************************************************************)
EXTENDS TradeStore

CONSTANTS
  kGapRetryMax,        \* attempts to cover a gap (10 in the code)
  ReplaySlots,         \* REPLAY_FRAME_SLOTS (512 in the code)
  kMaxStaged           \* frames that can be staged during a retry (512)

ASSUME RetryAssumption == kGapRetryMax \in Nat \ {0}
ASSUME RingAssumption == ReplaySlots \in Nat \ {0} /\ kMaxStaged \in Nat \ {0}

VARIABLES
  db,    \* the committed rows of trade.db
  ch,    \* the frames this strategy has not read yet
  sdk,   \* DzContext, its TdIngestGate and its GapRetryState
  user   \* what the strategy was handed: latest order states, trades, losses

NoGap == [active |-> FALSE, from |-> 0, to |-> 0, attempts |-> 0,
          trigger |-> <<>>, staged |-> <<>>]

\* scan: in dz_next_event's loop over the channel with a retry under way (at any
\* other time the beginning of a call has nothing to do and a frame is as good
\* as in the loop); prev: the last ACCOUNT_STATUS seen ("" none).
\* hasW is has_watermark: an account without rows has no watermark.
NewContext ==
  [up |-> "closed", scan |-> FALSE, W |-> 0, hasW |-> FALSE, last |-> 0, hasLast |-> FALSE,
   pending |-> <<>>, prev |-> "", seen |-> {}, gap |-> NoGap, replay |-> <<>>,
   deferred |-> <<>>]
NoUser == [ord |-> <<>>, trd |-> <<>>, lost |-> {}]

-----------------------------------------------------------------------------
(* TdIngestGate.  A gate operator takes and gives the context.             *)
set_watermark(x, d) ==
  [x EXCEPT !.W = query_max_seq(d), !.hasW = (query_max_seq(d) > 0)]

detect_reset(x, seq) == x.hasLast /\ seq < x.last

reset_account(x, d) ==
  [x EXCEPT !.W = query_max_seq(d), !.hasW = TRUE, !.last = 0, !.hasLast = FALSE,
            !.seen = {}, !.gap = NoGap]

admit_skips(x, seq) == (x.hasLast /\ seq <= x.last) \/ (x.hasW /\ seq <= x.W)

\* The gap is noted before the verdict; only the first frame can show one.
admit(x, seq) ==
  LET noted == IF ~x.hasLast /\ x.hasW /\ seq > x.W + 1
               THEN [x EXCEPT !.pending = <<[from |-> x.W + 1, to |-> seq - 1]>>] ELSE x
  IN  IF admit_skips(x, seq) THEN noted
      ELSE [noted EXCEPT !.last = seq, !.hasLast = TRUE]

-----------------------------------------------------------------------------
(* Gap backfill.                                                           *)
GapRows(d, from, to) ==
  db_query_seq_range(d, "ord", from, to) \o db_query_seq_range(d, "trd", from, to)
    \o db_query_seq_range(d, "pos", from, to) \o db_query_seq_range(d, "acc", from, to)

\* Either every seq of the range has its row, or a later row is committed and
\* the missing ones will never come (one writer, commits in seq order).
gap_covered(d, from, to) ==
  Len(GapRows(d, from, to)) >= to - from + 1 \/ query_max_seq(d) >= to

\* The ring takes what fits; the rest is dropped with an ERROR line.
enqueue(x, frames) ==
  LET room == ReplaySlots - Len(x.replay)
  IN  [x EXCEPT !.replay = @ \o SubSeq(frames, 1, IF Len(frames) <= room THEN Len(frames) ELSE room)]
Fits(x, frames) == Len(x.replay) + Len(frames) <= ReplaySlots

release_held_trigger(x) == enqueue(x, x.gap.trigger \o x.gap.staged)

\* One attempt: covered rows, then the trigger, then the staged frames.
drive_gap_retry(x, d) ==
  LET rows == GapRows(d, x.gap.from, x.gap.to)
  IN  IF ~x.gap.active THEN x
      ELSE IF gap_covered(d, x.gap.from, x.gap.to)
      THEN [release_held_trigger(enqueue(x, rows)) EXCEPT !.gap = NoGap]
      ELSE IF x.gap.attempts + 1 >= kGapRetryMax
      THEN [release_held_trigger(x) EXCEPT !.gap = NoGap]
      ELSE [x EXCEPT !.gap.attempts = @ + 1]

\* What an attempt loses for good, each with an ERROR line.
RetryLoss(x, d) ==
  LET rows == GapRows(d, x.gap.from, x.gap.to)
      held == x.gap.trigger \o x.gap.staged
      covered == gap_covered(d, x.gap.from, x.gap.to)
  IN  IF ~x.gap.active THEN {}
      ELSE (IF ~covered /\ x.gap.attempts + 1 >= kGapRetryMax THEN {"exhausted"} ELSE {})
           \cup (IF covered /\ ~Fits(x, rows \o held) THEN {"overflow"} ELSE {})

stage(x, f) ==
  IF Len(x.gap.staged) < kMaxStaged THEN [x EXCEPT !.gap.staged = Append(@, f)] ELSE x

-----------------------------------------------------------------------------
(* One frame through dispatch_frame: the new context, whether the frame is *)
(* handed on, and what was lost.                                           *)
is_own_report(f) == f.k \in {"ord", "trd"} => f.own

handle_gap(x, d, f) ==
  IF x.gap.active
  THEN LET y == stage(x, f)
       IN  [x |-> drive_gap_retry(y, d), pass |-> FALSE,
            lost |-> RetryLoss(y, d)
                       \cup (IF Len(x.gap.staged) < kMaxStaged THEN {} ELSE {"overflow"})]
  ELSE IF x.pending = <<>> THEN [x |-> x, pass |-> TRUE, lost |-> {}]
  ELSE LET p == x.pending[1]
           taken == [x EXCEPT !.pending = <<>>]
           rows == GapRows(d, p.from, p.to)
       IN  IF ~gap_covered(d, p.from, p.to)
           THEN [x |-> [taken EXCEPT !.gap = [active |-> TRUE, from |-> p.from, to |-> p.to,
                                              attempts |-> 1, trigger |-> <<f>>,
                                              staged |-> <<>>]],
                 pass |-> FALSE, lost |-> {}]
           ELSE [x |-> enqueue(taken, rows), pass |-> Fits(x, rows),
                 lost |-> IF Fits(x, rows) THEN {} ELSE {"overflow"}]

\* A reset takes the newest committed seq for the watermark although frames
\* below it are still unread: admit will skip those.  Nothing is logged then.
SkippedByReset(d, rest) ==
  \E i \in 1..Len(rest) : rest[i].k # "st" /\ rest[i].seq <= query_max_seq(d)

\* rest: the frames behind f in the channel.
ingest_td_frame(x, d, f, rest) ==
  LET back == detect_reset(x, f.seq)
      y == IF back THEN reset_account(x, d) ELSE x
      skipped == IF back /\ (SkippedByReset(d, rest) \/ x.gap.active) THEN {"reset"} ELSE {}
      h == handle_gap(admit(y, f.seq), d, f)
  IN  IF admit_skips(y, f.seq)
      THEN [x |-> admit(y, f.seq), pass |-> FALSE, lost |-> skipped]
      ELSE [h EXCEPT !.lost = @ \cup skipped]

\* The gate is also reset when a status frame turns Offline into Ready.
on_account_status_gate_reset(x, d, f) ==
  LET y == [x EXCEPT !.prev = f.st]
  IN  IF x.prev = "Offline" /\ f.st = "Ready" THEN reset_account(y, d) ELSE y

admit_trade(r, f) ==
  IF ~r.pass \/ f.k # "trd" THEN r
  ELSE [r EXCEPT !.pass = f.id \notin r.x.seen, !.x.seen = @ \cup {f.id}]

dispatch_frame(x, d, f, rest) ==
  IF f.k = "st"
  THEN [x |-> on_account_status_gate_reset(x, d, f), pass |-> TRUE,
        lost |-> IF x.prev = "Offline" /\ f.st = "Ready" /\ SkippedByReset(d, rest)
                 THEN {"reset"} ELSE {}]
  ELSE LET r == ingest_td_frame(x, d, f, rest)
       IN  admit_trade([r EXCEPT !.pass = @ /\ is_own_report(f)], f)

-----------------------------------------------------------------------------
(* The strategy's side: what it knows after a frame is handed to it.       *)
Count(t, id) == IF id \in DOMAIN t THEN t[id] ELSE 0
Told(u, f) ==
  CASE f.k = "ord" -> [u EXCEPT !.ord = [o \in DOMAIN @ \cup {f.oid} |->
                                           IF o = f.oid THEN f ELSE @[o]]]
    [] f.k = "trd" -> [u EXCEPT !.trd = [i \in DOMAIN @ \cup {f.id} |->
                                           Count(@, i) + (IF i = f.id THEN 1 ELSE 0)]]
    [] OTHER -> u

\* What it reads from the database when it starts.
Snapshot(d) ==
  LET mine == {r \in d : r.own}
  IN  [ord |-> [o \in {r.oid : r \in {q \in mine : q.k = "ord"}} |->
                  CHOOSE r \in mine : r.k = "ord" /\ r.oid = o],
       trd |-> [i \in {r.id : r \in {q \in mine : q.k = "trd"}} |-> 1],
       lost |-> {}]

-----------------------------------------------------------------------------
(* dz_init: the reader is opened at the write position, then the           *)
(* watermark is loaded.                                                    *)
OpenReader ==
  /\ sdk.up = "closed"
  /\ sdk' = [NewContext EXCEPT !.up = "open"] /\ ch' = <<>>
  /\ UNCHANGED <<db, user>>

load_all_watermarks ==
  /\ sdk.up = "open"
  /\ sdk' = [set_watermark(sdk, db) EXCEPT !.up = "up"] /\ user' = Snapshot(db)
  /\ UNCHANGED <<db, ch>>

dz_release ==
  /\ sdk.up = "up" /\ ~sdk.scan
  /\ sdk' = NewContext /\ ch' = <<>> /\ user' = NoUser
  /\ UNCHANGED db

\* pop_own_replay_frame drops the frames of others up to the first own one.
OwnFrom(x) == SelectInSeq(x.replay, is_own_report)
Popped(x) == [x EXCEPT !.replay = IF OwnFrom(x) = 0 THEN <<>> ELSE SubSeq(@, OwnFrom(x) + 1, Len(@))]

Pending(x) == x.gap.active \/ x.replay # <<>> \/ x.deferred # <<>>

\* The call's beginning: one retry, then a replay frame or the deferred one,
\* and only then the channel.
NextEventEntry ==
  /\ sdk.up = "up" /\ ~sdk.scan /\ Pending(sdk)
  /\ LET x == drive_gap_retry(sdk, db)
         u == [user EXCEPT !.lost = @ \cup RetryLoss(sdk, db)]
     IN  IF OwnFrom(x) > 0
         THEN sdk' = Popped(x) /\ user' = Told(u, x.replay[OwnFrom(x)])
         ELSE IF x.deferred # <<>>
         THEN sdk' = [Popped(x) EXCEPT !.deferred = <<>>] /\ user' = Told(u, x.deferred[1])
         ELSE sdk' = [Popped(x) EXCEPT !.scan = x.gap.active] /\ user' = u
  /\ UNCHANGED <<db, ch>>

\* One turn of the loop over the channel.  A frame that is not handed on leaves
\* the call in the loop.
NextEventFrame ==
  /\ sdk.up = "up" /\ (sdk.scan \/ ~Pending(sdk)) /\ ch # <<>>
  /\ LET f == Head(ch)
         r == dispatch_frame(sdk, db, f, Tail(ch))
         u == [user EXCEPT !.lost = @ \cup r.lost]
         x == [Popped(r.x) EXCEPT !.scan = FALSE]
     IN  /\ ch' = Tail(ch)
         /\ IF OwnFrom(r.x) > 0
            THEN /\ sdk' = [x EXCEPT !.deferred = IF r.pass THEN <<f>> ELSE @]
                 /\ user' = Told(u, r.x.replay[OwnFrom(r.x)])
            ELSE IF r.pass THEN sdk' = x /\ user' = Told(u, f)
            ELSE sdk' = [x EXCEPT !.scan = x.gap.active] /\ user' = u
  /\ UNCHANGED db

\* The loop ends: the channel is empty, or 32 frames were not for the strategy.
NextEventReturn ==
  /\ sdk.up = "up" /\ sdk.scan
  /\ sdk' = [sdk EXCEPT !.scan = FALSE]
  /\ UNCHANGED <<db, ch, user>>

CaughtUp ==
  /\ sdk.up = "up" /\ ~sdk.scan /\ ch = <<>> /\ sdk.replay = <<>>
  /\ sdk.deferred = <<>> /\ ~sdk.gap.active
=============================================================================
