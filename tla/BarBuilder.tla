----------------------------- MODULE BarBuilder -----------------------------
(***************************************************************************)
(* From ticks to bars (bar/types.h, bar/intraday_bar_builder.h) and how a  *)
(* strategy that starts in the middle of a day takes over from the archive *)
(* (bar_strategy/manager.h, dependencies.h).                               *)
(*                                                                         *)
(* The market publishes ticks.  A builder that has run from the beginning  *)
(* makes the archive.  A strategy subscribes, from then on its unread      *)
(* ticks wait in the market data channel, queries the archive at some      *)
(* later moment, and takes it over either by replaying every bar as four   *)
(* synthetic ticks (the framework) or by restoring the last bar (the       *)
(* builder's own interface).  It then drains the ticks that waited, which  *)
(* overlap the archive, and goes live.                                     *)
(*                                                                         *)
(* Turnover follows the volume and open interest the last tick, so both    *)
(* are left out, like the drop counters and the open and update events.    *)
(***************************************************************************)
EXTENDS Integers, Sequences
LOCAL INSTANCE SequencesExt
LOCAL INSTANCE FiniteSetsExt

CONSTANTS
    SECS_PER_DAY,      \* 86400
    ANCHOR_CLOCK_SEC,  \* clock time at which the trading day begins
    period_sec,
    sessions,          \* sequence of [begin_sec, end_sec]
    auctions,          \* sequence of [kind, session_index, begin_sec, end_sec]
    warmup_bars,       \* archived bars that are replayed
    Dates, Clocks,     \* dates and clock times of the ticks
    Moves,             \* pairs of a price and the volume traded at it
    MaxTicks,          \* bound: ticks published
    MaxGlitches        \* bound: ticks among them that are bad data

ASSUME BuilderAssumption ==
    /\ period_sec \in Nat \ {0} /\ warmup_bars \in Nat \ {0}
    /\ ANCHOR_CLOCK_SEC \in 0..(SECS_PER_DAY - 1)
    /\ Clocks \subseteq -1..SECS_PER_DAY

(* TradingSessionTable::valid *)
ValidTable ==
    /\ \A i \in 1..Len(sessions) :
          /\ 0 <= sessions[i].begin_sec /\ sessions[i].begin_sec < sessions[i].end_sec
          /\ sessions[i].end_sec < SECS_PER_DAY
          /\ i > 1 => sessions[i].begin_sec > sessions[i - 1].end_sec
    /\ \A i \in 1..Len(auctions) :
          LET w == auctions[i]
              s == sessions[w.session_index]
          IN  /\ 0 <= w.begin_sec /\ w.begin_sec <= w.end_sec
              /\ i > 1 => w.begin_sec > auctions[i - 1].end_sec
              /\ IF w.kind = "Open" THEN w.end_sec < s.begin_sec
                 ELSE s.begin_sec <= w.begin_sec /\ w.end_sec <= s.end_sec

ASSUME TableAssumption == ValidTable

VARIABLES
    published,  \* ticks published, bad ones included
    glitches,   \* bad ones among them
    last,       \* date, time and volume of the last good tick: what the market goes on from
    ref,        \* the builder that has seen every tick
    refOut,     \* the bars it has closed
    st,         \* the strategy: off, subscribed, draining, live
    since,      \* history: bars begun before the strategy subscribed, until it has the archive
    unread,     \* the ticks waiting in its channel
    tail,       \* replay_tail: the last archived bar, or NoBar
    str,        \* its builder
    strOut,     \* the bars it has been told are closed
    archive     \* history: the bars it took over

market == <<published, glitches, last, ref, refOut>>
vars   == <<market, st, since, unread, tail, str, strOut, archive>>

----------------------------------------------------------------------------
(* Trading time. *)

from_clock(clock) == (clock + SECS_PER_DAY - ANCHOR_CLOCK_SEC) % SECS_PER_DAY

to_clock(tsec) == (tsec + ANCHOR_CLOCK_SEC) % SECS_PER_DAY

Floor(tsec) == (tsec \div period_sec) * period_sec

Within(tsec, w) == w.begin_sec <= tsec /\ tsec <= w.end_sec

(* The bucket of a tick.  An opening auction belongs to the first bucket of
   the session after it, the last second of a session to the bucket before. *)
resolve_tick_bucket(tsec) ==
    LET opening == {i \in 1..Len(auctions) : auctions[i].kind = "Open" /\ Within(tsec, auctions[i])}
        trading == {i \in 1..Len(sessions) : Within(tsec, sessions[i])}
        ends    == \E i \in trading : tsec = sessions[i].end_sec
    IN  CASE opening # {} ->
               [in_session |-> TRUE, open_auction |-> TRUE,
                begin_sec |-> Floor(sessions[auctions[CHOOSE i \in opening : TRUE].session_index].begin_sec)]
          [] opening = {} /\ trading # {} ->
               [in_session |-> TRUE, open_auction |-> FALSE,
                begin_sec |-> Floor(IF ends THEN tsec - 1 ELSE tsec)]
          [] OTHER -> [in_session |-> FALSE, open_auction |-> FALSE, begin_sec |-> 0]

----------------------------------------------------------------------------
(* IntradayBarBuilder.  bar is the current bar, restored the final bar it was
   restored from and whose cumulative volume it still needs. *)

NoBar == [date |-> 0]

Fresh == [bar |-> NoBar, start_cum_volume |-> 0, auction_only |-> FALSE, restored |-> NoBar]

HasBar(b) == b.bar # NoBar

(* The last accepted tick's day and cumulative volume. *)
DayBasis(b) == IF HasBar(b) THEN b.bar ELSE b.restored

BasisVolume(b, date) == IF DayBasis(b).date = date THEN DayBasis(b).cum_volume ELSE 0

cumulative_basis_ok(b, t) == t.volume >= BasisVolume(b, t.date)

(* The plausible bug: only the date of a late tick is looked at. *)
EarlierDay(b, t) == t.date < DayBasis(b).date

out_of_order(b, t) ==
    IF HasBar(b)
    THEN \/ t.date < b.bar.date
         \/ t.date = b.bar.date /\ from_clock(t.time) < b.bar.last_tick_sec
    ELSE t.date < b.restored.date

restored_final_accepts(b, t, begin_sec) ==
    \/ b.restored = NoBar
    \/ t.date > b.restored.date
    \/ begin_sec > b.restored.begin_sec

Accepts(b, t) ==
    LET bucket == resolve_tick_bucket(from_clock(t.time))
    IN  /\ t.time \in 0..(SECS_PER_DAY - 1)
        /\ t.date > 0
        /\ ~out_of_order(b, t)
        /\ t.last_price > 0
        /\ bucket.in_session
        /\ restored_final_accepts(b, t, bucket.begin_sec)
        /\ cumulative_basis_ok(b, t)

(* update_bar, or update_auction_bar where each tick replaces the prices. *)
update_bar(b, t, overwrites) ==
    LET p == t.last_price
        prices == IF overwrites THEN [open |-> p, high |-> p, low |-> p, close |-> p]
                  ELSE [open |-> b.bar.open, close |-> p,
                        high |-> Max({p, b.bar.high}), low |-> Min({p, b.bar.low})]
    IN  [b EXCEPT !.bar =
            [date |-> b.bar.date, begin_sec |-> b.bar.begin_sec, is_final |-> FALSE,
             open |-> prices.open, high |-> prices.high, low |-> prices.low, close |-> prices.close,
             last_tick_sec |-> from_clock(t.time), cum_volume |-> t.volume,
             volume |-> t.volume - b.start_cum_volume]]

begin_bar(b, t, bucket) ==
    LET opened == [Fresh EXCEPT
                      !.bar = [date |-> t.date, begin_sec |-> bucket.begin_sec],
                      !.start_cum_volume = BasisVolume(b, t.date),
                      !.auction_only = bucket.open_auction]
    IN  update_bar(opened, t, TRUE)

(* Same day and same bucket: the tick goes into the current bar. *)
SameBucket(b, t, bucket) ==
    HasBar(b) /\ b.bar.begin_sec = bucket.begin_sec /\ b.bar.date = t.date

(* A further tick of the auction replaces the prices only as long as the bar
   has seen nothing else. *)
on_open_auction_tick(b, t) == update_bar(b, t, b.auction_only)

(* The builder after a tick. *)
on_tick(b, t) ==
    LET bucket == resolve_tick_bucket(from_clock(t.time))
    IN  CASE ~Accepts(b, t) -> b
          [] Accepts(b, t) /\ ~SameBucket(b, t, bucket) -> begin_bar(b, t, bucket)
          [] Accepts(b, t) /\ SameBucket(b, t, bucket) /\ bucket.open_auction ->
               on_open_auction_tick(b, t)
          [] OTHER -> [update_bar(b, t, FALSE) EXCEPT !.auction_only = FALSE]

(* The bar the tick closes, if any. *)
finalize_bar(b, t) ==
    LET bucket == resolve_tick_bucket(from_clock(t.time))
    IN  IF Accepts(b, t) /\ HasBar(b) /\ ~SameBucket(b, t, bucket)
        THEN <<[b.bar EXCEPT !.is_final = TRUE]>> ELSE <<>>

(* A builder and the bars it closes, over a sequence of ticks. *)
Feed(b, out, ticks) ==
    FoldLeft(LAMBDA s, t : [builder |-> on_tick(s.builder, t),
                            out |-> s.out \o finalize_bar(s.builder, t)],
             [builder |-> b, out |-> out], ticks)

bucket_overlaps_session(begin_sec) ==
    \E i \in 1..Len(sessions) :
        begin_sec <= sessions[i].end_sec /\ begin_sec + period_sec > sessions[i].begin_sec

(* restore throws unless this holds. *)
validate_restore_bar(bar) ==
    /\ bar.date > 0
    /\ bar.begin_sec \in 0..(SECS_PER_DAY - 1) /\ bar.begin_sec % period_sec = 0
    /\ bar.last_tick_sec \in 0..(SECS_PER_DAY - 1)
    /\ bucket_overlaps_session(bar.begin_sec)
    /\ bar.cum_volume >= (IF bar.is_final THEN 0 ELSE bar.volume)
    /\ ~bar.is_final => bar.volume >= 0

is_auction_only_bar(bar) ==
    LET bucket == resolve_tick_bucket(bar.last_tick_sec)
    IN  /\ bucket.open_auction /\ bucket.begin_sec = bar.begin_sec
        /\ bar.open = bar.high /\ bar.high = bar.low /\ bar.low = bar.close


adopt_forming_bar(bar) ==
    [Fresh EXCEPT !.bar = bar,
                  !.start_cum_volume = bar.cum_volume - bar.volume,
                  !.auction_only = is_auction_only_bar(bar)]

restore(bar) ==
    IF bar.is_final THEN [Fresh EXCEPT !.restored = bar] ELSE adopt_forming_bar(bar)

----------------------------------------------------------------------------
(* Taking over the archive. *)

(* An archived bar as four ticks that end at its last tick. *)
make_replay_ticks(bar) ==
    LET late   == bar.last_tick_sec - bar.begin_sec
        span   == Max({0, Min({late, period_sec - 1})})
        offset(k) == IF late < 0 THEN late ELSE (span * k) \div 4
        prices == IF bar.close < bar.open
                  THEN <<bar.open, bar.high, bar.low, bar.close>>
                  ELSE <<bar.open, bar.low, bar.high, bar.close>>
    IN  [k \in 1..4 |->
           [date |-> bar.date, time |-> to_clock(bar.begin_sec + offset(k)),
            last_price |-> prices[k],
            volume |-> bar.cum_volume - bar.volume + ((bar.volume * k) \div 4)]]

should_drop_continuation_tick(t) ==
    LET bucket == resolve_tick_bucket(from_clock(t.time))
    IN  /\ tail # NoBar
        /\ \/ t.date < tail.date
           \/ /\ t.date = tail.date
              /\ t.time \in 0..(SECS_PER_DAY - 1) /\ bucket.in_session
              /\ \/ bucket.begin_sec < tail.begin_sec
                 \/ bucket.begin_sec = tail.begin_sec /\ tail.is_final

(* Nothing published, nothing subscribed. *)
Init ==
    /\ published = 0 /\ glitches = 0
    /\ last = [date |-> 0, time |-> ANCHOR_CLOCK_SEC, volume |-> 0]
    /\ ref = Fresh /\ refOut = <<>>
    /\ st = "off" /\ since = 0 /\ unread = <<>> /\ tail = NoBar
    /\ str = Fresh /\ strOut = <<>> /\ archive = <<>>

(* Every tick reaches the archive's builder and the channel. *)
Publish(t) ==
    /\ published < MaxTicks
    /\ published' = published + 1
    /\ ref' = on_tick(ref, t)
    /\ refOut' = refOut \o finalize_bar(ref, t)
    /\ unread' = IF st = "off" THEN <<>> ELSE Append(unread, t)
    /\ UNCHANGED <<st, since, tail, str, strOut, archive>>

Tick(at, price) == [date |-> at.date, time |-> at.time, volume |-> at.volume, last_price |-> price]

(* The market goes on: time does not go back, volume accumulates over a day. *)
Trade ==
    \E date \in Dates, clock \in Clocks, move \in Moves :
      LET traded == IF date = last.date THEN last.volume ELSE 0
          now == [date |-> date, time |-> clock, volume |-> traded + move[2]]
      IN  /\ clock \in 0..(SECS_PER_DAY - 1)
          /\ \/ date > last.date
             \/ date = last.date /\ from_clock(clock) >= from_clock(last.time)
          /\ last' = now
          /\ Publish(Tick(now, move[1]))
          /\ UNCHANGED glitches

(* Bad data: a tick that is late, whose volume went back, or that has no price
   or no time of day. *)
Glitch ==
    /\ glitches < MaxGlitches /\ last.date > 0
    /\ glitches' = glitches + 1
    /\ \E clock \in Clocks, move \in Moves :
          \/ /\ from_clock(clock) < from_clock(last.time)
             /\ Publish(Tick([last EXCEPT !.time = clock, !.volume = @ + 1], move[1]))
          \/ /\ last.volume > 0
             /\ Publish(Tick([last EXCEPT !.volume = 0], move[1]))
          \/ Publish(Tick([last EXCEPT !.volume = @ + 1], 0))
          \/ /\ clock \notin 0..(SECS_PER_DAY - 1)
             /\ Publish(Tick([last EXCEPT !.time = clock], move[1]))
    /\ UNCHANGED last

Begun == Len(refOut) + (IF HasBar(ref) THEN 1 ELSE 0)

(* The strategy's channel starts to fill. *)
Subscribe ==
    /\ st = "off"
    /\ st' = "subscribed"
    /\ since' = Begun
    /\ UNCHANGED <<market, unread, tail, str, strOut, archive>>

(* What the archive may answer: it lags behind, but not so far that a bar begun
   before the subscription is missing; the bar being formed may be in it. *)
Archives ==
    LET bars == refOut \o (IF HasBar(ref) THEN <<ref.bar>> ELSE <<>>)
    IN  {SubSeq(bars, 1, n) : n \in since..Len(bars)}

(* The last warmup_bars of them. *)
Clipped(bars) == SubSeq(bars, Max({1, Len(bars) - warmup_bars + 1}), Len(bars))

(* The framework: on_start replays the bars through the builder. *)
replay_instrument_history ==
    /\ st = "subscribed"
    /\ st' = "draining"
    /\ \E bars \in Archives :
          LET kept  == Clipped(bars)
              ticks == FlattenSeq([i \in 1..Len(kept) |-> make_replay_ticks(kept[i])])
              done  == Feed(Fresh, <<>>, ticks)
          IN  /\ archive' = kept
              /\ str' = done.builder /\ strOut' = done.out
              /\ tail' = IF kept = <<>> THEN NoBar ELSE Last(kept)
    /\ since' = 0
    /\ UNCHANGED <<market, unread>>

(* The builder's own way: the strategy knows the bars and restores the last. *)
restore_last_bar ==
    /\ st = "subscribed"
    /\ st' = "draining"
    /\ \E bars \in Archives :
          /\ bars # <<>> /\ validate_restore_bar(Last(bars))
          /\ archive' = bars
          /\ str' = restore(Last(bars))
          /\ strOut' = SelectSeq(bars, LAMBDA bar : bar.is_final)
    /\ since' = 0
    /\ UNCHANGED <<market, unread, tail>>

Consume(t) ==
    /\ str' = on_tick(str, t)
    /\ strOut' = strOut \o finalize_bar(str, t)

(* One tick of the backlog, filtered against the archive's last bar. *)
drain_buffered_ticks ==
    /\ st = "draining" /\ unread # <<>>
    /\ unread' = Tail(unread)
    /\ IF should_drop_continuation_tick(Head(unread)) THEN UNCHANGED <<str, strOut>>
       ELSE Consume(Head(unread))
    /\ UNCHANGED <<market, st, since, tail, archive>>

(* The channel was empty: the framework goes live. *)
enter_live ==
    /\ st = "draining" /\ unread = <<>>
    /\ st' = "live"
    /\ UNCHANGED <<market, since, unread, tail, str, strOut, archive>>

(* Live ticks are not filtered. *)
feed_tick ==
    /\ st = "live" /\ unread # <<>>
    /\ unread' = Tail(unread)
    /\ Consume(Head(unread))
    /\ UNCHANGED <<market, st, since, tail, archive>>

Next ==
    \/ Trade
    \/ Glitch
    \/ Subscribe
    \/ replay_instrument_history
    \/ restore_last_bar
    \/ drain_buffered_ticks
    \/ enter_live
    \/ feed_tick

Spec == Init /\ [][Next]_vars

----------------------------------------------------------------------------
(* Properties. *)

(* Two bars a strategy cannot tell apart.  The last second of a session is
   replayed one second early, so the time of the last tick is not compared. *)
Same(b, c) ==
    IF b = NoBar \/ c = NoBar THEN b = c
    ELSE \A f \in {"date", "begin_sec", "open", "high", "low", "close", "volume", "cum_volume"} :
            b[f] = c[f]

SameBars(s, t) == Len(s) = Len(t) /\ \A i \in 1..Len(s) : Same(s[i], t[i])

AllBars(b, out) == out \o (IF HasBar(b) THEN <<b.bar>> ELSE <<>>)

(* Values stay what the code's types hold: bars have a bucket of the grid, a
   tick time of the day and volumes that do not go below zero. *)
TypeOK ==
    /\ published \in 0..MaxTicks /\ glitches \in 0..MaxGlitches
    /\ st \in {"off", "subscribed", "draining", "live"}
    /\ \A s \in {AllBars(ref, refOut), AllBars(str, strOut)} : \A i \in 1..Len(s) :
          /\ s[i].begin_sec % period_sec = 0
          /\ s[i].last_tick_sec \in 0..(SECS_PER_DAY - 1)
          /\ s[i].volume \in Nat /\ s[i].cum_volume \in Nat
    /\ \A b \in {ref, str} : b.start_cum_volume \in Nat

(* manager.h drain_buffered_ticks, intraday_bar_builder.h restore: a strategy
   that joined in the middle of the day, has drained its backlog and has read
   every tick has seen exactly the bars, and is forming exactly the bar, of a
   builder that ran from the beginning: no tick counted twice, none missed. *)
SeamlessContinuation ==
    st = "live" /\ unread = <<>> =>
        SameBars(AllBars(str, strOut), AllBars(ref, refOut))

(* dependencies.h make_replay_ticks: the bars the builder makes of the four
   ticks of each archived bar are the archived bars; a last bar that is still
   being formed keeps its bucket and the volume it counts from. *)
ReplayRebuildsArchive ==
    tail # NoBar =>
        LET whole   == IF tail.is_final THEN Len(archive) ELSE Len(archive) - 1
            rebuilt == AllBars(str, strOut)
            head(b) == <<b.date, b.begin_sec, b.cum_volume - b.volume>>
        IN  /\ Len(rebuilt) >= Len(archive)
            /\ SameBars(SubSeq(rebuilt, 1, whole), SubSeq(archive, 1, whole))
            /\ head(rebuilt[Len(archive)]) = head(tail)

(* intraday_bar_builder.h on_tick: whatever data arrives, bars follow each
   other in time; a bucket that was closed is never formed again. *)
BarsAdvance ==
    \A s \in {AllBars(ref, refOut), AllBars(str, strOut)} : \A i \in 2..Len(s) :
        \/ s[i - 1].date < s[i].date
        \/ s[i - 1].date = s[i].date /\ s[i - 1].begin_sec < s[i].begin_sec

(* intraday_bar_builder.h validate_restore_bar: the builder never refuses to
   restore a bar a builder has made, be it of an auction, at the end of a
   session or still forming. *)
OwnBarsRestorable ==
    \A s \in {AllBars(ref, refOut), AllBars(str, strOut)} : \A i \in 1..Len(s) :
        validate_restore_bar(s[i])

(* intraday_bar_builder.h update_bar_market_data: the volumes of the bars of a
   day add up to the volume the last of them has seen, and a bar's prices lie
   between its low and its high. *)
VolumeIsConserved ==
    LET s == AllBars(ref, refOut)
    IN  \A i \in 1..Len(s) :
        /\ LET today == {j \in 1..i : s[j].date = s[i].date}
           IN  s[i].cum_volume = MapThenSumSet(LAMBDA j : s[j].volume, today)
        /\ {s[i].open, s[i].close} \subseteq s[i].low..s[i].high

(* intraday_bar_builder.h: bars have their types, follow each other in time and
   can be restored, and their volumes add up. *)
StructureOK ==
    /\ TypeOK
    /\ VolumeIsConserved
    /\ BarsAdvance
    /\ OwnBarsRestorable

=============================================================================
