---------------------------- MODULE ClockProber ----------------------------
(***************************************************************************)
(* The clock probe of the system monitor (apps/sysmon/clock_probe.cpp,     *)
(* ntp_codec.cpp): rounds of NTP exchanges with a set of servers, kisses   *)
(* of death that hold across rounds, and the aggregate of a round.         *)
(*                                                                         *)
(* The transport is external: it may answer inside the request, late, or   *)
(* twice.  The true time is the steady clock; the local wall clock is      *)
(* Local ahead of it.  A time stamp is a time modulo Era, which stands     *)
(* for the 32-bit seconds; a stratum keeps its class.  The slot of a       *)
(* server is the place where the configuration names it first.             *)
(***************************************************************************)
EXTENDS Integers, Sequences, FiniteSets, FiniteSetsExt

CONSTANTS
    HostLists,    \* the configured servers, with repetitions
    Local,        \* how far the wall clock is ahead
    Era,          \* the period of a time stamp
    Dispersion,   \* root dispersion of a server
    Backoff,      \* kKissRateBackoffNs
    MaxRounds, MaxSteady, MaxCalls  \* bounds: rounds, time, callbacks per request

Hosts == UNION {{l[i] : i \in DOMAIN l} : l \in HostLists}

Abs(x)  == IF x < 0 THEN - x ELSE x

(* Time stamps that are compared lie within half an era. *)
ASSUME ClockAssumption ==
    /\ HostLists \subseteq Seq(Hosts)
    /\ {Dispersion, Backoff, MaxRounds, MaxSteady, MaxCalls} \subseteq Nat
    /\ Local \in Int /\ Era \in Nat /\ Era > 2 * (Abs(Local) + MaxSteady)
    /\ Era > 2

VARIABLES
    steady,     \* the steady clock
    round,      \* in_flight_, round_token_, remaining_, finish_requested_
    details,    \* details_
    pending,    \* pending_
    slots,      \* the slots that probe() has still to send, while issuing_
    kiss,       \* kiss_state_
    calls,      \* external: requests whose callback may come
    outcome,    \* history: what the last round handler got, and how many did
    kisses      \* history: the kisses that counted

cvars == <<steady, round, details, pending, slots, kiss, calls, outcome, kisses>>

NoValue == -100

----------------------------------------------------------------------------
(* ntp_codec.cpp *)

(* A time stamp forgets its era. *)
from_unix_nanoseconds(t) == t % Era

(* The nearest difference of two time stamps. *)
difference_nanoseconds(later, earlier) ==
    LET d == later - earlier
    IN CASE d > Era \div 2 -> d - Era [] d < - (Era \div 2) -> d + Era [] OTHER -> d

(* Division of C++: towards zero. *)
Halved(x) == IF x >= 0 THEN x \div 2 ELSE - ((- x) \div 2)

(* A kiss comes before everything else that may be wrong with an answer. *)
classify_response(r, t1) ==
    CASE r.stratum = 0   -> "kiss"
      [] r.stratum >= 16 -> "unsynchronised"
      [] r.origin # t1   -> "bad_echo"
      [] OTHER           -> "usable"

derive_sample(t1, t2, t3, t4, elapsed) ==
    LET processing == difference_nanoseconds(t3, t2)
        rtt        == elapsed - processing
        offset     == Halved(difference_nanoseconds(t1, t2) + difference_nanoseconds(t4, t3))
    IN IF processing < 0 \/ rtt < 0 THEN [ok |-> FALSE]
       ELSE [ok |-> TRUE, offset |-> offset, rtt |-> rtt, bound |-> rtt \div 2 + Dispersion]

----------------------------------------------------------------------------
(* ClockProber *)

Unset == [host |-> "", ok |-> FALSE, error |-> "", offset |-> NoValue, rtt |-> NoValue, bound |-> NoValue]

mark_failed(d, error) ==
    [Unset EXCEPT !.host = d.host, !.error = error]

NoKiss == [blocked |-> FALSE, until |-> 0]

note_kiss(k, host, code) ==
    CASE code = "RATE"             -> [k EXCEPT ![host] = [blocked |-> FALSE, until |-> steady + Backoff]]
      [] code \in {"DENY", "RSTR"} -> [k EXCEPT ![host] = [blocked |-> TRUE, until |-> 0]]
      [] OTHER                     -> k

skip_reason(host) ==
    CASE kiss[host].blocked        -> "kod_deny"
      [] steady < kiss[host].until -> "kod_rate"
      [] OTHER                     -> ""

(* Mutant: the last good server wins. *)
LastServer(servers) ==
    LET good == {i \in DOMAIN servers : servers[i].ok}
    IN IF good = {} THEN 0 ELSE Max(good)

(* The smallest round trip, then the smallest bound, then the first. *)
best_server(servers) ==
    LET good == {i \in DOMAIN servers : servers[i].ok}
        better(i, j) == \/ servers[i].rtt < servers[j].rtt
                        \/ servers[i].rtt = servers[j].rtt /\ servers[i].bound < servers[j].bound
    IN IF good = {} THEN 0
       ELSE Min({i \in good : ~ \E j \in good : better(j, i)})

(* The handler gets the outcome after the round has ended: it may begin the
   next one. *)
finish_round(r, servers) ==
    LET best == best_server(servers)
    IN /\ round' = [r EXCEPT !.in_flight = FALSE]
       /\ details' = <<>> /\ pending' = <<>>
       /\ outcome' =
            [count |-> outcome.count + 1, token |-> r.token, hosts |-> r.hosts, servers |-> servers, best |-> best,
             offset |-> IF best = 0 THEN NoValue ELSE servers[best].offset,
             bound  |-> IF best = 0 THEN NoValue ELSE servers[best].bound]

(* A host that is named twice is asked once. *)
Firsts(hosts) == {i \in DOMAIN hosts : \A j \in 1..(i - 1) : hosts[j] # hosts[i]}

Entry(host) == [Unset EXCEPT !.host = host]

(* probe: the skipped servers are settled before anything is sent. *)
probe(hosts) ==
    LET sent == {i \in Firsts(hosts) : skip_reason(hosts[i]) = ""}
    IN /\ ~ round.in_flight /\ round.token < MaxRounds
       /\ round' = [in_flight |-> TRUE, token |-> round.token + 1, hosts |-> hosts,
                    remaining |-> Cardinality(sent), issuing |-> TRUE]
       /\ details' = [i \in Firsts(hosts) |->
                        IF i \in sent THEN Entry(hosts[i])
                        ELSE mark_failed(Entry(hosts[i]), skip_reason(hosts[i]))]
       /\ pending' = [i \in Firsts(hosts) |-> [t1 |-> 0, sent |-> 0, settled |-> TRUE]]
       /\ slots' = sent
       /\ UNCHANGED <<steady, kiss, calls, outcome, kisses>>

(* The next request of the loop in probe().  Bound: the answers of the first
   server may repeat. *)
async_exchange ==
    /\ round.in_flight /\ round.issuing
    /\ \E slot \in slots, t1 \in {from_unix_nanoseconds(steady + Local)} :
          /\ \A i \in slots : slot <= i
          /\ pending' = [pending EXCEPT ![slot] = [t1 |-> t1, sent |-> steady, settled |-> FALSE]]
          /\ calls' = calls \cup {[slot |-> slot, token |-> round.token, host |-> details[slot].host,
                                   t1 |-> t1, sent |-> steady,
                                   left |-> IF slot = 1 THEN MaxCalls ELSE 1]}
          /\ slots' = slots \ {slot}
    /\ UNCHANGED <<steady, round, details, kiss, outcome, kisses>>

(* The end of the loop: what was answered inside it is delivered now. *)
Issued ==
    /\ round.in_flight /\ round.issuing /\ slots = {}
    /\ IF round.remaining = 0 THEN finish_round([round EXCEPT !.issuing = FALSE], details)
       ELSE round' = [round EXCEPT !.issuing = FALSE] /\ UNCHANGED <<details, pending, outcome>>
    /\ UNCHANGED <<steady, slots, kiss, calls, kisses>>

(* What one answer makes of a server, given the request that is pending. *)
settle(d, p, a) ==
    CASE a.status \in {"timeout", "unreachable"} -> mark_failed(d, a.status)
      [] a.status = "malformed" -> mark_failed(d, "bad_echo")
      [] OTHER ->
           LET verdict == classify_response(a, p.t1)
               s == derive_sample(p.t1, a.receive, a.transmit, from_unix_nanoseconds(steady + Local),
                                  steady - p.sent)
           IN CASE verdict = "kiss" /\ a.code = "RATE" -> mark_failed(d, "kod_rate")
                [] verdict = "kiss" /\ a.code \in {"DENY", "RSTR"} -> mark_failed(d, "kod_deny")
                [] verdict = "usable" /\ s.ok ->
                     [host |-> d.host, ok |-> TRUE, error |-> "", offset |-> s.offset,
                      rtt |-> s.rtt, bound |-> s.bound]
                [] OTHER -> mark_failed(d, "bad_echo")

(* handle_exchange: of this round, and the first of its server. *)
accepted(c) ==
    /\ round.in_flight /\ c.token = round.token /\ round.remaining # 0
    /\ ~ pending[c.slot].settled

handle_exchange(c, a) ==
    LET code == IF a.status = "received" /\ a.stratum = 0 THEN a.code ELSE "none"
        ds   == [details EXCEPT ![c.slot] = settle(details[c.slot], pending[c.slot], a)]
        r    == [round EXCEPT !.remaining = @ - 1]
    IN IF ~ accepted(c) THEN UNCHANGED <<round, details, pending, kiss, outcome, kisses>>
       ELSE /\ kiss' = note_kiss(kiss, details[c.slot].host, code)
            /\ kisses' = kisses \cup
                 (IF code \in {"RATE", "DENY", "RSTR"}
                  THEN {[host |-> details[c.slot].host, token |-> c.token, code |-> code, at |-> steady]} ELSE {})
            /\ IF r.remaining = 0 /\ ~ r.issuing THEN finish_round(r, ds)
               ELSE /\ round' = r /\ details' = ds
                    /\ pending' = [pending EXCEPT ![c.slot].settled = TRUE]
                    /\ UNCHANGED outcome

(* external: what a server may say to a request.  Its own stamps lie between
   request and answer, unless it is broken. *)
Answers(c) ==
    LET received(s, o, code, t2, t3) ==
            [status |-> "received", stratum |-> s, origin |-> o, code |-> code,
             receive |-> from_unix_nanoseconds(t2), transmit |-> from_unix_nanoseconds(t3)]
    IN [status : {"timeout", "unreachable", "malformed"}]
         \cup {received(0, 0, code, 0, 0) : code \in {"RATE", "DENY", "RSTR", "INIT"}}
         \cup {received(16, c.t1, "none", 0, 0), received(1, c.t1 + 1, "none", 0, 0)}
         \cup {received(1, c.t1, "none", steady + 1, steady)}
         \cup {received(1, c.t1, "none", t2, t3) :
                 t2 \in c.sent..steady, t3 \in {t \in c.sent..steady : t >= steady - 1}}

Callback ==
    \E c \in calls :
      /\ calls' = (calls \ {c}) \cup (IF c.left = 1 THEN {} ELSE {[c EXCEPT !.left = @ - 1]})
      /\ \E a \in IF accepted(c) THEN Answers(c) ELSE [status : {"timeout"}] : handle_exchange(c, a)
      /\ UNCHANGED <<steady, slots>>

(* Bound: time passes while nothing is being sent. *)
SteadyPasses ==
    /\ ~ (round.in_flight /\ round.issuing) /\ steady < MaxSteady
    /\ steady' = steady + 1
    /\ UNCHANGED <<round, details, pending, slots, kiss, calls, outcome, kisses>>

ClockInit ==
    /\ steady = 0
    /\ round = [in_flight |-> FALSE, token |-> 0, hosts |-> <<>>, remaining |-> 0, issuing |-> FALSE]
    /\ details = <<>> /\ pending = <<>> /\ slots = {}
    /\ kiss = [h \in Hosts |-> NoKiss]
    /\ calls = {} /\ outcome = [count |-> 0] /\ kisses = {}

ClockNext ==
    \/ \E hosts \in HostLists : probe(hosts)
    \/ async_exchange \/ Issued \/ Callback \/ SteadyPasses

ClockSpec == ClockInit /\ [][ClockNext]_cvars

----------------------------------------------------------------------------
(* Properties. *)

(* clock_probe.cpp probe, handle_exchange: every round that is begun is handed
   over once, in order and before the next one begins, with one entry per server
   whatever the transport repeats or delivers late, and each server of it is
   settled; a round that is not over waits for a request that is still to be
   sent or may still be answered. *)
RoundsDeliveredOnce ==
    /\ outcome.count = round.token - (IF round.in_flight THEN 1 ELSE 0)
    /\ outcome.count > 0 =>
         /\ outcome.token = outcome.count
         /\ {outcome.servers[j].host : j \in DOMAIN outcome.servers}
              = {outcome.hosts[j] : j \in DOMAIN outcome.hosts}
         /\ \A i, j \in DOMAIN outcome.servers :
               i # j => outcome.servers[i].host # outcome.servers[j].host
         /\ \A j \in DOMAIN outcome.servers : outcome.servers[j].ok <=> outcome.servers[j].error = ""
    /\ round.in_flight =>
         round.remaining = Cardinality(slots \cup {i \in DOMAIN pending :
              \E c \in calls : c.token = round.token /\ c.slot = i /\ ~ pending[i].settled})

(* note_kiss, skip_reason: a server that said DENY or RSTR is never asked again, one that said RATE
   not before its time is over: no late or repeated answer lifts either. *)
KissesKept ==
    \A k \in kisses, c \in calls :
      (c.host = k.host /\ c.token > k.token) => (k.code = "RATE" /\ c.sent >= k.at + Backoff)

(* finish_round: the aggregate is the measurement of one server of this very round, no
   other has a shorter round trip, and the error of its offset is within its
   bound (up to the rounding of a halved odd number). *)
AggregateHonest ==
    outcome.count > 0 =>
      LET good == {j \in DOMAIN outcome.servers : outcome.servers[j].ok}
          best == outcome.servers[outcome.best]
      IN IF good = {} THEN outcome.best = 0 /\ outcome.offset = NoValue /\ outcome.bound = NoValue
         ELSE /\ outcome.best \in good /\ outcome.offset = best.offset /\ outcome.bound = best.bound
              /\ \A j \in good : best.rtt <= outcome.servers[j].rtt
              /\ Abs(outcome.offset - Local) <= outcome.bound + 1

ClockHonest == RoundsDeliveredOnce /\ KissesKept /\ AggregateHonest
=============================================================================
