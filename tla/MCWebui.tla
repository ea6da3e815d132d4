------------------------------ MODULE MCWebui ------------------------------
(* Instances of the parts of the web UI for TLC.  The parts share nothing but
   their process: every behaviour is one of one part. *)
EXTENDS WebAuth, TdAccounts, WebMirror

CONSTANTS RowIds, OrderVolume, Capacity, RingCapacity, MaxSeq, MaxDays, MaxTroubles,
          MaxWaiting,   \* bound: messages on their way to the server and to the browser
          MaxFetches,   \* bound: lists requested at the same time
          MaxTries,     \* bound: users with wrong passwords, REST calls and ticks together
          MaxEvents     \* bound: rows, troubles and new days together

VARIABLES part,
          day, gate, seq, unwritten, stored, feed, online, ring, stats, joined, push,
          tab, orders, positions, fetches, troubles, hasty, stalled, muddled, crossing

T == INSTANCE TdWeb

webVars == <<day, gate, seq, unwritten, stored, feed, online, ring, stats, joined, push,
            tab, orders, positions, fetches, troubles, hasty, stalled, muddled, crossing>>

Parts == <<part, authVars, mirrorVars, accountVars, webVars>>

(* The parts that do not run stay in one of their initial states. *)
MCInit ==
    /\ part \in {"auth", "mirror", "accounts", "trading"}
    /\ AuthInit /\ MirrorInit /\ AccountInit /\ T!WebInit
    /\ part # "auth" => DOMAIN users = Names
    /\ part # "accounts" => DOMAIN entries = {}
    /\ part # "trading" => tab = "ord"

(* Bounds that keep the parts small together: not everything that is bounded
   happens in one behaviour, and few messages and requests are under way. *)
AuthBound    == Cardinality({n \in DOMAIN users' : users'[n].fails > 0}) + calls' + now' <= MaxTries
AccountBound == Len(frames') + Len(sent') <= MaxWaiting
WebBound     == /\ seq' + troubles' + day' - 1 <= MaxEvents
                /\ tab = "ord" => /\ Len(feed') + Len(push') <= MaxWaiting
                                  /\ Cardinality(fetches') <= MaxFetches

MCNext ==
    \/ part = "auth" /\ AuthNext /\ AuthBound /\ UNCHANGED <<part, mirrorVars, accountVars, webVars>>
    \/ part = "mirror" /\ MirrorNext /\ UNCHANGED <<part, authVars, accountVars, webVars>>
    \/ part = "accounts" /\ AccountNext /\ AccountBound /\ UNCHANGED <<part, authVars, mirrorVars, webVars>>
    \/ part = "trading" /\ T!WebNext /\ WebBound /\ UNCHANGED <<part, authVars, mirrorVars, accountVars>>

MCSpec == MCInit /\ [][MCNext]_Parts

(* What a browser shows of orders and positions, where that part runs. *)
TradingViewsHonest == part = "trading" => T!TradingViewsHonest
=============================================================================
