------------------------- MODULE SubscriptionManager -------------------------
(***************************************************************************)
(* SubscriptionManager (libs/platform/src/subscription_manager.cpp): which *)
(* strategies want which instrument, and how far the request for it has    *)
(* come.  Its only state is the map instruments_sub_info_, here a function *)
(* m whose domain is the set of instruments that have an entry; an entry   *)
(* without subscribers is not the same thing as no entry.  The operators   *)
(* give the map after a call, and, where the C++ returns a list, the set   *)
(* of instruments in it.                                                   *)
(***************************************************************************)
SubState == {"NotRequested", "Pending", "Subscribed"}

Infos(Instruments, Strategies) ==
    UNION {[D -> [subscribers : SUBSET Strategies, state : SubState]] :
              D \in SUBSET Instruments}

\* The first entry try_emplace makes.
NewInfo == [subscribers |-> {}, state |-> "NotRequested"]

NoInfo == [x \in {} |-> NewInfo]

Erase(m, S) == [x \in DOMAIN m \ S |-> m[x]]

subscribe(m, who, S) ==
    [x \in DOMAIN m \cup S |->
        LET i == IF x \in DOMAIN m THEN m[x] ELSE NewInfo
        IN  IF x \in S THEN [i EXCEPT !.subscribers = @ \cup {who}] ELSE i]

to_subscribe(m, S) ==
    {x \in S : x \notin DOMAIN m \/ m[x].state # "Subscribed"}

\* The entries of S that lose their last subscriber when who leaves.
Left(m, who, S) == {x \in S \cap DOMAIN m : m[x].subscribers \subseteq {who}}

to_unsub(m, who, S) == {x \in Left(m, who, S) : m[x].state = "Subscribed"}

\* Subscribed falls back to NotRequested at once, before the exchange has
\* answered; a Pending entry is left for its confirmation to clean up.
unsubscribe(m, who, S) ==
    LET dead == {x \in Left(m, who, S) : m[x].state = "NotRequested"}
        off  == to_unsub(m, who, S)
    IN  [x \in DOMAIN m \ dead |->
            [subscribers |-> IF x \in S THEN m[x].subscribers \ {who} ELSE m[x].subscribers,
             state       |-> IF x \in off THEN "NotRequested" ELSE m[x].state]]

unsubscribe_all(m, who) == unsubscribe(m, who, DOMAIN m)

WithState(m, S, s) ==
    [x \in DOMAIN m |-> IF x \in S THEN [m[x] EXCEPT !.state = s] ELSE m[x]]

mark_pending(m, S) == WithState(m, S, "Pending")

\* A confirmation for an entry that nobody wants any more: the caller must
\* unsubscribe again.
NeedsUnsub(m, x, ok) == x \in DOMAIN m /\ ok /\ m[x].subscribers = {}

on_sub_confirmed(m, x, ok) ==
    IF x \notin DOMAIN m THEN m
    ELSE IF ok THEN WithState(m, {x}, IF m[x].subscribers = {} THEN "NotRequested"
                                                              ELSE "Subscribed")
    ELSE IF m[x].subscribers = {} THEN Erase(m, {x}) ELSE m

on_unsub_confirmed(m, x) ==
    IF x \in DOMAIN m /\ m[x].subscribers = {} THEN Erase(m, {x}) ELSE m

check_subscribe_status(m) == {x \in DOMAIN m : m[x].state = "Pending"}

reset_pending_state(m) == WithState(m, check_subscribe_status(m), "NotRequested")

on_session_lost(m) == WithState(m, DOMAIN m, "NotRequested")

on_idle(m) == Erase(on_session_lost(m), {x \in DOMAIN m : m[x].subscribers = {}})

\* Entries without subscribers: those never requested are dropped, those
\* still Subscribed are to be unsubscribed.
OrphansIn(m, s) == {x \in DOMAIN m : m[x].subscribers = {} /\ m[x].state = s}

on_logged_in(m) == on_session_lost(Erase(m, OrphansIn(m, "NotRequested")))

\* Mutant: only what was waiting for its answer.
OnlyPending(m) == {x \in DOMAIN m : m[x].subscribers # {} /\ m[x].state = "Pending"}

to_resubscribe(m) == {x \in DOMAIN m : m[x].subscribers # {} /\ m[x].state # "Subscribed"}
===============================================================================
