------------------------ MODULE BarStrategy_proofs ------------------------
(***************************************************************************)
(* What BarStrategyManager keeps for any instruments, accounts, ratios,    *)
(* lookback and bounds: the tables agree between two handlers, the orders  *)
(* add up to the books, and every instance is called in order.             *)
(***************************************************************************)
EXTENDS BarStrategyManager, FiniteSetTheorems, SequenceTheorems, TLAPS

-----------------------------------------------------------------------------
(* The inductive invariant: the calls a handler still has to make, and what
   each table holds while some of them are outstanding. *)
Events == {"close", "open", "update"}
Busy   == Events \cup {"warmup", "replay", "params"}

Rank(f) == CASE f = "close" -> 1 [] f = "open" -> 2 [] OTHER -> 3

(* The instruments named by the calls F of a sequence of calls. *)
Names(s, F) == {i \in Instruments : \E k \in DOMAIN s : s[k].f \in F /\ s[k].i = i}

(* The instances that are being added and not committed, and those that are
   being removed. *)
Coming == Names(todo, {"commit", "rollback"})
Going  == Names(todo, {"remove", "rollback"})

Types ==
    /\ phase \in {"off", "starting", "running", "exiting", "stopping", "stopped"}
    /\ todo \in Seq(Calls)
    /\ disk \in [instruments : SUBSET Instruments, accounts : AccountTable]
    /\ accounts \in AccountTable
    /\ nodes \in [DOMAIN nodes -> Node] /\ DOMAIN nodes \subseteq Instruments
    /\ subscribed \subseteq Instruments
    /\ mirror \in [Pairs -> Int] /\ real \in [Pairs -> Int]
    /\ untracked \subseteq Pairs

(* What handler a call can belong to, and what it may rely on. *)
Allowed(c, s, ph) ==
    \/ /\ ph = "starting"
       /\ c.f \in Busy \cup {"create", "drain", "enter_live"}
       /\ c.f = "create" => ~ c.add
    \/ /\ ph = "running"
       /\ c.f \in Busy \cup {"create", "commit", "destroy", "remove", "rollback"}
       /\ c.f = "create" => c.add
       /\ c.f = "destroy" => c.i \in Names(s, {"remove", "rollback"})
    \/ /\ ph = "stopping"
       /\ c.f \in {"destroy", "clear"}

Legal(c, ns, subs, ids) ==
    /\ c.f \in Events \cup {"replay", "params", "commit", "destroy", "remove", "rollback"}
          => c.i \in DOMAIN ns
    /\ c.f = "create" => /\ c.i \in subs /\ c.i \notin DOMAIN ns
                         /\ c.add \/ c.i \in ids
    /\ c.f = "params" => ~ ns[c.i].failed /\ ~ ns[c.i].fresh /\ ~ ns[c.i].pending

(* Call c comes somewhere before call d. *)
Before(c, d) ==
    /\ c.f \notin {"commit", "remove", "rollback", "enter_live", "clear"}
    /\ c.f = "create" => ~ c.add
    /\ d.f = "create" => ~ d.add
    /\ c.f = d.f /\ c.f \in {"create", "destroy", "params"} => c.i # d.i
    /\ d.f \in {"remove", "rollback"} => c.f = "destroy" /\ c.i = d.i
    /\ d.f = "params" => c.f = "params"
    /\ d.f \in Events => \/ c.f = "params"
                         \/ c.f \in Events /\ c.i = d.i /\ Rank(c.f) < Rank(d.f)

(* Call d comes right after call c. *)
Next1(c, d) ==
    /\ c.f = "close" => d.f = "open" /\ d.i = c.i
    /\ c.f = "open"  => d.f = "update" /\ d.i = c.i

InTurn ==
    /\ \A k \in DOMAIN todo : /\ Allowed(todo[k], todo, phase)
                              /\ Legal(todo[k], nodes, subscribed, disk.instruments)
    /\ \A j, k \in DOMAIN todo : j < k => Before(todo[j], todo[k])
    /\ \A k \in DOMAIN todo : todo[k].f \in {"close", "open"} =>
          k + 1 \in DOMAIN todo /\ Next1(todo[k], todo[k + 1])

Books ==
    /\ phase \in {"off", "starting"} =>
         /\ \A p \in Pairs : mirror[p] = 0
         /\ \A i \in DOMAIN nodes : ~ nodes[i].live
    /\ phase = "running" =>
         /\ \A p \in Pairs : mirror[p] = IF p[2] \in Coming THEN 0 ELSE Target(p[1], p[2])
         /\ \A i \in DOMAIN nodes : IF i \in Coming THEN ~ nodes[i].live
                                    ELSE nodes[i].live \/ nodes[i].failed

(* Unless B trades in on_destroy, after the closing orders of a removal. *)
Sent == ~ FlattensInDestroy =>
    /\ phase \in {"off", "starting"} => \A p \in Pairs \ untracked : real[p] = 0
    /\ phase = "running" =>
         \A p \in Pairs \ untracked :
            real[p] = IF p[2] \in Coming \cup Going THEN 0 ELSE Target(p[1], p[2])

Files ==
    /\ phase = "off" => DOMAIN nodes = {} /\ DOMAIN accounts = {}
    /\ phase \in {"starting", "running"} => disk.accounts = accounts
    /\ DOMAIN nodes \ (Coming \cup Going) \subseteq disk.instruments
    /\ DOMAIN nodes \ Names(todo, {"remove"}) \subseteq subscribed

Owed ==
    owed = IF phase \in {"stopping", "stopped"} THEN Names(todo, {"destroy"})
           ELSE (DOMAIN nodes \ Going) \cup Names(todo, {"destroy"})

Informed(n) == n.failed \/ n.fresh \/ (n.pending /\ ~ n.stage)

Told ==
    \A i \in DOMAIN nodes :
       /\ nodes[i].pending => ~ nodes[i].fresh
       /\ Informed(nodes[i]) \/ i \in Names(todo, {"params"})

Quiet(n) == n.last = IF bar_callback_enabled(n.bars) THEN "update" ELSE "none"

(* What B was last called with when event f is next. *)
Expected(f, n) ==
    CASE f = "close"  -> Quiet(n)
      [] f = "open"   -> n.last = IF close_callback_enabled(n.bars) THEN "close" ELSE "none"
      [] f = "update" -> IF bar_callback_enabled(n.bars) THEN n.last \in {"open", "update"}
                         ELSE n.last = "none"

FirstEvent(s, k) == s[k].f \in Events /\ \A j \in 1 .. (k - 1) : s[j].f \notin Events

Ordered ==
    /\ \A i \in DOMAIN nodes : nodes[i].failed \/ i \in Names(todo, Events) \/ Quiet(nodes[i])
    /\ \A k \in DOMAIN todo : FirstEvent(todo, k) =>
          nodes[todo[k].i].failed \/ Expected(todo[k].f, nodes[todo[k].i])

IInv == Types /\ InTurn /\ Books /\ Sent /\ Files /\ Owed /\ Told /\ Ordered

-----------------------------------------------------------------------------
(* The handler's sequence of calls: its first d calls make way for X. *)
Handles(X, d) ==
    /\ X \in Seq(Calls) /\ d \in 0 .. 1 /\ d <= Len(todo)
    /\ todo' \in Seq(Calls)
    /\ Len(todo') = Len(X) + Len(todo) - d
    /\ \A k \in 1 .. Len(X) : todo'[k] = X[k]
    /\ \A k \in (d + 1) .. Len(todo) : todo'[k + Len(X) - d] = todo[k]

LEMMA HandlesDone ==
    ASSUME todo \in Seq(Calls), todo # <<>>, Done
    PROVE  Handles(<<>>, 1)
BY DEF Handles, Done

LEMMA HandlesHead ==
    ASSUME todo \in Seq(Calls), todo # <<>>, NEW X \in Seq(Calls), todo' = X \o Tail(todo)
    PROVE  Handles(X, 1)
<1>1. /\ Tail(todo) \in Seq(Calls) /\ Len(Tail(todo)) = Len(todo) - 1
      /\ \A k \in 1 .. (Len(todo) - 1) : Tail(todo)[k] = todo[k + 1]
  OBVIOUS
<1>. DEFINE T == Tail(todo)
<1>. HIDE DEF T
<1>2. /\ X \o T \in Seq(Calls) /\ Len(X \o T) = Len(X) + Len(T)
      /\ \A k \in 1 .. Len(X) : (X \o T)[k] = X[k]
      /\ \A k \in 1 .. Len(T) : (X \o T)[k + Len(X)] = T[k]
  BY <1>1 DEF T
<1>3. ASSUME NEW k \in 2 .. Len(todo) PROVE todo'[k + Len(X) - 1] = todo[k]
  <2>1. k - 1 \in 1 .. Len(T) /\ T[k - 1] = todo[k - 1 + 1] /\ k - 1 + 1 = k
    BY <1>1 DEF T
  <2>2. (X \o T)[(k - 1) + Len(X)] = T[k - 1] /\ (k - 1) + Len(X) = k + Len(X) - 1
    BY <1>2, <2>1
  <2>. QED BY <2>1, <2>2 DEF T
<1>4. Len(todo) >= 1
  OBVIOUS
<1>. QED
  BY <1>1, <1>2, <1>3, <1>4 DEF Handles, T

LEMMA HandlesFront ==
    ASSUME todo \in Seq(Calls), NEW X \in Seq(Calls), todo' = X \o todo
    PROVE  Handles(X, 0)
BY DEF Handles

LEMMA HandlesNew ==
    ASSUME todo = <<>>, NEW X \in Seq(Calls), todo' = X
    PROVE  Handles(X, 0)
BY DEF Handles

(* Every later call is one of X or one that was there. *)
LEMMA Origin ==
    ASSUME todo \in Seq(Calls), NEW X, NEW d, Handles(X, d), NEW k \in DOMAIN todo'
    PROVE  \/ k \in 1 .. Len(X) /\ k \in DOMAIN X /\ todo'[k] = X[k]
           \/ \E j \in DOMAIN todo : j \in (d + 1) .. Len(todo) /\ k = j + Len(X) - d /\ todo'[k] = todo[j]
<1>1. CASE k <= Len(X)
  BY <1>1 DEF Handles
<1>2. CASE k > Len(X)
  <2>1. /\ k \in 1 .. Len(todo') /\ Len(todo') = Len(X) + Len(todo) - d
        /\ Len(X) \in Nat /\ Len(todo) \in Nat /\ d \in 0 .. 1
    BY DEF Handles
  <2>. DEFINE j == k - Len(X) + d
  <2>2. j \in (d + 1) .. Len(todo) /\ k = j + Len(X) - d /\ j \in DOMAIN todo
    BY <1>2, <2>1
  <2>. QED BY <2>2 DEF Handles
<1>. QED BY <1>1, <1>2 DEF Handles

LEMMA Stays ==
    ASSUME todo \in Seq(Calls), NEW X, NEW d, Handles(X, d)
    PROVE  /\ \A k \in DOMAIN X : k \in DOMAIN todo' /\ todo'[k] = X[k]
           /\ \A j \in (d + 1) .. Len(todo) :
                 j + Len(X) - d \in DOMAIN todo' /\ todo'[j + Len(X) - d] = todo[j]
<1>1. /\ DOMAIN todo' = 1 .. (Len(X) + Len(todo) - d) /\ DOMAIN X = 1 .. Len(X)
      /\ Len(X) \in Nat /\ Len(todo) \in Nat /\ d \in 0 .. 1 /\ d <= Len(todo)
  BY DEF Handles
<1>2. ASSUME NEW j \in (d + 1) .. Len(todo) PROVE j + Len(X) - d \in DOMAIN todo'
  BY <1>1
<1>3. ASSUME NEW k \in DOMAIN X PROVE k \in DOMAIN todo'
  BY <1>1
<1>. QED BY <1>1, <1>2, <1>3 DEF Handles

LEMMA NamesNew ==
    ASSUME todo \in Seq(Calls), NEW X, NEW d, Handles(X, d), NEW F
    PROVE  Names(todo', F) = Names(X, F) \cup
             {i \in Instruments : \E k \in (d + 1) .. Len(todo) : todo[k].f \in F /\ todo[k].i = i}
<1>1. ASSUME NEW i \in Names(todo', F)
      PROVE  \/ i \in Names(X, F)
             \/ \E k \in (d + 1) .. Len(todo) : todo[k].f \in F /\ todo[k].i = i
  <2>1. PICK k \in DOMAIN todo' : todo'[k].f \in F /\ todo'[k].i = i
    BY <1>1 DEF Names
  <2>. QED BY <2>1, Origin, <1>1 DEF Names
<1>2. ASSUME NEW i \in Instruments, i \in Names(X, F) PROVE i \in Names(todo', F)
  BY <1>2, Stays DEF Names
<1>3. ASSUME NEW i \in Instruments, NEW k \in (d + 1) .. Len(todo), todo[k].f \in F, todo[k].i = i
      PROVE  i \in Names(todo', F)
  BY <1>3, Stays DEF Names
<1>. QED BY <1>1, <1>2, <1>3 DEF Names

(* Calls that neither go nor come leave the names alone. *)
LEMMA NamesKept ==
    ASSUME todo \in Seq(Calls), NEW X, NEW d, Handles(X, d), NEW F,
           d = 1 => todo[1].f \notin F,
           \A k \in DOMAIN X : X[k].f \notin F
    PROVE  Names(todo', F) = Names(todo, F)
<1>1. Names(X, F) = {}
  BY DEF Names
<1>2. ASSUME NEW k \in DOMAIN todo, todo[k].f \in F PROVE k \in (d + 1) .. Len(todo)
  BY <1>2 DEF Handles
<1>3. ASSUME NEW k \in (d + 1) .. Len(todo) PROVE k \in DOMAIN todo
  BY DEF Handles
<1>. DEFINE Later == {i \in Instruments : \E k \in (d + 1) .. Len(todo) : todo[k].f \in F /\ todo[k].i = i}
<1>4. Later = Names(todo, F)
  BY <1>2, <1>3 DEF Names
<1>5. Names(todo', F) = Names(X, F) \cup Later
  BY NamesNew
<1>. QED BY <1>1, <1>4, <1>5

(* A step whose new calls fit among themselves and before what is left keeps
   the whole sequence in turn. *)
LEMMA KeepTurn ==
    ASSUME todo \in Seq(Calls), InTurn, NEW X, NEW d, Handles(X, d),
           \A k \in DOMAIN X : /\ Allowed(X[k], todo', phase')
                               /\ Legal(X[k], nodes', subscribed', disk'.instruments),
           d = Len(todo) \/ (phase' = phase /\ Going' = Going),
           \A k \in (d + 1) .. Len(todo) :
              Legal(todo[k], nodes', subscribed', disk'.instruments),
           \A j, k \in DOMAIN X : j < k => Before(X[j], X[k]),
           \A j \in DOMAIN X : \A k \in (d + 1) .. Len(todo) : Before(X[j], todo[k]),
           \A k \in DOMAIN X : X[k].f \in {"close", "open"} =>
              k + 1 \in DOMAIN X /\ Next1(X[k], X[k + 1])
    PROVE  InTurn'
<1>1. /\ DOMAIN X = 1 .. Len(X) /\ DOMAIN todo = 1 .. Len(todo)
      /\ DOMAIN todo' = 1 .. Len(todo')
      /\ Len(X) \in Nat /\ Len(todo) \in Nat /\ Len(todo') \in Nat
      /\ d \in 0 .. 1 /\ d <= Len(todo)
  BY DEF Handles
<1>2. ASSUME NEW k \in (d + 1) .. Len(todo) PROVE Allowed(todo[k], todo', phase')
  <2>0. k \in DOMAIN todo /\ d # Len(todo)
    <3>. DEFINE n == Len(todo)
    <3>1. n \in Nat /\ d \in 0 .. 1 /\ k \in (d + 1) .. n /\ DOMAIN todo = 1 .. n
      BY <1>1
    <3>. HIDE DEF n
    <3>2. k \in 1 .. n /\ d # n
      BY <3>1
    <3>. QED BY <3>1, <3>2 DEF n
  <2>1. phase' = phase /\ Names(todo', {"remove", "rollback"}) = Names(todo, {"remove", "rollback"})
    BY <2>0 DEF Going
  <2>2. Allowed(todo[k], todo, phase)
    BY <2>0 DEF InTurn
  <2>. QED BY <2>1, <2>2 DEF Allowed
<1>3. ASSUME NEW k \in DOMAIN todo'
      PROVE  /\ Allowed(todo'[k], todo', phase')
             /\ Legal(todo'[k], nodes', subscribed', disk'.instruments)
  <2>1. CASE k \in DOMAIN X /\ todo'[k] = X[k]
    BY <2>1
  <2>2. CASE \E j \in (d + 1) .. Len(todo) : todo'[k] = todo[j]
    BY <2>2, <1>2
  <2>. QED BY <2>1, <2>2, Origin
<1>4. ASSUME NEW j \in DOMAIN todo', NEW k \in DOMAIN todo', j < k
      PROVE  Before(todo'[j], todo'[k])
  <2>1. CASE k \in 1 .. Len(X) /\ k \in DOMAIN X /\ todo'[k] = X[k]
    <3>1. j \in DOMAIN X
      <4>. DEFINE n == Len(X)
                  m == Len(todo')
      <4>1. n \in Nat /\ m \in Nat /\ k \in 1 .. n /\ j \in 1 .. m /\ DOMAIN X = 1 .. n
        BY <2>1, <1>1
      <4>. HIDE DEF n, m
      <4>2. j \in 1 .. n
        BY <4>1, <1>4
      <4>. QED BY <4>1, <4>2
    <3>2. todo'[j] = X[j]
      BY <3>1, Stays
    <3>. QED BY <2>1, <3>1, <3>2, <1>4
  <2>2. ASSUME NEW m \in DOMAIN todo, m \in (d + 1) .. Len(todo), k = m + Len(X) - d, todo'[k] = todo[m]
        PROVE  Before(todo'[j], todo'[k])
    <3>1. CASE j \in DOMAIN X /\ todo'[j] = X[j]
      BY <3>1, <2>2
    <3>2. ASSUME NEW n \in DOMAIN todo, n \in (d + 1) .. Len(todo), j = n + Len(X) - d, todo'[j] = todo[n]
          PROVE  Before(todo'[j], todo'[k])
      <4>1. n < m
        BY <1>1, <1>4, <2>2, <3>2
      <4>. QED BY <4>1, <2>2, <3>2 DEF InTurn
    <3>. QED BY <3>1, <3>2, Origin
  <2>. QED BY <2>1, <2>2, Origin
<1>5. ASSUME NEW k \in DOMAIN todo', todo'[k].f \in {"close", "open"}
      PROVE  k + 1 \in DOMAIN todo' /\ Next1(todo'[k], todo'[k + 1])
  <2>1. CASE k \in DOMAIN X /\ todo'[k] = X[k]
    <3>1. k + 1 \in DOMAIN X /\ Next1(X[k], X[k + 1])
      BY <2>1, <1>5
    <3>2. k + 1 \in DOMAIN todo' /\ todo'[k + 1] = X[k + 1]
      BY <3>1, Stays
    <3>. QED BY <2>1, <3>1, <3>2
  <2>2. ASSUME NEW m \in DOMAIN todo, m \in (d + 1) .. Len(todo), k = m + Len(X) - d, todo'[k] = todo[m]
        PROVE  k + 1 \in DOMAIN todo' /\ Next1(todo'[k], todo'[k + 1])
    <3>1. m + 1 \in DOMAIN todo /\ Next1(todo[m], todo[m + 1])
      BY <2>2, <1>5 DEF InTurn
    <3>2. m + 1 \in (d + 1) .. Len(todo) /\ (m + 1) + Len(X) - d = k + 1
      BY <3>1, <1>1, <2>2
    <3>3. k + 1 \in DOMAIN todo' /\ todo'[k + 1] = todo[m + 1]
      <4>1. (m + 1) + Len(X) - d \in DOMAIN todo' /\ todo'[(m + 1) + Len(X) - d] = todo[m + 1]
        BY <3>2, Stays
      <4>. QED BY <4>1, <3>2
    <3>. QED BY <2>2, <3>1, <3>3
  <2>. QED BY <2>1, <2>2, Origin
<1>. QED BY <1>3, <1>4, <1>5 DEF InTurn

(* Nothing but the calls that may be in the middle of a handler comes before
   another call. *)
LEMMA HeadBefore ==
    ASSUME todo \in Seq(Calls), todo # <<>>, InTurn
    PROVE  /\ Head(todo) = todo[1] /\ 1 \in DOMAIN todo
           /\ Allowed(todo[1], todo, phase)
           /\ Legal(todo[1], nodes, subscribed, disk.instruments)
           /\ \A k \in 2 .. Len(todo) : k \in DOMAIN todo /\ Before(todo[1], todo[k])
<1>1. Head(todo) = todo[1] /\ 1 \in DOMAIN todo /\ DOMAIN todo = 1 .. Len(todo)
  OBVIOUS
<1>. QED BY <1>1 DEF InTurn

(* A call that only the end of a handler makes is the last. *)
LEMMA LastCall ==
    ASSUME todo \in Seq(Calls), todo # <<>>, InTurn,
           \/ todo[1].f \in {"commit", "remove", "rollback", "enter_live", "clear"}
           \/ todo[1].f = "create" /\ todo[1].add
    PROVE  Len(todo) = 1 /\ Tail(todo) = <<>>
<1>1. ASSUME Len(todo) >= 2 PROVE FALSE
  <2>1. Before(todo[1], todo[2])
    BY <1>1, HeadBefore
  <2>. QED BY <2>1 DEF Before
<1>2. Len(todo) = 1
  <2>. DEFINE n == Len(todo)
  <2>1. n \in Nat \ {0} /\ ~ (n >= 2)
    BY <1>1, EmptySeq
  <2>. HIDE DEF n
  <2>2. n = 1
    BY <2>1
  <2>. QED BY <2>2 DEF n
<1>3. Tail(todo) \in Seq(Calls) /\ Len(Tail(todo)) = 0
  BY <1>2
<1>4. Tail(todo) = <<>>
  BY <1>3, EmptySeq
<1>. QED BY <1>2, <1>4

(* While bars are replayed or ticks taken, no event and no parameter update is
   waiting. *)
Idling(s) == s = <<>> \/ s[1].f \in {"warmup", "replay", "drain"}

LEMMA NothingWaits ==
    ASSUME todo \in Seq(Calls), InTurn, Idling(todo)
    PROVE  \A k \in DOMAIN todo : todo[k].f \notin Events \cup {"params", "remove", "rollback"}
<1>1. SUFFICES ASSUME NEW k \in DOMAIN todo
               PROVE  todo[k].f \notin Events \cup {"params", "remove", "rollback"}
  OBVIOUS
<1>2. todo # <<>> /\ todo[1].f \in {"warmup", "replay", "drain"}
  BY DEF Idling
<1>3. CASE k = 1
  BY <1>2, <1>3 DEF Events
<1>4. CASE k # 1
  <2>1. Before(todo[1], todo[k])
    BY <1>2, <1>4, HeadBefore
  <2>. QED BY <1>2, <2>1 DEF Before, Events
<1>. QED BY <1>3, <1>4

LEMMA BusyBefore ==
    ASSUME NEW c, NEW d, NEW x, c.f \in {"warmup", "replay", "drain"}, Before(c, d),
           x.f \in Busy \ {"params"}
    PROVE  Before(x, d)
BY DEF Before, Busy, Events

(* Calls put in front of an idling handler. *)
LEMMA TurnBusy ==
    ASSUME todo \in Seq(Calls), InTurn, NEW X, NEW d, Handles(X, d),
           Idling(todo), phase \in {"starting", "running"},
           UNCHANGED <<phase, nodes, subscribed, disk>>,
           \A k \in DOMAIN X : /\ X[k].f \in Busy \ {"params"}
                               /\ X[k].f = "warmup" \/ X[k].i \in DOMAIN nodes,
           \A j, k \in DOMAIN X : j < k => Before(X[j], X[k]),
           \A k \in DOMAIN X : X[k].f \in {"close", "open"} =>
              k + 1 \in DOMAIN X /\ Next1(X[k], X[k + 1])
    PROVE  /\ InTurn'
           /\ \A F \in SUBSET {"commit", "rollback", "remove", "destroy", "params"} :
                 Names(todo', F) = Names(todo, F)
<1>1. ASSUME NEW F \in SUBSET {"commit", "rollback", "remove", "destroy", "params"}
      PROVE  Names(todo', F) = Names(todo, F)
  <2>1. \A k \in DOMAIN X : X[k].f \notin F
    BY DEF Busy, Events
  <2>2. d = 1 => todo[1].f \notin F
    BY DEF Handles, Idling
  <2>. QED BY <2>1, <2>2, NamesKept
<1>2. Going' = Going
  BY <1>1 DEF Going
<1>3. \A k \in DOMAIN X : /\ Allowed(X[k], todo', phase')
                          /\ Legal(X[k], nodes', subscribed', disk'.instruments)
  BY DEF Allowed, Legal, Busy, Events
<1>4. ASSUME NEW k \in (d + 1) .. Len(todo) PROVE k \in DOMAIN todo
  BY DEF Handles
<1>5. \A k \in (d + 1) .. Len(todo) : Legal(todo[k], nodes', subscribed', disk'.instruments)
  BY <1>4 DEF InTurn
<1>6. ASSUME NEW j \in DOMAIN X, NEW k \in (d + 1) .. Len(todo) PROVE Before(X[j], todo[k])
  <2>1. k \in DOMAIN todo /\ todo # <<>>
    BY <1>4
  <2>2. todo[1].f \in {"warmup", "replay", "drain"}
    BY <2>1 DEF Idling
  <2>3. CASE k = 1
    BY <2>2, <2>3 DEF Before, Busy, Events
  <2>4. CASE k # 1
    <3>1. Before(todo[1], todo[k])
      BY <2>1, <2>4, HeadBefore
    <3>. QED BY <2>2, <3>1, BusyBefore
  <2>. QED BY <2>3, <2>4
<1>. QED BY <1>1, <1>2, <1>3, <1>5, <1>6, KeepTurn

(* The calls that one tick or one archived bar of instance i puts in front. *)
Burst(X, i) ==
    /\ X \in Seq(Calls) /\ 1 \in DOMAIN X
    /\ X[1].f \in Events /\ (Quiet(nodes[i]) => Expected(X[1].f, nodes[i]))
    /\ \A k \in DOMAIN X : X[k].f \in Events \cup {"replay"} /\ X[k].i = i
    /\ \A j, k \in DOMAIN X : j < k => Before(X[j], X[k])
    /\ \A k \in DOMAIN X : X[k].f \in {"close", "open"} =>
          k + 1 \in DOMAIN X /\ Next1(X[k], X[k + 1])

LEMMA TickBurst ==
    ASSUME Types, NEW i \in DOMAIN nodes, NEW new_bar \in BOOLEAN, NEW replay \in BOOLEAN
    PROVE  Burst(TickEvents(i, new_bar, replay), i)
<1>1. max_lookback \in Nat \ {0} /\ i \in Instruments /\ nodes[i].bars \in 0 .. (max_lookback + 1)
  BY ManagerAssumption DEF Types, Node
<1>. DEFINE E(f) == [f |-> f, i |-> i, replay |-> replay]
<1>2. E("close") \in Calls /\ E("open") \in Calls /\ E("update") \in Calls
  BY <1>1 DEF Calls
<1>3. Before(E("close"), E("open")) /\ Before(E("close"), E("update")) /\ Before(E("open"), E("update"))
  BY DEF Before, Events, Rank
<1>4. Next1(E("close"), E("open")) /\ Next1(E("open"), E("update"))
  BY DEF Next1
<1>5. Quiet(nodes[i]) => Expected("close", nodes[i]) /\ Expected("update", nodes[i])
  BY DEF Expected, Quiet
<1>6. Quiet(nodes[i]) /\ nodes[i].bars = 0 => Expected("open", nodes[i])
  BY <1>1 DEF Expected, Quiet, bar_callback_enabled, close_callback_enabled
<1>7. E("close").f = "close" /\ E("open").f = "open" /\ E("update").f = "update"
      /\ E("close").i = i /\ E("open").i = i /\ E("update").i = i
  OBVIOUS
<1>8. TickEvents(i, new_bar, replay) =
         IF ~ new_bar THEN <<E("update")>>
         ELSE IF nodes[i].bars = 0 THEN <<E("open"), E("update")>>
         ELSE <<E("close"), E("open"), E("update")>>
  BY DEF TickEvents
<1>. HIDE DEF E
<1>9. CASE ~ new_bar
  <2>. DEFINE X == <<E("update")>>
  <2>1. X \in Seq(Calls) /\ DOMAIN X = {1} /\ X[1] = E("update")
    BY <1>2
  <2>. HIDE DEF X
  <2>2. Burst(X, i)
    BY <2>1, <1>5, <1>7 DEF Burst, Events
  <2>. QED BY <2>2, <1>8, <1>9 DEF X
<1>10. CASE new_bar /\ nodes[i].bars = 0
  <2>. DEFINE X == <<E("open"), E("update")>>
  <2>1. X \in Seq(Calls) /\ DOMAIN X = 1 .. 2 /\ X[1] = E("open") /\ X[2] = E("update")
    BY <1>2
  <2>. HIDE DEF X
  <2>2. \A k \in DOMAIN X : X[k].f \in Events \cup {"replay"} /\ X[k].i = i
    BY <2>1, <1>7 DEF Events
  <2>3. \A j, k \in DOMAIN X : j < k => Before(X[j], X[k])
    BY <2>1, <1>3
  <2>4. \A k \in DOMAIN X : X[k].f \in {"close", "open"} => k + 1 \in DOMAIN X /\ Next1(X[k], X[k + 1])
    BY <2>1, <1>4, <1>7
  <2>5. Burst(X, i)
    BY <2>1, <2>2, <2>3, <2>4, <1>6, <1>7, <1>10 DEF Burst, Events
  <2>. QED BY <2>5, <1>8, <1>10 DEF X
<1>11. CASE new_bar /\ nodes[i].bars # 0
  <2>. DEFINE X == <<E("close"), E("open"), E("update")>>
  <2>1. /\ X \in Seq(Calls) /\ DOMAIN X = 1 .. 3
        /\ X[1] = E("close") /\ X[2] = E("open") /\ X[3] = E("update")
    BY <1>2
  <2>. HIDE DEF X
  <2>2. \A k \in DOMAIN X : X[k].f \in Events \cup {"replay"} /\ X[k].i = i
    BY <2>1, <1>7 DEF Events
  <2>3. \A j, k \in DOMAIN X : j < k => Before(X[j], X[k])
    BY <2>1, <1>3
  <2>4. \A k \in DOMAIN X : X[k].f \in {"close", "open"} => k + 1 \in DOMAIN X /\ Next1(X[k], X[k + 1])
    BY <2>1, <1>4, <1>7
  <2>5. Burst(X, i)
    BY <2>1, <2>2, <2>3, <2>4, <1>5, <1>7 DEF Burst, Events
  <2>. QED BY <2>5, <1>8, <1>11 DEF X
<1>. QED BY <1>9, <1>10, <1>11

(* ... and then the rest of the replay. *)
LEMMA ReplayBurst ==
    ASSUME NEW i, NEW T, Burst(T, i), NEW r \in Calls, r.f = "replay", r.i = i
    PROVE  Burst(T \o <<r>>, i)
<1>. DEFINE X == T \o <<r>>
            n == Len(T)
<1>1. T \in Seq(Calls) /\ n \in Nat /\ DOMAIN T = 1 .. n /\ 1 \in DOMAIN T
  BY DEF Burst
<1>2. /\ X \in Seq(Calls) /\ DOMAIN X = 1 .. (n + 1) /\ X[n + 1] = r
      /\ \A k \in DOMAIN T : X[k] = T[k]
  BY <1>1
<1>. HIDE DEF X, n
<1>3. \A k \in DOMAIN X : k = n + 1 \/ (k \in DOMAIN T /\ k < n + 1)
  BY <1>1, <1>2
<1>4. \A k \in DOMAIN X : X[k].f \in Events \cup {"replay"} /\ X[k].i = i
  BY <1>2, <1>3 DEF Burst
<1>5. ASSUME NEW j \in DOMAIN X, NEW k \in DOMAIN X, j < k PROVE Before(X[j], X[k])
  <2>1. j \in DOMAIN T
    BY <1>1, <1>2, <1>3, <1>5
  <2>2. CASE k \in DOMAIN T
    BY <2>1, <2>2, <1>2, <1>5 DEF Burst
  <2>3. CASE k = n + 1
    <3>1. X[j].f \in Events \cup {"replay"} /\ X[k].f = "replay"
      BY <1>2, <1>4, <2>3
    <3>. QED BY <3>1 DEF Before, Events
  <2>. QED BY <2>2, <2>3, <1>3
<1>6. ASSUME NEW k \in DOMAIN X, X[k].f \in {"close", "open"}
      PROVE  k + 1 \in DOMAIN X /\ Next1(X[k], X[k + 1])
  <2>1. k \in DOMAIN T
    BY <1>2, <1>3, <1>6
  <2>2. k + 1 \in DOMAIN T /\ Next1(T[k], T[k + 1])
    BY <2>1, <1>2, <1>6 DEF Burst
  <2>3. k + 1 \in DOMAIN X /\ X[k + 1] = T[k + 1]
    BY <2>2, <1>1, <1>2
  <2>. QED BY <2>1, <2>2, <2>3, <1>2
<1>7. 1 \in DOMAIN X /\ X[1] = T[1]
  BY <1>1, <1>2
<1>8. Burst(X, i)
  BY <1>2, <1>4, <1>5, <1>6, <1>7 DEF Burst
<1>. QED BY <1>8 DEF X

-----------------------------------------------------------------------------
(* Steps that only change the sequence of calls. *)
Frozen == UNCHANGED <<phase, config, nodes, subscribed, orders, owed>>

LEMMA CallsOnly ==
    ASSUME IInv, Frozen, todo' \in Seq(Calls), InTurn', Ordered',
           \A F \in SUBSET {"commit", "rollback", "remove", "destroy", "params"} :
              Names(todo', F) = Names(todo, F)
    PROVE  IInv'
<1>1. /\ UNCHANGED <<phase, disk, accounts, nodes, subscribed, mirror, real, untracked, owed>>
      /\ Types /\ Books /\ Sent /\ Files /\ Owed /\ Told
  BY DEF IInv, Frozen, config, orders
<1>2. Types'
  BY <1>1 DEF Types
<1>3. /\ Coming' = Coming /\ Going' = Going
      /\ \A f \in {"destroy", "remove", "params"} : Names(todo', {f}) = Names(todo, {f})
  BY DEF Coming, Going
<1>4. \A a, i : Target(a, i)' = Target(a, i)
  BY <1>1 DEF Target
<1>5. Books' /\ Sent'
  BY <1>1, <1>3, <1>4 DEF Books, Sent
<1>6. Files' /\ Owed' /\ Told'
  BY <1>1, <1>3 DEF Files, Owed, Told
<1>. QED BY <1>2, <1>5, <1>6 DEF IInv

LEMMA CallsStep ==
    ASSUME IInv, NEW X, NEW d, Handles(X, d), Idling(todo), phase \in {"starting", "running"}, Frozen,
           \A k \in DOMAIN X : X[k].f \in {"warmup", "replay"} /\ (X[k].f = "warmup" \/ X[k].i \in DOMAIN nodes)
    PROVE  IInv'
<1>1. Types /\ InTurn /\ Ordered /\ todo \in Seq(Calls) /\ todo' \in Seq(Calls)
      /\ UNCHANGED <<phase, nodes, subscribed, disk>>
  BY DEF IInv, Types, Handles, Frozen, config
<1>2. \A j, k \in DOMAIN X : j < k => Before(X[j], X[k])
  BY DEF Before, Events
<1>3. /\ InTurn'
      /\ \A F \in SUBSET {"commit", "rollback", "remove", "destroy", "params"} :
            Names(todo', F) = Names(todo, F)
  <2>1. \A k \in DOMAIN X : /\ X[k].f \in Busy \ {"params"} /\ X[k].f \notin {"close", "open"}
                            /\ X[k].f = "warmup" \/ X[k].i \in DOMAIN nodes
    BY DEF Busy
  <2>. QED BY <2>1, <1>1, <1>2, TurnBusy
<1>4. \A k \in DOMAIN todo : todo[k].f \notin Events
  BY <1>1, NothingWaits
<1>5. \A k \in DOMAIN todo' : todo'[k].f \notin Events
  <2>1. \A k \in DOMAIN X : X[k].f \notin Events
    BY DEF Events
  <2>. QED BY <1>1, <1>4, <2>1, Origin
<1>6. Ordered'
  <2>1. Names(todo', Events) = {} /\ Names(todo, Events) = {}
    BY <1>4, <1>5 DEF Names
  <2>. QED BY <1>1, <1>5, <2>1 DEF Ordered, FirstEvent
<1>. QED BY <1>1, <1>3, <1>6, CallsOnly

LEMMA BurstStep ==
    ASSUME IInv, NEW X, NEW d, Handles(X, d), Idling(todo), phase \in {"starting", "running"}, Frozen,
           NEW i \in DOMAIN nodes, ~ nodes[i].failed, Burst(X, i)
    PROVE  IInv'
<1>1. Types /\ InTurn /\ Ordered /\ todo \in Seq(Calls) /\ todo' \in Seq(Calls)
      /\ UNCHANGED <<phase, nodes, subscribed, disk>>
  BY DEF IInv, Types, Handles, Frozen, config
<1>2. /\ InTurn'
      /\ \A F \in SUBSET {"commit", "rollback", "remove", "destroy", "params"} :
            Names(todo', F) = Names(todo, F)
  <2>1. \A k \in DOMAIN X : X[k].f \in Busy \ {"params"} /\ X[k].i \in DOMAIN nodes
    BY DEF Burst, Busy, Events
  <2>. QED BY <1>1, <2>1, TurnBusy DEF Burst
<1>3. \A k \in DOMAIN todo : todo[k].f \notin Events
  BY <1>1, NothingWaits
<1>4. Names(todo, Events) = {}
  BY <1>3 DEF Names
<1>5. \A j \in DOMAIN nodes : nodes[j].failed \/ Quiet(nodes[j])
  BY <1>1, <1>4 DEF Ordered
<1>6. 1 \in DOMAIN todo' /\ todo'[1] = X[1]
  BY <1>1, Stays DEF Burst
<1>7. X[1].f \in Events /\ X[1].i = i /\ Expected(X[1].f, nodes[i]) /\ i \in Instruments
  BY <1>1, <1>5 DEF Burst, Types
<1>8. \A j \in DOMAIN nodes' : nodes'[j].failed \/ j \in Names(todo', Events) \/ Quiet(nodes'[j])
  BY <1>1, <1>5
<1>9. ASSUME NEW k \in DOMAIN todo', FirstEvent(todo', k)
      PROVE  nodes'[todo'[k].i].failed \/ Expected(todo'[k].f, nodes'[todo'[k].i])
  <2>1. k = 1
    <3>1. k \in Nat \ {0}
      BY <1>1
    <3>. QED BY <3>1, <1>6, <1>7, <1>9 DEF FirstEvent
  <2>. QED BY <2>1, <1>1, <1>6, <1>7
<1>10. Ordered'
  BY <1>8, <1>9 DEF Ordered
<1>. QED BY <1>1, <1>2, <1>10, CallsOnly

LEMMA TheCall ==
    ASSUME IInv, NEW f, Calling(f)
    PROVE  /\ todo \in Seq(Calls) /\ todo # <<>> /\ InTurn /\ Types
           /\ 1 \in DOMAIN todo /\ Head(todo) = todo[1] /\ todo[1].f = f /\ todo[1] \in Calls
           /\ Allowed(todo[1], todo, phase)
           /\ Legal(todo[1], nodes, subscribed, disk.instruments)
           /\ Done => Handles(<<>>, 1)
<1>1. todo \in Seq(Calls) /\ todo # <<>> /\ InTurn /\ Types /\ Head(todo).f = f
  BY DEF IInv, Types, Calling
<1>2. /\ 1 \in DOMAIN todo /\ Head(todo) = todo[1]
      /\ Allowed(todo[1], todo, phase) /\ Legal(todo[1], nodes, subscribed, disk.instruments)
  BY <1>1, HeadBefore
<1>. QED BY <1>1, <1>2, HandlesDone

LEMMA ByWarmup == IInv /\ warmup_history_replay => IInv'
<1>. SUFFICES ASSUME IInv, warmup_history_replay PROVE IInv'
  OBVIOUS
<1>1. Calling("warmup") /\ Frozen
  BY DEF warmup_history_replay, Frozen
<1>. DEFINE i == Head(todo).i
<1>2. /\ todo \in Seq(Calls) /\ todo # <<>> /\ Types /\ todo[1].f = "warmup" /\ i = todo[1].i
      /\ phase \in {"starting", "running"} /\ Idling(todo)
  BY <1>1, TheCall DEF Allowed, Idling
<1>3. CASE i \in DOMAIN nodes
  <2>1. PICK bars \in 0 .. (warmup_bars + 1) :
           todo' = <<[f |-> "replay", i |-> i, add |-> FALSE, left |-> ClippedHistory(bars)]>> \o Tail(todo)
    BY <1>3 DEF warmup_history_replay
  <2>. DEFINE c == [f |-> "replay", i |-> i, add |-> FALSE, left |-> ClippedHistory(bars)]
  <2>2. ClippedHistory(bars) \in 0 .. warmup_bars
    BY ManagerAssumption DEF ClippedHistory
  <2>3. i \in Instruments
    BY <1>2, <1>3 DEF Types
  <2>4. c \in Calls /\ c.f = "replay" /\ c.i = i
    BY <2>2, <2>3 DEF Calls
  <2>. HIDE DEF c, i
  <2>5. <<c>> \in Seq(Calls) /\ DOMAIN <<c>> = {1} /\ <<c>>[1] = c
    BY <2>4
  <2>6. Handles(<<c>>, 1)
    BY <1>2, <2>1, <2>5, HandlesHead DEF c
  <2>. QED BY <1>1, <1>2, <1>3, <2>4, <2>5, <2>6, CallsStep
<1>4. CASE i \notin DOMAIN nodes
  <2>1. Done
    BY <1>4 DEF warmup_history_replay
  <2>2. Handles(<<>>, 1)
    BY <1>1, <2>1, TheCall
  <2>. QED BY <1>1, <1>2, <2>2, CallsStep
<1>. QED BY <1>3, <1>4

LEMMA ByReplay == IInv /\ replay_instrument_history => IInv'
<1>. SUFFICES ASSUME IInv, replay_instrument_history PROVE IInv'
  OBVIOUS
<1>1. Calling("replay") /\ Frozen
  BY DEF replay_instrument_history, Frozen
<1>. DEFINE c == Head(todo)
<1>2. /\ todo \in Seq(Calls) /\ todo # <<>> /\ Types /\ todo[1].f = "replay" /\ c = todo[1]
      /\ phase \in {"starting", "running"} /\ Idling(todo) /\ c \in Calls /\ c.i \in DOMAIN nodes
  BY <1>1, TheCall DEF Allowed, Idling, Legal
<1>3. CASE c.left = 0 \/ nodes[c.i].failed
  <2>1. Done
    BY <1>3 DEF replay_instrument_history
  <2>2. Handles(<<>>, 1)
    BY <1>1, <2>1, TheCall
  <2>. QED BY <1>1, <1>2, <2>2, CallsStep
<1>4. CASE ~ (c.left = 0 \/ nodes[c.i].failed)
  <2>. DEFINE r == [c EXCEPT !.left = @ - 1]
              T == TickEvents(c.i, TRUE, TRUE)
  <2>1. todo' = T \o <<r>> \o Tail(todo)
    BY <1>4 DEF replay_instrument_history
  <2>2. c \in [f : {"create", "replay"}, i : Instruments, add : BOOLEAN, left : 0 .. warmup_bars]
        /\ c.f = "replay"
    BY <1>2 DEF Calls
  <2>3. r \in Calls /\ r.f = "replay" /\ r.i = c.i
    BY <1>4, <2>2, ManagerAssumption DEF Calls
  <2>4. Burst(T, c.i)
    BY <1>2, TickBurst
  <2>. HIDE DEF r, T, c
  <2>5. Burst(T \o <<r>>, c.i)
    BY <2>3, <2>4, ReplayBurst
  <2>6. Handles(T \o <<r>>, 1)
    <3>1. T \o <<r>> \in Seq(Calls)
      BY <2>5 DEF Burst
    <3>. QED BY <1>2, <2>1, <3>1, HandlesHead
  <2>. QED BY <1>1, <1>2, <1>4, <2>5, <2>6, BurstStep
<1>. QED BY <1>3, <1>4

LEMMA ByFeed ==
    ASSUME IInv, NEW i, FeedTick(i), Idling(todo), phase \in {"starting", "running"}
    PROVE  IInv'
<1>1. Frozen /\ i \in DOMAIN nodes /\ ~ nodes[i].failed /\ todo \in Seq(Calls) /\ Types
  BY DEF FeedTick, LiveInstance, Frozen, IInv, Types
<1>2. PICK new_bar \in BOOLEAN : todo' = TickEvents(i, new_bar, FALSE) \o todo
  BY DEF FeedTick
<1>. DEFINE T == TickEvents(i, new_bar, FALSE)
<1>3. Burst(T, i)
  BY <1>1, TickBurst
<1>. HIDE DEF T
<1>4. T \in Seq(Calls)
  BY <1>3 DEF Burst
<1>5. Handles(T, 0)
  BY <1>1, <1>2, <1>4, HandlesFront DEF T
<1>. QED BY <1>1, <1>3, <1>5, BurstStep

LEMMA ByDrain == IInv /\ drain_buffered_ticks => IInv'
<1>. SUFFICES ASSUME IInv, drain_buffered_ticks PROVE IInv'
  OBVIOUS
<1>1. Calling("drain")
  BY DEF drain_buffered_ticks
<1>2. phase \in {"starting", "running"} /\ Idling(todo)
  BY <1>1, TheCall DEF Allowed, Idling, Busy, Events
<1>3. CASE \E i \in Instruments : FeedTick(i)
  BY <1>2, <1>3, ByFeed
<1>4. CASE Done /\ Frozen
  <2>1. Handles(<<>>, 1)
    BY <1>1, <1>4, TheCall
  <2>. QED BY <1>2, <1>4, <2>1, CallsStep
<1>. QED BY <1>3, <1>4 DEF drain_buffered_ticks, Frozen

LEMMA ByTick == ASSUME NEW i PROVE IInv /\ on_tick(i) => IInv'
BY ByFeed DEF on_tick, Ready, Idle, Idling

-----------------------------------------------------------------------------
(* Positions. *)
LEMMA LogicalType ==
    ASSUME NEW position \in Int, NEW scale \in Nat
    PROVE  logical_position(position, scale) \in Int
<1>. DEFINE m == Abs(position) * scale
            units == round_magnitude(m)
<1>1. m \in Int /\ ScaleDen \in Nat \ {0}
  <2>1. Abs(position) \in Int
    BY DEF Abs
  <2>. QED BY <2>1, ScaleAssumption
<1>. HIDE DEF m
<1>2. /\ m \div ScaleDen \in Int /\ (m + ScaleDen - 1) \div ScaleDen \in Int
      /\ (2 * m + ScaleDen) \div (2 * ScaleDen) \in Int
  <2>1. ASSUME NEW x \in Int, NEW d \in Nat \ {0} PROVE x \div d \in Int
    OBVIOUS
  <2>2. m + ScaleDen - 1 \in Int /\ 2 * m + ScaleDen \in Int /\ 2 * ScaleDen \in Nat \ {0}
    BY <1>1
  <2>. QED BY <1>1, <2>1, <2>2
<1>3. units \in Int
  BY <1>2, ScaleAssumption DEF round_magnitude
<1>. HIDE DEF units
<1>4. logical_position(position, scale) =
        LET size == IF units = 0 /\ MinOne THEN 1 ELSE units
        IN  IF position = 0 THEN 0 ELSE IF position > 0 THEN size ELSE -size
  BY DEF logical_position, units, m
<1>. QED BY <1>3, <1>4

LEMMA Traded ==
    ASSUME NEW net \in (-MaxNet)..MaxNet, NEW n \in Trades(net)
    PROVE  n \in (-MaxNet)..MaxNet
BY DEF Trades

LEMMA AccountsType ==
    ASSUME NEW table \in AccountTable
    PROVE  table \in [DOMAIN table -> Scales] /\ DOMAIN table \subseteq Accounts
BY DEF AccountTable

LEMMA TargetType ==
    ASSUME Types, NEW a, NEW i
    PROVE  Target(a, i) \in Int
<1>1. CASE a \in DOMAIN accounts /\ i \in DOMAIN nodes
  <2>1. accounts[a] \in Nat
    BY <1>1, AccountsType, ManagerAssumption DEF Types
  <2>2. nodes[i].net \in Int
    BY <1>1, ManagerAssumption DEF Types, Node
  <2>. QED BY <1>1, <2>1, <2>2, LogicalType DEF Target
<1>2. CASE ~ (a \in DOMAIN accounts /\ i \in DOMAIN nodes)
  BY <1>2 DEF Target
<1>. QED BY <1>1, <1>2

LEMMA Placed ==
    ASSUME Types, NEW D \in [Pairs -> Int], NEW R, Place(D, R)
    PROVE  /\ untracked' \subseteq Pairs /\ untracked \subseteq untracked'
           /\ real' \in [Pairs -> Int]
           /\ \A p \in Pairs : /\ p \in untracked' \/ real'[p] = real[p] + D[p]
                               /\ D[p] # 0 /\ p \in R => p \in untracked'
BY DEF Types, Place

(* The positions once the net position of instance i has become net. *)
Moved(i, net) ==
    /\ accounts' = accounts /\ DOMAIN nodes' = DOMAIN nodes
    /\ nodes'[i].net = net /\ \A j \in DOMAIN nodes \ {i} : nodes'[j].net = nodes[j].net

LEMMA Fanned ==
    ASSUME Types, NEW i \in DOMAIN nodes, NEW net \in (-MaxNet)..MaxNet,
           fanout_positions(i, net), Moved(i, net)
    PROVE  /\ untracked' \subseteq Pairs /\ untracked \subseteq untracked'
           /\ mirror' \in [Pairs -> Int] /\ real' \in [Pairs -> Int]
           /\ \A p \in Pairs :
                p[2] # i \/ ~ nodes[i].live =>
                   mirror'[p] = mirror[p] /\ (p \in untracked' \/ real'[p] = real[p])
           /\ \A p \in Pairs :
                p[2] = i /\ nodes[i].live =>
                   /\ mirror[p] = Target(p[1], i) => mirror'[p] = Target(p[1], i)'
                   /\ p \in untracked' \/ real'[p] = real[p] + (Target(p[1], i)' - Target(p[1], i))
           /\ \A a : \A j \in Instruments \ {i} : Target(a, j)' = Target(a, j)
           /\ net = nodes[i].net => \A a : Target(a, i)' = Target(a, i)
<1>. DEFINE n == nodes[i]
            D == [p \in Pairs |-> IF n.live /\ p[2] = i /\ p[1] \in DOMAIN accounts
                                  THEN fanout_delta(n.net, net, accounts[p[1]]) ELSE 0]
<1>1. /\ \E R : Place(D, R)
      /\ mirror' = [p \in Pairs |-> IF D[p] # 0 THEN logical_position(net, accounts[p[1]])
                                    ELSE mirror[p]]
  BY DEF fanout_positions
<1>2. n.net \in Int /\ net \in Int
  BY ManagerAssumption DEF Types, Node
<1>3. ASSUME NEW a \in DOMAIN accounts
      PROVE  /\ logical_position(n.net, accounts[a]) \in Int
             /\ logical_position(net, accounts[a]) \in Int
  <2>1. accounts[a] \in Nat
    BY AccountsType, ManagerAssumption DEF Types
  <2>. QED BY <1>2, <2>1, LogicalType
<1>4. \A a \in DOMAIN accounts :
         /\ Target(a, i) = logical_position(n.net, accounts[a])
         /\ Target(a, i)' = logical_position(net, accounts[a])
  BY DEF Target, Moved
<1>5. \A a : a \notin DOMAIN accounts => Target(a, i) = 0 /\ Target(a, i)' = 0
  BY DEF Target, Moved
<1>6. \A p \in Pairs :
         D[p] = IF n.live /\ p[2] = i /\ p[1] \in DOMAIN accounts
                THEN logical_position(net, accounts[p[1]]) - logical_position(n.net, accounts[p[1]])
                ELSE 0
  BY DEF fanout_delta
<1>7. D \in [Pairs -> Int]
  <2>1. \A p \in Pairs : D[p] \in Int
    BY <1>3, <1>6
  <2>. QED BY <2>1
<1>8. PICK R : Place(D, R)
  BY <1>1
<1>. HIDE DEF D
<1>9. /\ untracked' \subseteq Pairs /\ untracked \subseteq untracked' /\ real' \in [Pairs -> Int]
      /\ \A p \in Pairs : p \in untracked' \/ real'[p] = real[p] + D[p]
  BY <1>7, <1>8, Placed
<1>10. \A p \in Pairs : mirror'[p] = IF D[p] # 0 THEN logical_position(net, accounts[p[1]]) ELSE mirror[p]
  BY <1>1
<1>11. mirror' \in [Pairs -> Int]
  <2>1. \A p \in Pairs : mirror[p] \in Int
    BY DEF Types
  <2>2. \A p \in Pairs : D[p] # 0 => p[1] \in DOMAIN accounts
    BY <1>6
  <2>. QED BY <1>1, <1>3, <2>1, <2>2
<1>12. \A p \in Pairs : real[p] \in Int
  BY DEF Types
<1>13. ASSUME NEW p \in Pairs, p[2] # i \/ ~ n.live
       PROVE  mirror'[p] = mirror[p] /\ (p \in untracked' \/ real'[p] = real[p])
  <2>1. D[p] = 0
    BY <1>6, <1>13
  <2>. QED BY <2>1, <1>9, <1>10, <1>12
<1>14. ASSUME NEW p \in Pairs, p[2] = i, n.live
       PROVE  /\ mirror[p] = Target(p[1], i) => mirror'[p] = Target(p[1], i)'
              /\ p \in untracked' \/ real'[p] = real[p] + (Target(p[1], i)' - Target(p[1], i))
  <2>1. CASE p[1] \in DOMAIN accounts
    <3>1. D[p] = Target(p[1], i)' - Target(p[1], i)
      BY <1>4, <1>6, <1>14, <2>1
    <3>2. Target(p[1], i) \in Int /\ Target(p[1], i)' \in Int
      BY <1>3, <1>4, <2>1
    <3>. QED BY <3>1, <3>2, <1>4, <1>9, <1>10, <2>1
  <2>2. CASE p[1] \notin DOMAIN accounts
    <3>1. D[p] = 0 /\ Target(p[1], i)' = 0 /\ Target(p[1], i) = 0
      BY <1>5, <1>6, <2>2
    <3>. QED BY <3>1, <1>9, <1>10, <1>12
  <2>. QED BY <2>1, <2>2
<1>15. \A a : \A j \in Instruments \ {i} : Target(a, j)' = Target(a, j)
  BY DEF Target, Moved
<1>16. net = n.net => \A a : Target(a, i)' = Target(a, i)
  BY <1>4, <1>5
<1>. QED BY <1>9, <1>11, <1>13, <1>14, <1>15, <1>16

(* A trade of an instance that works, in the middle of a handler. *)
LEMMA BooksAfterTrade ==
    ASSUME IInv, NEW i \in DOMAIN nodes, NEW net \in (-MaxNet)..MaxNet,
           fanout_positions(i, net), Moved(i, net), phase' = phase,
           \A j \in DOMAIN nodes : /\ nodes'[j].live = nodes[j].live
                                   /\ nodes[j].failed => nodes'[j].failed,
           ~ nodes[i].failed \/ net = nodes[i].net,
           Coming' = Coming, Going' = Going
    PROVE  /\ Books'
           /\ i \notin Going \/ net = nodes[i].net \/ FlattensInDestroy => Sent'
<1>1. Types /\ Books /\ Sent /\ DOMAIN nodes' = DOMAIN nodes /\ accounts' = accounts
  BY DEF IInv, Moved
<1>2. /\ untracked' \subseteq Pairs /\ untracked \subseteq untracked'
      /\ mirror' \in [Pairs -> Int] /\ real' \in [Pairs -> Int]
      /\ \A p \in Pairs :
           p[2] # i \/ ~ nodes[i].live =>
              mirror'[p] = mirror[p] /\ (p \in untracked' \/ real'[p] = real[p])
      /\ \A p \in Pairs :
           p[2] = i /\ nodes[i].live =>
              /\ mirror[p] = Target(p[1], i) => mirror'[p] = Target(p[1], i)'
              /\ p \in untracked' \/ real'[p] = real[p] + (Target(p[1], i)' - Target(p[1], i))
      /\ \A a : \A j \in Instruments \ {i} : Target(a, j)' = Target(a, j)
      /\ net = nodes[i].net => \A a : Target(a, i)' = Target(a, i)
  BY <1>1, Fanned
<1>3. \A p \in Pairs : p[1] \in Accounts /\ p[2] \in Instruments
  BY DEF Pairs
<1>4. ASSUME phase \in {"off", "starting"}, NEW p \in Pairs
      PROVE  mirror'[p] = 0
  BY <1>1, <1>2, <1>4 DEF Books
<1>5. ASSUME phase = "running", NEW p \in Pairs
      PROVE  mirror'[p] = IF p[2] \in Coming THEN 0 ELSE Target(p[1], p[2])'
  <2>1. mirror[p] = IF p[2] \in Coming THEN 0 ELSE Target(p[1], p[2])
    BY <1>1, <1>5 DEF Books
  <2>2. CASE p[2] # i
    BY <1>2, <1>3, <2>1, <2>2
  <2>3. CASE p[2] = i /\ i \in Coming
    <3>1. ~ nodes[i].live
      BY <1>1, <1>5, <2>3 DEF Books
    <3>. QED BY <1>2, <2>1, <2>3, <3>1
  <2>4. CASE p[2] = i /\ i \notin Coming /\ nodes[i].live
    BY <1>2, <2>1, <2>4
  <2>5. CASE p[2] = i /\ i \notin Coming /\ ~ nodes[i].live
    <3>1. nodes[i].failed
      BY <1>1, <1>5, <2>5 DEF Books
    <3>. QED BY <1>2, <2>1, <2>5, <3>1
  <2>. QED BY <2>2, <2>3, <2>4, <2>5
<1>6. ASSUME phase = "running", NEW j \in DOMAIN nodes
      PROVE  IF j \in Coming THEN ~ nodes'[j].live ELSE nodes'[j].live \/ nodes'[j].failed
  BY <1>1, <1>6 DEF Books
<1>7. ASSUME phase \in {"off", "starting"}, NEW j \in DOMAIN nodes
      PROVE  ~ nodes'[j].live
  BY <1>1, <1>7 DEF Books
<1>8. Books'
  BY <1>1, <1>4, <1>5, <1>6, <1>7 DEF Books
<1>9. ASSUME ~ FlattensInDestroy, phase \in {"off", "starting"}, NEW p \in Pairs \ untracked'
      PROVE  real'[p] = 0
  <2>1. ~ nodes[i].live
    BY <1>1, <1>9 DEF Books
  <2>2. p \in Pairs \ untracked /\ real[p] = 0
    BY <1>1, <1>2, <1>9 DEF Sent
  <2>. QED BY <1>2, <1>9, <2>1, <2>2
<1>10. ASSUME ~ FlattensInDestroy, phase = "running", NEW p \in Pairs \ untracked',
              i \notin Going \/ net = nodes[i].net
       PROVE  real'[p] = IF p[2] \in Coming \cup Going THEN 0 ELSE Target(p[1], p[2])'
  <2>1. p \in Pairs \ untracked /\ real[p] = IF p[2] \in Coming \cup Going THEN 0 ELSE Target(p[1], p[2])
    BY <1>1, <1>2, <1>10 DEF Sent
  <2>2. CASE p[2] # i
    BY <1>2, <1>3, <1>10, <2>1, <2>2
  <2>3. CASE p[2] = i /\ i \in Coming
    <3>1. ~ nodes[i].live
      BY <1>1, <1>10, <2>3 DEF Books
    <3>. QED BY <1>2, <1>10, <2>1, <2>3, <3>1
  <2>4. CASE p[2] = i /\ i \notin Coming /\ ~ nodes[i].live
    <3>1. nodes[i].failed /\ net = nodes[i].net
      BY <1>1, <1>10, <2>4 DEF Books
    <3>. QED BY <1>2, <1>10, <2>1, <2>4, <3>1
  <2>5. CASE p[2] = i /\ i \notin Coming /\ nodes[i].live
    <3>. DEFINE t == Target(p[1], i)
    <3>1. p \in untracked' \/ real'[p] = real[p] + (t' - t)
      BY <1>2, <2>5
    <3>2. t \in Int /\ t' \in Int
      <4>1. Target(p[1], i) \in Int
        BY <1>1, TargetType
      <4>2. mirror[p] = t /\ mirror'[p] = t'
        BY <1>2, <1>5, <1>10, <2>5 DEF Books, IInv
      <4>. QED BY <1>2, <4>1, <4>2
    <3>3. CASE i \notin Going
      BY <1>10, <2>1, <2>5, <3>1, <3>2, <3>3
    <3>4. CASE i \in Going
      <4>1. t' = t /\ real[p] = 0
        BY <1>2, <1>10, <2>1, <2>5, <3>4
      <4>. QED BY <1>10, <2>1, <2>5, <3>1, <3>2, <3>4, <4>1
    <3>. QED BY <3>3, <3>4
  <2>. QED BY <2>2, <2>3, <2>4, <2>5
<1>11. i \notin Going \/ net = nodes[i].net \/ FlattensInDestroy => Sent'
  BY <1>1, <1>9, <1>10 DEF Sent
<1>. QED BY <1>8, <1>11

-----------------------------------------------------------------------------
(* Callbacks. *)
LEMMA FilesKept ==
    ASSUME Files, Owed, UNCHANGED <<phase, disk, accounts, subscribed, owed>>,
           DOMAIN nodes' = DOMAIN nodes,
           \A F \in SUBSET {"commit", "rollback", "remove", "destroy"} :
              Names(todo', F) = Names(todo, F)
    PROVE  Files' /\ Owed' /\ Coming' = Coming /\ Going' = Going
<1>1. /\ Coming' = Coming /\ Going' = Going
      /\ \A f \in {"destroy", "remove"} : Names(todo', {f}) = Names(todo, {f})
  BY DEF Coming, Going
<1>. QED BY <1>1 DEF Files, Owed

(* The event after the first one is what the window expects. *)
LEMMA WindowMoves ==
    ASSUME NEW n \in Node, NEW m \in Node, NEW f \in Events, Expected(f, n),
           m.bars = IF f = "open" /\ n.bars <= max_lookback THEN n.bars + 1 ELSE n.bars,
           m.last = IF CallbackEnabled(f, m.bars) THEN f ELSE n.last
    PROVE  /\ f = "close" => Expected("open", m)
           /\ f = "open" => Expected("update", m)
           /\ f = "update" => Quiet(m)
<1>1. n.bars \in Int /\ m.bars \in Int /\ max_lookback \in Nat \ {0}
  BY ManagerAssumption DEF Node
<1>2. CASE f = "close"
  BY <1>1, <1>2 DEF Expected, Quiet, CallbackEnabled, bar_callback_enabled, close_callback_enabled
<1>3. CASE f = "open"
  BY <1>1, <1>3 DEF Expected, Quiet, CallbackEnabled, bar_callback_enabled, close_callback_enabled
<1>4. CASE f = "update"
  BY <1>1, <1>4 DEF Expected, Quiet, CallbackEnabled, bar_callback_enabled, close_callback_enabled
<1>. QED BY <1>2, <1>3, <1>4 DEF Events

LEMMA OrderedAfterEvent ==
    ASSUME Types, InTurn, Ordered, todo # <<>>, todo[1].f \in Events,
           NEW X, Handles(X, 1), \A k \in DOMAIN X : X[k].f = "params",
           NEW i, i = todo[1].i,
           DOMAIN nodes' = DOMAIN nodes, \A j \in DOMAIN nodes \ {i} : nodes'[j] = nodes[j],
           \/ nodes'[i].failed
           \/ /\ todo[1].f = "close" => Expected("open", nodes'[i])
              /\ todo[1].f = "open" => Expected("update", nodes'[i])
              /\ todo[1].f = "update" => Quiet(nodes'[i])
    PROVE  Ordered'
<1>1. todo \in Seq(Calls) /\ todo' \in Seq(Calls) /\ 1 \in DOMAIN todo /\ i \in DOMAIN nodes
      /\ i \in Instruments
  BY HeadBefore DEF Types, Handles, Legal
<1>2. \A k \in 2 .. Len(todo) : /\ k \in DOMAIN todo
                                /\ Before(todo[1], todo[k])
  BY <1>1, HeadBefore
<1>3. \A k \in 2 .. Len(todo) : todo[k].f \in Events =>
         todo[k].i = i /\ todo[1].f # "update"
  BY <1>2 DEF Before, Events, Rank
<1>4. todo[1].f \in {"close", "open"} =>
         /\ 2 \in 2 .. Len(todo) /\ todo[2].f \in Events /\ todo[2].i = i
         /\ todo[2].f = IF todo[1].f = "close" THEN "open" ELSE "update"
  <2>1. todo[1].f \in {"close", "open"} => 1 + 1 \in DOMAIN todo /\ Next1(todo[1], todo[1 + 1])
    BY <1>1 DEF InTurn
  <2>2. 1 + 1 = 2
    OBVIOUS
  <2>3. 2 \in DOMAIN todo => 2 \in 2 .. Len(todo)
    BY <1>1
  <2>. QED BY <2>1, <2>2, <2>3 DEF Next1, Events
<1>. DEFINE m == 2 + Len(X) - 1
<1>5. todo[1].f \in {"close", "open"} => m \in DOMAIN todo' /\ todo'[m] = todo[2]
  BY <1>1, <1>4, Stays
<1>6. ASSUME NEW j \in DOMAIN nodes
      PROVE  nodes'[j].failed \/ j \in Names(todo', Events) \/ Quiet(nodes'[j])
  <2>1. CASE j # i
    <3>1. \A k \in DOMAIN todo : k = 1 \/ k \in 2 .. Len(todo)
      BY <1>1
    <3>2. j \notin Names(todo, Events)
      BY <3>1, <1>3, <2>1 DEF Names
    <3>. QED BY <3>2, <2>1 DEF Ordered
  <2>2. CASE j = i /\ todo[1].f \in {"close", "open"}
    BY <2>2, <1>1, <1>4, <1>5 DEF Names
  <2>3. CASE j = i /\ todo[1].f = "update"
    BY <2>3
  <2>. QED BY <2>1, <2>2, <2>3 DEF Events
<1>7. ASSUME NEW k \in DOMAIN todo', FirstEvent(todo', k)
      PROVE  nodes'[todo'[k].i].failed \/ Expected(todo'[k].f, nodes'[todo'[k].i])
  <2>1. PICK j \in 2 .. Len(todo) : k = j + Len(X) - 1 /\ todo'[k] = todo[j]
    <3>1. \A n \in DOMAIN X : X[n].f \notin Events
      BY DEF Events
    <3>2. 1 + 1 = 2
      OBVIOUS
    <3>. QED BY <1>1, <1>7, <3>1, <3>2, Origin DEF FirstEvent
  <2>2. todo[j].i = i /\ todo[1].f \in {"close", "open"}
    BY <1>3, <1>7, <2>1 DEF FirstEvent, Events
  <2>3. k = m
    <3>1. m \in Nat \ {0} /\ k \in Nat /\ j \in Nat /\ j >= 2
      BY <1>1, <1>5, <2>1, <2>2
    <3>2. Len(X) \in Nat
      BY DEF Handles
    <3>3. k >= m
      BY <2>1, <3>1, <3>2
    <3>4. ~ (m \in 1 .. (k - 1))
      BY <1>4, <1>5, <1>7, <2>2 DEF FirstEvent
    <3>. HIDE DEF m
    <3>. QED BY <3>1, <3>3, <3>4
  <2>4. todo'[k] = todo[2]
    BY <1>5, <2>2, <2>3
  <2>. QED BY <1>4, <2>2, <2>4
<1>. QED BY <1>6, <1>7 DEF Ordered

(* The calls that are left when a callback of B has returned. *)
LEMMA TurnAfterCallback ==
    ASSUME Types, InTurn, todo # <<>>, todo[1].f \in Events \cup {"params"},
           NEW X, Handles(X, 1), Len(X) <= 1, X = <<>> \/ todo[1].f \in Events,
           \A k \in DOMAIN X : X[k].f = "params" /\ Legal(X[k], nodes', subscribed', disk'.instruments),
           UNCHANGED <<phase, subscribed, disk>>, DOMAIN nodes' = DOMAIN nodes,
           \A j \in DOMAIN nodes \ {todo[1].i} : nodes'[j] = nodes[j]
    PROVE  /\ InTurn'
           /\ \A F \in SUBSET {"commit", "rollback", "remove", "destroy"} :
                 Names(todo', F) = Names(todo, F)
<1>1. ASSUME NEW F \in SUBSET {"commit", "rollback", "remove", "destroy"}
      PROVE  Names(todo', F) = Names(todo, F)
  <2>1. \A k \in DOMAIN X : X[k].f \notin F
    OBVIOUS
  <2>2. todo[1].f \notin F /\ todo \in Seq(Calls)
    BY DEF Events, Types
  <2>. QED BY <2>1, <2>2, NamesKept
<1>2. todo \in Seq(Calls) /\ Going' = Going
  BY <1>1 DEF Going, Types
<1>3. phase \in {"starting", "running"}
  BY <1>2, HeadBefore DEF Allowed, Events
<1>4. \A k \in DOMAIN X : Allowed(X[k], todo', phase')
  BY <1>3 DEF Allowed, Busy
<1>5. \A k \in 2 .. Len(todo) : k \in DOMAIN todo /\ Before(todo[1], todo[k])
  BY <1>2, HeadBefore
<1>6. ASSUME NEW k \in 2 .. Len(todo)
      PROVE  Legal(todo[k], nodes', subscribed', disk'.instruments)
  <2>1. Legal(todo[k], nodes, subscribed, disk.instruments)
    BY <1>5 DEF InTurn
  <2>2. todo[k].f = "params" => nodes'[todo[k].i] = nodes[todo[k].i]
    <3>1. todo[k].f = "params" => todo[1].f = "params" /\ todo[k].i # todo[1].i
      BY <1>5 DEF Before
    <3>. QED BY <2>1, <3>1 DEF Legal
  <2>. QED BY <2>1, <2>2 DEF Legal
<1>7. ASSUME NEW j \in DOMAIN X, NEW k \in 2 .. Len(todo) PROVE Before(X[j], todo[k])
  <2>1. X[j].f = "params" /\ todo[1].f \in Events
    <3>1. X # <<>>
      OBVIOUS
    <3>. QED BY <3>1
  <2>. QED BY <1>5, <2>1 DEF Before, Events
<1>8. \A j, k \in DOMAIN X : ~ (j < k)
  BY DEF Handles
<1>9. \A k \in DOMAIN X : X[k].f \notin {"close", "open"}
  OBVIOUS
<1>10. \A k \in (1 + 1) .. Len(todo) : k \in 2 .. Len(todo)
  OBVIOUS
<1>. QED BY <1>1, <1>2, <1>4, <1>6, <1>7, <1>8, <1>9, <1>10, KeepTurn

LEMMA BooksUntouched ==
    ASSUME IInv, UNCHANGED <<orders, accounts, phase>>, DOMAIN nodes' = DOMAIN nodes,
           \A j \in DOMAIN nodes : /\ nodes'[j].live = nodes[j].live
                                   /\ nodes'[j].net = nodes[j].net
                                   /\ nodes[j].failed => nodes'[j].failed,
           Coming' = Coming, Going' = Going
    PROVE  Books' /\ Sent'
<1>1. Books /\ Sent /\ UNCHANGED <<mirror, real, untracked>>
  BY DEF IInv, orders
<1>2. \A a, i : Target(a, i)' = Target(a, i)
  BY DEF Target
<1>. QED BY <1>1, <1>2 DEF Books, Sent

(* Everything but the books, after event todo[1] has turned node n of the
   instance into m. *)
LEMMA AfterEvent ==
    ASSUME IInv, todo # <<>>, todo[1].f \in Events, NEW i, i = todo[1].i,
           NEW X, Handles(X, 1), NEW m \in Node, nodes' = With(i, m),
           UNCHANGED <<phase, config, subscribed, owed>>,
           mirror' \in [Pairs -> Int], real' \in [Pairs -> Int], untracked' \subseteq Pairs,
           m.fresh = nodes[i].fresh, m.pending => nodes[i].pending,
           \/ X = <<>> /\ (Informed(nodes[i]) => Informed(m))
           \/ X = <<[f |-> "params", i |-> i]>> /\ ~ m.failed /\ ~ m.pending /\ ~ m.fresh,
           \/ m.failed
           \/ /\ todo[1].f = "close" => Expected("open", m)
              /\ todo[1].f = "open" => Expected("update", m)
              /\ todo[1].f = "update" => Quiet(m),
           (\A F \in SUBSET {"commit", "rollback", "remove", "destroy"} : Names(todo', F) = Names(todo, F))
              => Books' /\ Sent'
    PROVE  IInv'
<1>1. Types /\ InTurn /\ Files /\ Owed /\ Told /\ Ordered
      /\ UNCHANGED <<disk, accounts>> /\ todo \in Seq(Calls)
  BY DEF IInv, config, Types
<1>2. i \in DOMAIN nodes /\ i \in Instruments /\ 1 \in DOMAIN todo
  BY <1>1, HeadBefore DEF Legal, Types
<1>3. DOMAIN nodes' = DOMAIN nodes /\ nodes'[i] = m
      /\ \A j \in DOMAIN nodes \ {i} : nodes'[j] = nodes[j]
  BY <1>2 DEF With
<1>4. /\ Len(X) <= 1 /\ \A k \in DOMAIN X : X[k] = [f |-> "params", i |-> i]
      /\ X # <<>> => DOMAIN X = {1} /\ ~ m.failed /\ ~ m.pending /\ ~ m.fresh
  <2>1. CASE X = <<>>
    BY <2>1
  <2>2. CASE X = <<[f |-> "params", i |-> i]>> /\ ~ m.failed /\ ~ m.pending /\ ~ m.fresh
    BY <2>2
  <2>. QED BY <2>1, <2>2
<1>5. \A k \in DOMAIN X : X[k].f = "params" /\ Legal(X[k], nodes', subscribed', disk'.instruments)
  <2>1. SUFFICES ASSUME NEW k \in DOMAIN X PROVE Legal(X[k], nodes', subscribed', disk'.instruments)
    BY <1>4
  <2>2. X # <<>>
    OBVIOUS
  <2>. QED BY <1>2, <1>3, <1>4, <2>2 DEF Legal, Events
<1>6. /\ InTurn'
      /\ \A F \in SUBSET {"commit", "rollback", "remove", "destroy"} :
            Names(todo', F) = Names(todo, F)
  BY <1>1, <1>3, <1>4, <1>5, TurnAfterCallback
<1>7. Files' /\ Owed' /\ Books' /\ Sent'
  BY <1>1, <1>3, <1>6, FilesKept
<1>8. Types'
  <2>1. nodes' \in [DOMAIN nodes' -> Node]
    BY <1>1, <1>2 DEF With, Types
  <2>. QED BY <1>1, <1>3, <2>1 DEF Types, Handles
<1>9. Ordered'
  BY <1>1, <1>3, <1>4, OrderedAfterEvent
<1>10. Told'
  <2>1. \A k \in DOMAIN todo : todo[k].f # "params"
    <3>1. \A k \in DOMAIN todo : k = 1 \/ (k \in 2 .. Len(todo) /\ Before(todo[1], todo[k]))
      BY <1>1, HeadBefore
    <3>. QED BY <3>1 DEF Before, Events
  <2>2. ASSUME NEW j \in DOMAIN nodes
        PROVE  /\ nodes'[j].pending => ~ nodes'[j].fresh
               /\ Informed(nodes'[j]) \/ j \in Names(todo', {"params"})
    <3>1. (nodes[j].pending => ~ nodes[j].fresh) /\ Informed(nodes[j])
      BY <1>1, <2>1 DEF Told, Names
    <3>2. CASE j # i
      BY <1>3, <3>1, <3>2
    <3>3. CASE j = i /\ X = <<>>
      <4>1. X # <<[f |-> "params", i |-> i]>>
        BY <3>3
      <4>. QED BY <1>3, <3>1, <3>3, <4>1
    <3>4. CASE j = i /\ X # <<>>
      <4>1. 1 \in DOMAIN X /\ X[1].f = "params" /\ X[1].i = i
        BY <1>4, <3>4
      <4>2. 1 \in DOMAIN todo' /\ todo'[1] = X[1]
        BY <1>1, <4>1, Stays
      <4>3. i \in Names(todo', {"params"})
        BY <1>2, <4>1, <4>2 DEF Names
      <4>. QED BY <1>3, <1>4, <3>1, <3>4, <4>3
    <3>. QED BY <3>2, <3>3, <3>4
  <2>. QED BY <1>3, <2>2 DEF Told
<1>. QED BY <1>6, <1>7, <1>8, <1>9, <1>10 DEF IInv

LEMMA ByDispatch == ASSUME NEW f \in Events PROVE IInv /\ Dispatch(f) => IInv'
<1>. SUFFICES ASSUME IInv, Dispatch(f) PROVE IInv'
  OBVIOUS
<1>. DEFINE i == todo[1].i
            n == nodes[i]
            replay == todo[1].replay
            bars == IF f = "open" /\ n.bars <= max_lookback THEN n.bars + 1 ELSE n.bars
            node == [n EXCEPT !.tick = @ \/ ~replay, !.bars = bars]
<1>1. Calling(f) /\ UNCHANGED <<phase, config, subscribed, owed>>
      /\ UNCHANGED <<disk, accounts>>
  BY DEF Dispatch, config
<1>2. /\ todo \in Seq(Calls) /\ todo # <<>> /\ Types /\ Ordered /\ Told /\ Head(todo) = todo[1] /\ InTurn
      /\ todo[1].f = f /\ todo[1] \in Calls /\ i \in DOMAIN nodes /\ 1 \in DOMAIN todo
      /\ Done => Handles(<<>>, 1)
  BY <1>1, TheCall DEF Legal, IInv
<1>3. n \in Node /\ max_lookback \in Nat \ {0} /\ DOMAIN nodes \subseteq Instruments
      /\ nodes \in [DOMAIN nodes -> Node]
  BY <1>2, ManagerAssumption DEF Types
<1>4. mirror \in [Pairs -> Int] /\ real \in [Pairs -> Int] /\ untracked \subseteq Pairs
  BY <1>2 DEF Types
<1>5. IF n.failed THEN Done /\ UNCHANGED <<nodes, orders>>
      ELSE IF CallbackEnabled(f, bars) THEN Deliver(i, node, f)
      ELSE nodes' = With(i, node) /\ Done /\ UNCHANGED orders
  BY <1>2 DEF Dispatch
<1>6. n.failed \/ Expected(f, n)
  <2>1. FirstEvent(todo, 1)
    BY <1>2 DEF FirstEvent
  <2>. QED BY <1>2, <2>1 DEF Ordered
<1>8. CASE n.failed
  <2>1. Handles(<<>>, 1) /\ UNCHANGED <<nodes, orders, mirror, real, untracked>>
    BY <1>2, <1>5, <1>8 DEF orders
  <2>2. nodes' = With(i, n)
    BY <1>2, <1>3, <2>1 DEF With
  <2>3. (\A F \in SUBSET {"commit", "rollback", "remove", "destroy"} : Names(todo', F) = Names(todo, F))
           => Books' /\ Sent'
    <3>1. ASSUME \A F \in SUBSET {"commit", "rollback", "remove", "destroy"} : Names(todo', F) = Names(todo, F)
          PROVE  Coming' = Coming /\ Going' = Going
      BY <3>1 DEF Coming, Going
    <3>. QED BY <1>1, <2>1, <3>1, BooksUntouched
  <2>4. n.fresh = nodes[i].fresh /\ (n.pending => nodes[i].pending) /\ (Informed(nodes[i]) => Informed(n))
    OBVIOUS
  <2>5. /\ mirror' \in [Pairs -> Int] /\ real' \in [Pairs -> Int] /\ untracked' \subseteq Pairs
        /\ todo[1].f \in Events
    BY <1>2, <1>4, <2>1
  <2>. HIDE DEF n
  <2>. QED BY <1>1, <1>2, <1>3, <1>8, <2>1, <2>2, <2>3, <2>4, <2>5, AfterEvent
<1>9. bars \in 0 .. (max_lookback + 1)
  BY <1>3 DEF Node
<1>10. /\ node \in Node /\ node.net = n.net /\ node.live = n.live /\ node.failed = n.failed
       /\ node.bars = bars /\ node.stage = n.stage /\ node.pending = n.pending
       /\ node.fresh = n.fresh /\ node.last = n.last
  <2>. DEFINE t == n.tick \/ ~ replay
  <2>1. t \in BOOLEAN /\ node = [n EXCEPT !.tick = t, !.bars = bars]
    OBVIOUS
  <2>. HIDE DEF t, node, bars, n
  <2>. QED BY <1>3, <1>9, <2>1 DEF Node
<1>11. CASE ~ n.failed /\ ~ CallbackEnabled(f, bars)
  <2>1. Handles(<<>>, 1) /\ nodes' = With(i, node) /\ UNCHANGED <<orders, mirror, real, untracked>>
    BY <1>2, <1>5, <1>11 DEF orders
  <2>2. (\A F \in SUBSET {"commit", "rollback", "remove", "destroy"} : Names(todo', F) = Names(todo, F))
           => Books' /\ Sent'
    <3>1. ASSUME \A F \in SUBSET {"commit", "rollback", "remove", "destroy"} : Names(todo', F) = Names(todo, F)
          PROVE  Coming' = Coming /\ Going' = Going
      BY <3>1 DEF Coming, Going
    <3>2. DOMAIN nodes' = DOMAIN nodes /\ nodes'[i] = node
          /\ \A j \in DOMAIN nodes \ {i} : nodes'[j] = nodes[j]
      BY <1>2, <2>1 DEF With
    <3>3. \A j \in DOMAIN nodes : /\ nodes'[j].live = nodes[j].live
                                  /\ nodes'[j].net = nodes[j].net
                                  /\ nodes[j].failed => nodes'[j].failed
      BY <1>10, <3>2
    <3>. QED BY <1>1, <2>1, <3>1, <3>2, <3>3, BooksUntouched
  <2>3. /\ f = "close" => Expected("open", node)
        /\ f = "open" => Expected("update", node)
        /\ f = "update" => Quiet(node)
    <3>. HIDE DEF node, n
    <3>. QED BY <1>3, <1>6, <1>10, <1>11, WindowMoves
  <2>4. node.fresh = nodes[i].fresh /\ (node.pending => nodes[i].pending) /\ (Informed(nodes[i]) => Informed(node))
    BY <1>10 DEF Informed
  <2>5. /\ mirror' \in [Pairs -> Int] /\ real' \in [Pairs -> Int] /\ untracked' \subseteq Pairs
        /\ todo[1].f \in Events
    BY <1>2, <1>4, <2>1
  <2>. HIDE DEF node, n
  <2>. QED BY <1>1, <1>2, <1>10, <2>1, <2>2, <2>3, <2>4, <2>5, AfterEvent
<1>12. CASE ~ n.failed /\ CallbackEnabled(f, bars)
  <2>1. PICK net \in Trades(node.net), throws \in BOOLEAN :
          /\ fanout_positions(i, net)
          /\ nodes' = With(i, [node EXCEPT !.net = net, !.failed = throws, !.last = f,
                                           !.stage = @ \/ ~throws,
                                           !.pending = @ /\ throws])
          /\ todo' = (IF node.pending /\ ~throws THEN <<[f |-> "params", i |-> i]>> ELSE <<>>)
                     \o Tail(todo)
    BY <1>5, <1>12 DEF Deliver
  <2>. DEFINE stage == node.stage \/ ~throws
              pending == node.pending /\ throws
              m == [node EXCEPT !.net = net, !.failed = throws, !.last = f,
                                !.stage = stage, !.pending = pending]
              c == [f |-> "params", i |-> i]
              X == IF node.pending /\ ~throws THEN <<c>> ELSE <<>>
  <2>2. net \in (-MaxNet)..MaxNet
    BY <1>10, <2>1, Traded DEF Node
  <2>3. /\ m \in Node /\ m.net = net /\ m.live = n.live /\ m.failed = throws
        /\ m.bars = bars /\ m.stage = stage /\ m.pending = pending
        /\ m.fresh = n.fresh /\ m.last = f
    <3>1. stage \in BOOLEAN /\ pending \in BOOLEAN
      OBVIOUS
    <3>. HIDE DEF stage, pending, node, n
    <3>. QED BY <1>10, <2>2, <3>1 DEF Node, Events
  <2>4. nodes' = With(i, m)
    BY <2>1
  <2>5. DOMAIN nodes' = DOMAIN nodes /\ nodes'[i] = m
        /\ \A j \in DOMAIN nodes \ {i} : nodes'[j] = nodes[j]
    <3>. HIDE DEF m
    <3>. QED BY <1>2, <2>4 DEF With
  <2>6. Handles(X, 1)
    <3>1. c \in Calls
      BY <1>2, <1>3 DEF Calls
    <3>. HIDE DEF c, node
    <3>2. X \in Seq(Calls)
      BY <3>1
    <3>3. todo' = X \o Tail(todo)
      BY <2>1 DEF c
    <3>. HIDE DEF X
    <3>. QED BY <1>2, <3>2, <3>3, HandlesHead
  <2>. HIDE DEF m
  <2>7. Moved(i, net)
    BY <1>1, <2>3, <2>5 DEF Moved
  <2>8. /\ mirror' \in [Pairs -> Int] /\ real' \in [Pairs -> Int] /\ untracked' \subseteq Pairs
        /\ todo[1].f \in Events
    <3>. HIDE DEF i
    <3>. QED BY <1>2, <2>1, <2>2, <2>7, Fanned
  <2>9. (\A F \in SUBSET {"commit", "rollback", "remove", "destroy"} : Names(todo', F) = Names(todo, F))
           => Books' /\ Sent'
    <3>1. ASSUME \A F \in SUBSET {"commit", "rollback", "remove", "destroy"} : Names(todo', F) = Names(todo, F)
          PROVE  Coming' = Coming /\ Going' = Going
      BY <3>1 DEF Coming, Going
    <3>2. \A j \in DOMAIN nodes : /\ nodes'[j].live = nodes[j].live
                                  /\ nodes[j].failed => nodes'[j].failed
      BY <1>12, <2>3, <2>5
    <3>3. i \notin Going
      <4>1. \A k \in DOMAIN todo : k = 1 \/ (k \in 2 .. Len(todo) /\ Before(todo[1], todo[k]))
        BY <1>2, HeadBefore
      <4>2. \A k \in DOMAIN todo : todo[k].f \notin {"remove", "rollback"}
        BY <1>2, <4>1 DEF Before, Events
      <4>. QED BY <4>2 DEF Going, Names
    <3>. HIDE DEF i
    <3>. QED BY <1>1, <1>2, <1>12, <2>1, <2>2, <2>7, <3>1, <3>2, <3>3, BooksAfterTrade
  <2>10. \/ m.failed
         \/ /\ f = "close" => Expected("open", m)
            /\ f = "open" => Expected("update", m)
            /\ f = "update" => Quiet(m)
    <3>. HIDE DEF n
    <3>. QED BY <1>3, <1>6, <1>12, <2>3, WindowMoves
  <2>11. m.fresh = nodes[i].fresh /\ (m.pending => nodes[i].pending)
    BY <1>10, <2>3
  <2>12. (nodes[i].pending => ~ nodes[i].fresh) /\ Informed(nodes[i])
    <3>1. \A k \in DOMAIN todo : k = 1 \/ (k \in 2 .. Len(todo) /\ Before(todo[1], todo[k]))
      BY <1>2, HeadBefore
    <3>2. \A k \in DOMAIN todo : todo[k].f # "params"
      BY <1>2, <3>1 DEF Before, Events
    <3>. QED BY <1>2, <3>2 DEF Told, Names
  <2>13. \/ X = <<>> /\ (Informed(nodes[i]) => Informed(m))
         \/ X = <<c>> /\ ~ m.failed /\ ~ m.pending /\ ~ m.fresh
    <3>1. CASE throws
      BY <2>3, <3>1 DEF Informed
    <3>2. CASE ~ throws /\ node.pending
      <4>1. X = <<c>>
        BY <3>2
      <4>2. ~ m.failed /\ ~ m.pending /\ ~ m.fresh
        BY <1>10, <2>3, <2>12, <3>2
      <4>. QED BY <4>1, <4>2
    <3>3. CASE ~ throws /\ ~ node.pending
      <4>1. X = <<>>
        BY <3>3
      <4>2. n.fresh
        BY <1>10, <1>12, <2>12, <3>3 DEF Informed
      <4>. QED BY <2>3, <4>1, <4>2 DEF Informed
    <3>. QED BY <3>1, <3>2, <3>3
  <2>. HIDE DEF X, n, node
  <2>. QED BY <1>1, <1>2, <2>3, <2>4, <2>6, <2>8, <2>9, <2>10, <2>11, <2>13, AfterEvent
<1>. QED BY <1>8, <1>11, <1>12

(* A call that is no event and leaves the windows alone. *)
LEMMA OrderedAfterCall ==
    ASSUME Types, InTurn, Ordered, todo # <<>>, todo[1].f \notin Events, Handles(<<>>, 1),
           DOMAIN nodes' = DOMAIN nodes,
           \A j \in DOMAIN nodes : \/ nodes'[j].failed
                                   \/ /\ ~ nodes[j].failed
                                      /\ nodes'[j].bars = nodes[j].bars
                                      /\ nodes'[j].last = nodes[j].last
    PROVE  Ordered'
<1>1. todo \in Seq(Calls) /\ todo' \in Seq(Calls)
  BY DEF Types, Handles
<1>2. Names(todo', Events) = Names(todo, Events)
  BY <1>1, NamesKept
<1>3. ASSUME NEW n, NEW m, n.bars = m.bars, n.last = m.last
      PROVE  (Quiet(n) <=> Quiet(m)) /\ \A f : Expected(f, n) <=> Expected(f, m)
  BY <1>3 DEF Quiet, Expected
<1>4. ASSUME NEW j \in DOMAIN nodes
      PROVE  nodes'[j].failed \/ j \in Names(todo', Events) \/ Quiet(nodes'[j])
  <2>1. nodes[j].failed \/ j \in Names(todo, Events) \/ Quiet(nodes[j])
    BY DEF Ordered
  <2>. QED BY <1>2, <1>3, <2>1
<1>5. ASSUME NEW k \in DOMAIN todo', FirstEvent(todo', k)
      PROVE  nodes'[todo'[k].i].failed \/ Expected(todo'[k].f, nodes'[todo'[k].i])
  <2>1. \A j \in 2 .. Len(todo) : j - 1 \in DOMAIN todo' /\ todo'[j - 1] = todo[j]
    BY <1>1 DEF Handles
  <2>2. k + 1 \in 2 .. Len(todo) /\ k + 1 \in DOMAIN todo /\ todo'[k] = todo[k + 1]
    BY <1>1 DEF Handles
  <2>3. FirstEvent(todo, k + 1)
    <3>1. ASSUME NEW j \in 1 .. ((k + 1) - 1) PROVE todo[j].f \notin Events
      <4>1. CASE j = 1
        BY <4>1
      <4>2. CASE j # 1
        <5>1. j \in 2 .. Len(todo) /\ j - 1 \in 1 .. (k - 1)
          BY <1>1, <2>2, <4>2
        <5>. QED BY <5>1, <2>1, <1>5 DEF FirstEvent
      <4>. QED BY <4>1, <4>2
    <3>. QED BY <1>5, <2>2, <3>1 DEF FirstEvent
  <2>4. todo[k + 1].i \in DOMAIN nodes
    BY <2>2, <2>3 DEF InTurn, Legal, FirstEvent
  <2>5. nodes[todo[k + 1].i].failed \/ Expected(todo[k + 1].f, nodes[todo[k + 1].i])
    BY <2>2, <2>3 DEF Ordered
  <2>. QED BY <1>3, <2>2, <2>4, <2>5
<1>. QED BY <1>4, <1>5 DEF Ordered

LEMMA ByParams == IInv /\ invoke_params_update => IInv'
<1>. SUFFICES ASSUME IInv, invoke_params_update PROVE IInv'
  OBVIOUS
<1>. DEFINE i == todo[1].i
            n == nodes[i]
<1>1. Calling("params") /\ Done /\ UNCHANGED <<phase, config, subscribed, owed, disk, accounts>>
  BY DEF invoke_params_update, config
<1>2. /\ todo \in Seq(Calls) /\ todo # <<>> /\ Types /\ Ordered /\ Told /\ InTurn /\ Files /\ Owed
      /\ Head(todo) = todo[1] /\ todo[1].f = "params" /\ i \in DOMAIN nodes /\ 1 \in DOMAIN todo
      /\ ~ n.failed /\ ~ n.pending /\ Handles(<<>>, 1)
  BY <1>1, TheCall DEF Legal, IInv
<1>3. PICK net \in Trades(n.net), throws \in BOOLEAN :
        /\ fanout_positions(i, net)
        /\ nodes' = [nodes EXCEPT ![i].net = net, ![i].failed = throws, ![i].fresh = TRUE]
  BY <1>2 DEF invoke_params_update
<1>4. n \in Node /\ DOMAIN nodes \subseteq Instruments /\ nodes \in [DOMAIN nodes -> Node]
  BY <1>2 DEF Types
<1>5. net \in (-MaxNet)..MaxNet
  BY <1>3, <1>4, Traded DEF Node
<1>. DEFINE m == [n EXCEPT !.net = net, !.failed = throws, !.fresh = TRUE]
<1>6. /\ m \in Node /\ m.net = net /\ m.live = n.live /\ m.failed = throws /\ m.bars = n.bars
      /\ m.pending = n.pending /\ m.fresh /\ m.last = n.last
  BY <1>4, <1>5 DEF Node
<1>7. /\ DOMAIN nodes' = DOMAIN nodes /\ nodes'[i] = m
      /\ \A j \in DOMAIN nodes \ {i} : nodes'[j] = nodes[j]
      /\ nodes' \in [DOMAIN nodes' -> Node]
  <2>1. nodes' = [nodes EXCEPT ![i] = m]
    BY <1>3
  <2>. HIDE DEF m
  <2>. QED BY <1>2, <1>4, <1>6, <2>1
<1>. HIDE DEF m, n
<1>8. /\ InTurn'
      /\ \A F \in SUBSET {"commit", "rollback", "remove", "destroy"} :
            Names(todo', F) = Names(todo, F)
  BY <1>1, <1>2, <1>7, TurnAfterCallback
<1>9. Files' /\ Owed' /\ Coming' = Coming /\ Going' = Going
  BY <1>1, <1>2, <1>7, <1>8, FilesKept
<1>10. \A j \in DOMAIN nodes : /\ nodes'[j].live = nodes[j].live
                               /\ nodes[j].failed => nodes'[j].failed
  BY <1>2, <1>6, <1>7 DEF n
<1>11. i \notin Going
  <2>1. \A k \in DOMAIN todo : k = 1 \/ (k \in 2 .. Len(todo) /\ Before(todo[1], todo[k]))
    BY <1>2, HeadBefore
  <2>2. \A k \in DOMAIN todo : todo[k].f \notin {"remove", "rollback"}
    BY <1>2, <2>1 DEF Before
  <2>. QED BY <2>2 DEF Going, Names
<1>12. Moved(i, net)
  BY <1>1, <1>6, <1>7 DEF Moved
<1>13. Books' /\ Sent'
  BY <1>1, <1>2, <1>3, <1>5, <1>9, <1>10, <1>11, <1>12, BooksAfterTrade DEF n
<1>14. Types'
  <2>1. mirror' \in [Pairs -> Int] /\ real' \in [Pairs -> Int] /\ untracked' \subseteq Pairs
    BY <1>2, <1>3, <1>5, <1>12, Fanned
  <2>. QED BY <1>1, <1>2, <1>4, <1>7, <2>1 DEF Types, Handles
<1>15. Ordered'
  <2>1. \A j \in DOMAIN nodes : \/ nodes'[j].failed
                                \/ /\ ~ nodes[j].failed
                                   /\ nodes'[j].bars = nodes[j].bars
                                   /\ nodes'[j].last = nodes[j].last
    BY <1>2, <1>6, <1>7 DEF n
  <2>. QED BY <1>2, <1>7, <2>1, OrderedAfterCall DEF Events
<1>16. Told'
  <2>1. ASSUME NEW j \in DOMAIN nodes, j # i, j \in Names(todo, {"params"})
        PROVE  j \in Names(todo', {"params"})
    <3>1. PICK k \in DOMAIN todo : todo[k].f = "params" /\ todo[k].i = j
      BY <2>1 DEF Names
    <3>2. k \in 2 .. Len(todo)
      BY <1>2, <2>1, <3>1
    <3>3. k - 1 \in DOMAIN todo' /\ todo'[k - 1] = todo[k]
      BY <1>2, <3>2 DEF Handles
    <3>. QED BY <1>4, <3>1, <3>3 DEF Names
  <2>2. ASSUME NEW j \in DOMAIN nodes
        PROVE  /\ nodes'[j].pending => ~ nodes'[j].fresh
               /\ Informed(nodes'[j]) \/ j \in Names(todo', {"params"})
    <3>1. CASE j = i
      BY <1>2, <1>6, <1>7, <3>1 DEF Informed
    <3>2. CASE j # i
      BY <1>2, <1>7, <2>1, <3>2 DEF Told
    <3>. QED BY <3>1, <3>2
  <2>. QED BY <1>7, <2>2 DEF Told
<1>. QED BY <1>8, <1>9, <1>13, <1>14, <1>15, <1>16 DEF IInv

LEMMA TurnDone ==
    ASSUME todo \in Seq(Calls), todo # <<>>, InTurn, Handles(<<>>, 1),
           Len(todo) = 1 \/ (phase' = phase /\ todo[1].f \notin {"remove", "rollback"}),
           \A k \in 2 .. Len(todo) : Legal(todo[k], nodes', subscribed', disk'.instruments)
    PROVE  InTurn'
<1>1. Len(todo) # 1 => phase' = phase /\ Going' = Going
  <2>1. todo[1].f \notin {"remove", "rollback"} =>
           Names(todo', {"remove", "rollback"}) = Names(todo, {"remove", "rollback"})
    BY NamesKept
  <2>. QED BY <2>1 DEF Going
<1>2. \A k \in (1 + 1) .. Len(todo) : k \in 2 .. Len(todo)
  OBVIOUS
<1>3. \A k \in DOMAIN <<>> : FALSE
  OBVIOUS
<1>. QED BY <1>1, <1>2, <1>3, KeepTurn

LEMMA NamesAfter ==
    ASSUME todo \in Seq(Calls), Handles(<<>>, 1), NEW F
    PROVE  /\ Names(todo', F) \subseteq Names(todo, F)
           /\ \A i \in Names(todo, F) :
                 i \in Names(todo', F) \/ (todo[1].f \in F /\ todo[1].i = i)
           /\ (\A k \in 2 .. Len(todo) : todo[k].f \in F => todo[k].i # todo[1].i)
                 => todo[1].i \notin Names(todo', F)
<1>1. Names(<<>>, F) = {}
  BY DEF Names
<1>2. Names(todo', F) =
        {i \in Instruments : \E k \in (1 + 1) .. Len(todo) : todo[k].f \in F /\ todo[k].i = i}
  BY <1>1, NamesNew
<1>3. \A k : (k \in (1 + 1) .. Len(todo) <=> k \in 2 .. Len(todo))
             /\ (k \in DOMAIN todo <=> k = 1 \/ k \in 2 .. Len(todo))
  BY DEF Handles
<1>. QED BY <1>2, <1>3 DEF Names

LEMMA ByDestroy == IInv /\ dispatch_on_destroy => IInv'
<1>. SUFFICES ASSUME IInv, dispatch_on_destroy PROVE IInv'
  OBVIOUS
<1>. DEFINE i == todo[1].i
            n == nodes[i]
<1>1. Calling("destroy") /\ Done /\ UNCHANGED <<phase, config, subscribed, disk, accounts>>
  BY DEF dispatch_on_destroy, config
<1>2. /\ todo \in Seq(Calls) /\ todo # <<>> /\ Types /\ Ordered /\ Told /\ InTurn /\ Files /\ Owed
      /\ Head(todo) = todo[1] /\ todo[1].f = "destroy" /\ i \in DOMAIN nodes /\ 1 \in DOMAIN todo
      /\ Handles(<<>>, 1) /\ Allowed(todo[1], todo, phase)
  BY <1>1, TheCall DEF Legal, IInv
<1>3. PICK net \in {n.net} \cup (IF FlattensInDestroy /\ ~n.failed THEN {0} ELSE {}) :
        /\ fanout_positions(i, net)
        /\ nodes' = [nodes EXCEPT ![i].net = net]
        /\ owed' = owed \ {i}
  BY <1>2 DEF dispatch_on_destroy
<1>4. n \in Node /\ DOMAIN nodes \subseteq Instruments /\ nodes \in [DOMAIN nodes -> Node]
  BY <1>2 DEF Types
<1>5. /\ net \in (-MaxNet)..MaxNet
      /\ net = n.net \/ (FlattensInDestroy /\ ~ n.failed)
  BY <1>3, <1>4, ManagerAssumption DEF Node
<1>. DEFINE m == [n EXCEPT !.net = net]
<1>6. /\ m \in Node /\ m.net = net /\ m.live = n.live /\ m.failed = n.failed /\ m.bars = n.bars
      /\ m.pending = n.pending /\ m.fresh = n.fresh /\ m.last = n.last /\ m.stage = n.stage
  BY <1>4, <1>5 DEF Node
<1>7. /\ DOMAIN nodes' = DOMAIN nodes /\ nodes'[i] = m
      /\ \A j \in DOMAIN nodes \ {i} : nodes'[j] = nodes[j]
      /\ nodes' \in [DOMAIN nodes' -> Node]
  <2>1. nodes' = [nodes EXCEPT ![i] = m]
    BY <1>3
  <2>. HIDE DEF m
  <2>. QED BY <1>2, <1>4, <1>6, <2>1
<1>. HIDE DEF m
<1>8. \A j \in DOMAIN nodes :
         /\ nodes'[j].live = nodes[j].live /\ nodes'[j].failed = nodes[j].failed
         /\ nodes'[j].bars = nodes[j].bars /\ nodes'[j].last = nodes[j].last
         /\ nodes'[j].pending = nodes[j].pending /\ nodes'[j].fresh = nodes[j].fresh
         /\ nodes'[j].stage = nodes[j].stage
  BY <1>6, <1>7
<1>. HIDE DEF n
<1>9. \A k \in 2 .. Len(todo) : k \in DOMAIN todo /\ Before(todo[1], todo[k])
  BY <1>2, HeadBefore
<1>10. InTurn'
  <2>1. \A k \in 2 .. Len(todo) : Legal(todo[k], nodes, subscribed, disk.instruments)
    BY <1>2, <1>9 DEF InTurn
  <2>2. \A k \in 2 .. Len(todo) : Legal(todo[k], nodes', subscribed', disk'.instruments)
    BY <1>1, <1>7, <1>8, <2>1 DEF Legal, Events
  <2>. QED BY <1>1, <1>2, <2>2, TurnDone
<1>11. \A F \in SUBSET {"commit", "rollback", "remove", "params"} :
         Names(todo', F) = Names(todo, F)
  BY <1>2, NamesKept
<1>12. Coming' = Coming /\ Going' = Going /\ Names(todo', {"remove"}) = Names(todo, {"remove"})
       /\ Names(todo', {"params"}) = Names(todo, {"params"})
  BY <1>11 DEF Coming, Going
<1>13. Files'
  BY <1>1, <1>2, <1>7, <1>12 DEF Files
<1>14. Owed'
  <2>1. Names(todo', {"destroy"}) = Names(todo, {"destroy"}) \ {i}
    <3>1. \A k \in 2 .. Len(todo) : todo[k].f \in {"destroy"} => todo[k].i # todo[1].i
      BY <1>2, <1>9 DEF Before
    <3>. QED BY <1>2, <3>1, NamesAfter
  <2>2. phase \in {"running", "stopping"} /\ (phase = "running" => i \in Going)
    BY <1>2 DEF Allowed, Going, Busy, Events
  <2>. QED BY <1>1, <1>2, <1>3, <1>7, <1>12, <2>1, <2>2 DEF Owed
<1>15. Moved(i, net)
  BY <1>1, <1>6, <1>7 DEF Moved
<1>16. Books' /\ Sent'
  BY <1>1, <1>2, <1>3, <1>5, <1>8, <1>12, <1>15, BooksAfterTrade DEF n
<1>17. Types'
  <2>1. mirror' \in [Pairs -> Int] /\ real' \in [Pairs -> Int] /\ untracked' \subseteq Pairs
    BY <1>2, <1>3, <1>5, <1>15, Fanned
  <2>. QED BY <1>1, <1>2, <1>4, <1>7, <2>1 DEF Types, Handles
<1>18. Ordered'
  BY <1>2, <1>7, <1>8, OrderedAfterCall DEF Events
<1>19. Told'
  BY <1>2, <1>7, <1>8, <1>12 DEF Told, Informed
<1>. QED BY <1>10, <1>13, <1>14, <1>16, <1>17, <1>18, <1>19 DEF IInv

-----------------------------------------------------------------------------
(* The last call of a handler. *)
LEMMA NoNames == \A F : Names(<<>>, F) = {}
BY DEF Names

LEMMA LastNames ==
    ASSUME todo \in Seq(Calls), Len(todo) = 1
    PROVE  \A F : Names(todo, F) = {i \in Instruments : todo[1].f \in F /\ todo[1].i = i}
<1>1. DOMAIN todo = {1}
  OBVIOUS
<1>. QED BY <1>1 DEF Names

LEMMA HandlerEnds ==
    ASSUME todo' = <<>>,
           \A i \in DOMAIN nodes' : /\ nodes'[i].failed \/ Quiet(nodes'[i])
                                    /\ nodes'[i].pending => ~ nodes'[i].fresh
                                    /\ Informed(nodes'[i])
    PROVE  InTurn' /\ Ordered' /\ Told' /\ todo' \in Seq(Calls)
BY DEF InTurn, Ordered, Told

(* Before the last call, and outside any handler, every instance is at rest. *)
LEMMA AtRest ==
    ASSUME Types, Ordered, Told, todo = <<>> \/ (Len(todo) = 1 /\ todo[1].f \notin Busy)
    PROVE  \A i \in DOMAIN nodes : /\ nodes[i].failed \/ Quiet(nodes[i])
                                   /\ nodes[i].pending => ~ nodes[i].fresh
                                   /\ Informed(nodes[i])
<1>1. \A k \in DOMAIN todo : todo[k].f \notin Events \cup {"params"}
  BY DEF Types, Busy
<1>2. Names(todo, Events) = {} /\ Names(todo, {"params"}) = {}
  BY <1>1 DEF Names
<1>. QED BY <1>2 DEF Ordered, Told

LEMMA ByEnterLive == IInv /\ enter_live => IInv'
<1>. SUFFICES ASSUME IInv, enter_live PROVE IInv'
  OBVIOUS
<1>1. /\ Calling("enter_live") /\ Done /\ phase' = "running"
      /\ UNCHANGED <<disk, accounts, subscribed, owed>>
  BY DEF enter_live, config
<1>2. /\ todo \in Seq(Calls) /\ todo # <<>> /\ Types /\ Ordered /\ Told /\ InTurn /\ Files /\ Owed
      /\ Books /\ Sent /\ todo[1].f = "enter_live" /\ phase = "starting"
  BY <1>1, TheCall DEF Allowed, IInv, Busy, Events
<1>3. Len(todo) = 1 /\ todo' = <<>>
  BY <1>1, <1>2, LastCall DEF Done
<1>4. \A F \in SUBSET {"commit", "rollback", "remove", "destroy"} :
         Names(todo, F) = {} /\ Names(todo', F) = {}
  BY <1>2, <1>3, LastNames, NoNames
<1>5. Coming = {} /\ Coming' = {} /\ Going = {} /\ Going' = {}
  BY <1>4 DEF Coming, Going
<1>6. nodes' = [i \in DOMAIN nodes |-> [nodes[i] EXCEPT !.live = ~nodes[i].failed]]
  BY DEF enter_live
<1>7. \A i \in DOMAIN nodes : nodes[i] \in Node /\ i \in Instruments
  BY <1>2 DEF Types
<1>8. /\ DOMAIN nodes' = DOMAIN nodes /\ nodes' \in [DOMAIN nodes' -> Node]
      /\ \A i \in DOMAIN nodes :
           /\ nodes'[i].live \/ nodes'[i].failed
           /\ nodes'[i].net = nodes[i].net /\ nodes'[i].failed = nodes[i].failed
           /\ nodes'[i].bars = nodes[i].bars /\ nodes'[i].last = nodes[i].last
           /\ nodes'[i].pending = nodes[i].pending /\ nodes'[i].fresh = nodes[i].fresh
           /\ nodes'[i].stage = nodes[i].stage
  BY <1>6, <1>7, ZenonT(60) DEF Node
<1>9. InTurn' /\ Ordered' /\ Told' /\ todo' \in Seq(Calls)
  <2>1. \A i \in DOMAIN nodes : /\ nodes[i].failed \/ Quiet(nodes[i])
                                /\ nodes[i].pending => ~ nodes[i].fresh
                                /\ Informed(nodes[i])
    BY <1>2, <1>3, AtRest DEF Busy, Events
  <2>. QED BY <1>3, <1>8, <2>1, HandlerEnds DEF Quiet, Informed
<1>10. \A a, i : Target(a, i)' = Target(a, i)
  BY <1>1, <1>8 DEF Target
<1>. DEFINE D == [p \in Pairs |-> Target(p[1], p[2])]
<1>11. D \in [Pairs -> Int] /\ Place(D, Pairs)
  <2>1. \A p \in Pairs : Target(p[1], p[2]) \in Int
    BY <1>2, TargetType
  <2>. QED BY <2>1 DEF enter_live, NoOrders
<1>12. \A p \in Pairs : mirror'[p] = Target(p[1], p[2])
  <2>1. \A p \in Pairs : mirror[p] = 0
    BY <1>2 DEF Books
  <2>. QED BY <2>1 DEF enter_live, publish_all_positions, Target
<1>13. mirror' \in [Pairs -> Int]
  <2>1. mirror' = [p \in Pairs |-> mirror'[p]]
    BY DEF enter_live, publish_all_positions
  <2>. QED BY <1>2, <1>12, <2>1, TargetType
<1>14. /\ untracked' \subseteq Pairs /\ untracked \subseteq untracked' /\ real' \in [Pairs -> Int]
       /\ \A p \in Pairs : /\ p \in untracked' \/ real'[p] = real[p] + D[p]
                           /\ D[p] # 0 => p \in untracked'
  <2>. HIDE DEF D
  <2>. QED BY <1>2, <1>11, Placed
<1>15. Types'
  BY <1>1, <1>2, <1>8, <1>9, <1>13, <1>14 DEF Types
<1>16. Books'
  BY <1>1, <1>5, <1>8, <1>10, <1>12 DEF Books
<1>17. Sent'
  <2>1. ASSUME ~ FlattensInDestroy, NEW p \in Pairs \ untracked'
        PROVE  real'[p] = Target(p[1], p[2])'
    <3>1. D[p] = 0 /\ real'[p] = real[p] + D[p]
      BY <1>14, <2>1
    <3>2. real[p] = 0
      BY <1>2, <1>14, <2>1 DEF Sent
    <3>. QED BY <1>10, <3>1, <3>2
  <2>. QED BY <1>1, <1>5, <2>1 DEF Sent
<1>18. Files' /\ Owed'
  BY <1>1, <1>2, <1>4, <1>5, <1>8 DEF Files, Owed
<1>. QED BY <1>9, <1>15, <1>16, <1>17, <1>18 DEF IInv

(* What is known when the call that ends a command is made for instance i. *)
LEMMA Ending ==
    ASSUME IInv, NEW f \in {"commit", "rollback", "remove"}, Calling(f)
    PROVE  /\ Types /\ Ordered /\ Told /\ Files /\ Owed /\ Books /\ Sent
           /\ Head(todo) = todo[1] /\ todo[1].f = f
           /\ todo[1].i \in DOMAIN nodes /\ todo[1].i \in Instruments
           /\ phase = "running" /\ Tail(todo) = <<>>
           /\ Names(todo, {"destroy"}) = {}
           /\ Coming = (IF f = "remove" THEN {} ELSE {todo[1].i})
           /\ Going = (IF f = "commit" THEN {} ELSE {todo[1].i})
           /\ Names(todo, {"remove"}) = (IF f = "remove" THEN {todo[1].i} ELSE {})
           /\ \A i \in DOMAIN nodes : /\ nodes[i].failed \/ Quiet(nodes[i])
                                      /\ nodes[i].pending => ~ nodes[i].fresh
                                      /\ Informed(nodes[i])
<1>1. /\ todo \in Seq(Calls) /\ todo # <<>> /\ Types /\ Ordered /\ Told /\ InTurn /\ Files /\ Owed
      /\ Books /\ Sent /\ todo[1].f = f /\ phase = "running" /\ Head(todo) = todo[1]
      /\ todo[1].i \in DOMAIN nodes /\ todo[1].i \in Instruments
  BY TheCall DEF Allowed, Legal, IInv, Busy, Events, Types
<1>2. Len(todo) = 1 /\ Tail(todo) = <<>>
  BY <1>1, LastCall
<1>3. \A F : Names(todo, F) = IF f \in F THEN {todo[1].i} ELSE {}
  BY <1>1, <1>2, LastNames
<1>4. Names(todo, {"destroy"}) = {} /\ Coming = (IF f = "remove" THEN {} ELSE {todo[1].i})
      /\ Going = (IF f = "commit" THEN {} ELSE {todo[1].i})
      /\ Names(todo, {"remove"}) = (IF f = "remove" THEN {todo[1].i} ELSE {})
  BY <1>3 DEF Coming, Going
<1>. QED BY <1>1, <1>2, <1>4, AtRest DEF Busy, Events

LEMMA ByCommit == IInv /\ finish_instrument_add => IInv'
<1>. SUFFICES ASSUME IInv, finish_instrument_add PROVE IInv'
  OBVIOUS
<1>. DEFINE i == todo[1].i
<1>1. Calling("commit") /\ UNCHANGED <<phase, accounts, subscribed, owed>>
  BY DEF finish_instrument_add
<1>2. /\ Types /\ Ordered /\ Told /\ Files /\ Owed /\ Books /\ Sent
      /\ Head(todo) = todo[1] /\ phase = "running" /\ i \in DOMAIN nodes /\ i \in Instruments
      /\ Names(todo, {"destroy"}) = {} /\ Names(todo, {"remove"}) = {}
      /\ Coming = {i} /\ Going = {} /\ Tail(todo) = <<>>
      /\ \A j \in DOMAIN nodes : /\ nodes[j].failed \/ Quiet(nodes[j])
                                 /\ nodes[j].pending => ~ nodes[j].fresh
                                 /\ Informed(nodes[j])
  BY <1>1, Ending
<1>3. \/ /\ Commit(disk.instruments \cup {i}, disk.accounts)
         /\ publish_all_positions({i})
         /\ NoOrders([p \in Pairs |-> IF p[2] = i THEN Target(p[1], i) ELSE 0])
         /\ nodes' = [nodes EXCEPT ![i].live = ~nodes[i].failed]
         /\ Done
      \/ /\ todo' = <<[f |-> "destroy", i |-> i], [f |-> "rollback", i |-> i]>>
         /\ UNCHANGED <<disk, nodes, orders>>
  BY <1>2 DEF finish_instrument_add
<1>4. CASE /\ Commit(disk.instruments \cup {i}, disk.accounts)
           /\ publish_all_positions({i})
           /\ NoOrders([p \in Pairs |-> IF p[2] = i THEN Target(p[1], i) ELSE 0])
           /\ nodes' = [nodes EXCEPT ![i].live = ~nodes[i].failed]
           /\ Done
  <2>1. todo' = <<>>
    BY <1>2, <1>4 DEF Done
  <2>2. Coming' = {} /\ Going' = {} /\ Names(todo', {"destroy"}) = {} /\ Names(todo', {"remove"}) = {}
    BY <2>1, NoNames DEF Coming, Going
  <2>. DEFINE m == [nodes[i] EXCEPT !.live = ~nodes[i].failed]
  <2>3. /\ m \in Node /\ m.net = nodes[i].net /\ m.failed = nodes[i].failed
        /\ m.bars = nodes[i].bars /\ m.last = nodes[i].last /\ m.stage = nodes[i].stage
        /\ m.pending = nodes[i].pending /\ m.fresh = nodes[i].fresh
        /\ m.live \/ m.failed
    <3>1. nodes[i] \in Node
      BY <1>2 DEF Types
    <3>2. m.live = ~nodes[i].failed
      BY <3>1 DEF Node
    <3>. QED BY <3>1, <3>2 DEF Node
  <2>4. nodes' = [nodes EXCEPT ![i] = m]
    BY <1>4
  <2>. HIDE DEF m
  <2>5. /\ DOMAIN nodes' = DOMAIN nodes /\ nodes' \in [DOMAIN nodes' -> Node]
        /\ nodes'[i] = m /\ \A j \in DOMAIN nodes \ {i} : nodes'[j] = nodes[j]
    BY <1>2, <2>3, <2>4 DEF Types
  <2>6. \A j \in DOMAIN nodes :
           /\ nodes'[j].live \/ nodes'[j].failed
           /\ nodes'[j].net = nodes[j].net /\ nodes'[j].failed = nodes[j].failed
           /\ nodes'[j].bars = nodes[j].bars /\ nodes'[j].last = nodes[j].last
           /\ nodes'[j].pending = nodes[j].pending /\ nodes'[j].fresh = nodes[j].fresh
           /\ nodes'[j].stage = nodes[j].stage
    <3>1. \A j \in DOMAIN nodes \ {i} : nodes[j].live \/ nodes[j].failed
      BY <1>2 DEF Books
    <3>. QED BY <2>3, <2>5, <3>1
  <2>7. InTurn' /\ Ordered' /\ Told' /\ todo' \in Seq(Calls)
    BY <1>2, <2>1, <2>5, <2>6, HandlerEnds DEF Quiet, Informed
  <2>8. \A a, j : Target(a, j)' = Target(a, j)
    BY <1>1, <2>5, <2>6 DEF Target
  <2>. DEFINE D == [p \in Pairs |-> IF p[2] = i THEN Target(p[1], i) ELSE 0]
  <2>9. D \in [Pairs -> Int] /\ Place(D, Pairs)
    <3>1. \A p \in Pairs : Target(p[1], i) \in Int
      BY <1>2, TargetType
    <3>. QED BY <1>4, <3>1 DEF NoOrders
  <2>10. \A p \in Pairs : mirror'[p] = Target(p[1], p[2])
    <3>1. \A p \in Pairs : mirror[p] = IF p[2] = i THEN 0 ELSE Target(p[1], p[2])
      BY <1>2 DEF Books
    <3>. QED BY <1>4, <3>1 DEF publish_all_positions, Target
  <2>11. mirror' \in [Pairs -> Int]
    <3>1. mirror' = [p \in Pairs |-> mirror'[p]]
      BY <1>4 DEF publish_all_positions
    <3>. QED BY <1>2, <2>10, <3>1, TargetType
  <2>12. /\ untracked' \subseteq Pairs /\ untracked \subseteq untracked' /\ real' \in [Pairs -> Int]
         /\ \A p \in Pairs : /\ p \in untracked' \/ real'[p] = real[p] + D[p]
                             /\ D[p] # 0 => p \in untracked'
    <3>. HIDE DEF D
    <3>. QED BY <1>2, <2>9, Placed
  <2>13. disk' = [instruments |-> disk.instruments \cup {i}, accounts |-> disk.accounts]
    BY <1>4 DEF Commit
  <2>14. Types'
    BY <1>1, <1>2, <2>5, <2>7, <2>11, <2>12, <2>13 DEF Types
  <2>15. Books'
    BY <1>1, <1>2, <2>2, <2>5, <2>6, <2>8, <2>10 DEF Books
  <2>16. Sent'
    <3>1. ASSUME ~ FlattensInDestroy, NEW p \in Pairs \ untracked'
          PROVE  real'[p] = Target(p[1], p[2])'
      <4>1. real[p] = IF p[2] = i THEN 0 ELSE Target(p[1], p[2])
        BY <1>2, <2>12, <3>1 DEF Sent
      <4>2. D[p] = 0 /\ real'[p] = real[p] + 0 /\ real[p] \in Int
        BY <1>2, <2>12, <3>1 DEF Types
      <4>. QED BY <2>8, <4>1, <4>2
    <3>. QED BY <1>1, <1>2, <2>2, <3>1 DEF Sent
  <2>17. Files' /\ Owed'
    BY <1>1, <1>2, <2>2, <2>5, <2>13 DEF Files, Owed
  <2>. QED BY <2>7, <2>14, <2>15, <2>16, <2>17 DEF IInv
<1>5. CASE /\ todo' = <<[f |-> "destroy", i |-> i], [f |-> "rollback", i |-> i]>>
           /\ UNCHANGED <<disk, nodes, orders>>
  <2>. DEFINE c == [f |-> "destroy", i |-> i]
              d == [f |-> "rollback", i |-> i]
  <2>1. c \in Calls /\ d \in Calls
    BY <1>2 DEF Calls
  <2>2. c.f = "destroy" /\ d.f = "rollback" /\ c.i = i /\ d.i = i
    OBVIOUS
  <2>3. todo' = <<c, d>>
    BY <1>5
  <2>. HIDE DEF c, d
  <2>4. todo' \in Seq(Calls) /\ DOMAIN todo' = 1 .. 2 /\ todo'[1] = c /\ todo'[2] = d
    BY <2>1, <2>3
  <2>5. \A F : Names(todo', F) = IF "destroy" \in F \/ "rollback" \in F THEN {i} ELSE {}
    BY <1>2, <2>2, <2>4 DEF Names
  <2>6. /\ Coming' = {i} /\ Going' = {i} /\ Names(todo', {"destroy"}) = {i}
        /\ Names(todo', {"remove"}) = {} /\ Names(todo', {"remove", "rollback"}) = {i}
    BY <2>5 DEF Coming, Going
  <2>7. UNCHANGED <<mirror, real, untracked, disk, nodes>>
    BY <1>5 DEF orders
  <2>8. InTurn'
    <3>1. \A k \in DOMAIN todo' : /\ Allowed(todo'[k], todo', phase')
                                  /\ Legal(todo'[k], nodes', subscribed', disk'.instruments)
      BY <1>1, <1>2, <2>2, <2>4, <2>6, <2>7 DEF Allowed, Legal, Events
    <3>2. \A j, k \in DOMAIN todo' : j < k => Before(todo'[j], todo'[k])
      BY <2>2, <2>4 DEF Before, Events
    <3>3. \A k \in DOMAIN todo' : todo'[k].f \notin {"close", "open"}
      BY <2>2, <2>4
    <3>. QED BY <3>1, <3>2, <3>3 DEF InTurn
  <2>9. Ordered' /\ Told'
    <3>1. \A k \in DOMAIN todo' : todo'[k].f \notin Events
      BY <2>2, <2>4 DEF Events
    <3>. QED BY <1>2, <2>7, <3>1 DEF Ordered, Told, FirstEvent
  <2>10. \A a, j : Target(a, j)' = Target(a, j)
    BY <1>1, <2>7 DEF Target
  <2>11. Books' /\ Sent'
    BY <1>1, <1>2, <2>6, <2>7, <2>10 DEF Books, Sent
  <2>12. Files' /\ Owed'
    BY <1>1, <1>2, <2>6, <2>7 DEF Files, Owed
  <2>13. Types'
    BY <1>1, <1>2, <2>4, <2>7 DEF Types
  <2>. QED BY <2>8, <2>9, <2>11, <2>12, <2>13 DEF IInv
<1>. QED BY <1>3, <1>4, <1>5

(* An instance is taken out of the tables. *)
LEMMA ByTakingOut ==
    ASSUME IInv, NEW f \in {"rollback", "remove"}, Calling(f), NEW i, i = Head(todo).i,
           nodes' = Without(i), Done, UNCHANGED <<phase, config, real, untracked, owed>>,
           subscribed' = IF f = "rollback" THEN subscribed \ {i} ELSE subscribed,
           mirror' \in [Pairs -> Int],
           \A p \in Pairs : mirror'[p] = IF f = "remove" /\ p[2] = i /\ p[1] \in DOMAIN accounts
                                         THEN 0 ELSE mirror[p]
    PROVE  IInv'
<1>1. /\ Types /\ Ordered /\ Told /\ Files /\ Owed /\ Books /\ Sent
      /\ Head(todo) = todo[1] /\ phase = "running" /\ i \in DOMAIN nodes /\ i \in Instruments
      /\ Names(todo, {"destroy"}) = {} /\ Tail(todo) = <<>>
      /\ Coming = (IF f = "remove" THEN {} ELSE {i}) /\ Going = {i}
      /\ Names(todo, {"remove"}) = (IF f = "remove" THEN {i} ELSE {})
      /\ \A j \in DOMAIN nodes : /\ nodes[j].failed \/ Quiet(nodes[j])
                                 /\ nodes[j].pending => ~ nodes[j].fresh
                                 /\ Informed(nodes[j])
  <2>1. f \in {"commit", "rollback", "remove"} /\ f # "commit"
    OBVIOUS
  <2>. QED BY <2>1, Ending
<1>2. todo' = <<>> /\ UNCHANGED <<disk, accounts>>
  BY <1>1 DEF Done, config
<1>3. Coming' = {} /\ Going' = {} /\ Names(todo', {"destroy"}) = {} /\ Names(todo', {"remove"}) = {}
  BY <1>2, NoNames DEF Coming, Going
<1>4. /\ DOMAIN nodes' = DOMAIN nodes \ {i} /\ nodes' \in [DOMAIN nodes' -> Node]
      /\ \A j \in DOMAIN nodes' : nodes'[j] = nodes[j]
  BY <1>1 DEF Without, Restrict, Types
<1>5. InTurn' /\ Ordered' /\ Told' /\ todo' \in Seq(Calls)
  BY <1>1, <1>2, <1>4, HandlerEnds
<1>6. /\ \A a : Target(a, i)' = 0
      /\ \A a : a \notin DOMAIN accounts => Target(a, i) = 0
      /\ \A a, j : j # i => Target(a, j)' = Target(a, j)
  BY <1>2, <1>4 DEF Target
<1>7. Types'
  BY <1>1, <1>2, <1>4, <1>5 DEF Types
<1>8. ASSUME NEW p \in Pairs PROVE mirror'[p] = Target(p[1], p[2])'
  <2>1. mirror[p] = IF p[2] \in Coming THEN 0 ELSE Target(p[1], p[2])
    BY <1>1 DEF Books
  <2>2. CASE p[2] # i
    BY <1>1, <1>6, <2>1, <2>2
  <2>3. CASE p[2] = i /\ f = "remove"
    BY <1>1, <1>6, <2>1, <2>3
  <2>4. CASE p[2] = i /\ f = "rollback"
    BY <1>1, <1>6, <2>1, <2>4
  <2>. QED BY <2>2, <2>3, <2>4
<1>9. Books'
  <2>1. \A j \in DOMAIN nodes' : nodes[j].live \/ nodes[j].failed
    BY <1>1, <1>4 DEF Books
  <2>. QED BY <1>1, <1>3, <1>4, <1>8, <2>1 DEF Books
<1>10. Sent'
  <2>1. ASSUME ~ FlattensInDestroy, NEW p \in Pairs \ untracked'
        PROVE  real'[p] = Target(p[1], p[2])'
    <3>1. real[p] = IF p[2] = i THEN 0 ELSE Target(p[1], p[2])
      BY <1>1, <2>1 DEF Sent
    <3>. QED BY <1>6, <3>1
  <2>. QED BY <1>1, <1>3, <2>1 DEF Sent
<1>11. Files' /\ Owed'
  BY <1>1, <1>2, <1>3, <1>4 DEF Files, Owed
<1>. QED BY <1>5, <1>7, <1>9, <1>10, <1>11 DEF IInv

LEMMA ByRollback == IInv /\ rollback_instrument_add => IInv'
<1>. SUFFICES ASSUME IInv, rollback_instrument_add PROVE IInv'
  OBVIOUS
<1>1. /\ Calling("rollback") /\ nodes' = Without(Head(todo).i) /\ Done
      /\ UNCHANGED <<phase, config, mirror, real, untracked, owed>>
      /\ subscribed' = subscribed \ {Head(todo).i} /\ mirror \in [Pairs -> Int]
  BY DEF rollback_instrument_add, orders, IInv, Types
<1>. QED BY <1>1, ByTakingOut

LEMMA ByRemove == IInv /\ finish_instrument_del => IInv'
<1>. SUFFICES ASSUME IInv, finish_instrument_del PROVE IInv'
  OBVIOUS
<1>. DEFINE i == Head(todo).i
<1>1. /\ Calling("remove") /\ nodes' = Without(i) /\ Done
      /\ UNCHANGED <<phase, config, subscribed, real, untracked, owed>>
      /\ mirror' = [p \in Pairs |-> IF p[2] = i /\ p[1] \in DOMAIN accounts THEN 0 ELSE mirror[p]]
      /\ mirror \in [Pairs -> Int]
  BY DEF finish_instrument_del, IInv, Types
<1>2. mirror' \in [Pairs -> Int]
  BY <1>1
<1>. QED BY <1>1, <1>2, ByTakingOut

(* A new instance. *)
LEMMA NewInstance ==
    ASSUME Types, NEW i \in Instruments \ DOMAIN nodes, NEW net \in Trades(0),
           nodes' = With(i, FreshNode(net))
    PROVE  /\ DOMAIN nodes' = DOMAIN nodes \cup {i} /\ nodes' \in [DOMAIN nodes' -> Node]
           /\ \A j \in DOMAIN nodes : nodes'[j] = nodes[j]
           /\ ~ nodes'[i].live /\ Quiet(nodes'[i]) /\ Informed(nodes'[i]) /\ ~ nodes'[i].pending
<1>1. net \in (-MaxNet)..MaxNet /\ max_lookback \in Nat \ {0}
  <2>1. 0 \in (-MaxNet)..MaxNet
    BY ManagerAssumption
  <2>. QED BY <2>1, Traded, ManagerAssumption
<1>. DEFINE m == FreshNode(net)
<1>2. m \in Node /\ ~ m.live /\ Quiet(m) /\ Informed(m) /\ ~ m.pending
  BY <1>1 DEF FreshNode, Node, Quiet, Informed, bar_callback_enabled
<1>. HIDE DEF m
<1>3. nodes' = [j \in DOMAIN nodes \cup {i} |-> IF j = i THEN m ELSE nodes[j]]
  BY DEF With, m
<1>. QED BY <1>2, <1>3 DEF Types

LEMMA ByCreate == IInv /\ create_instance => IInv'
<1>. SUFFICES ASSUME IInv, create_instance PROVE IInv'
  OBVIOUS
<1>. DEFINE c == todo[1]
            i == todo[1].i
<1>1. Calling("create") /\ UNCHANGED <<phase, config, orders, disk, accounts, mirror, real, untracked>>
  BY DEF create_instance, config, orders
<1>2. /\ todo \in Seq(Calls) /\ todo # <<>> /\ Types /\ Ordered /\ Told /\ InTurn /\ Files /\ Owed
      /\ Books /\ Sent /\ Head(todo) = c /\ c.f = "create" /\ c \in Calls
      /\ phase = (IF c.add THEN "running" ELSE "starting")
      /\ i \in subscribed \ DOMAIN nodes /\ (c.add \/ i \in disk.instruments)
      /\ 1 \in DOMAIN todo /\ (Done => Handles(<<>>, 1))
  BY <1>1, TheCall DEF Allowed, Legal, IInv, Busy, Events
<1>3. i \in Instruments \ DOMAIN nodes /\ c.add \in BOOLEAN
  BY <1>2 DEF Types, Calls
<1>4. \A k \in 2 .. Len(todo) : k \in DOMAIN todo /\ Before(c, todo[k])
  BY <1>2, HeadBefore
<1>5. \A k \in DOMAIN todo : todo[k].f \notin Events \cup {"params", "remove", "rollback"}
  <2>1. \A k \in DOMAIN todo : k = 1 \/ k \in 2 .. Len(todo)
    BY <1>2
  <2>. QED BY <1>2, <1>4, <2>1 DEF Before, Events
<1>6. Names(todo, Events) = {} /\ Names(todo, {"params"}) = {} /\ Going = {} /\ Names(todo, {"remove"}) = {}
  BY <1>5 DEF Names, Going
<1>7. \A j \in DOMAIN nodes : /\ nodes[j].failed \/ Quiet(nodes[j])
                              /\ nodes[j].pending => ~ nodes[j].fresh
                              /\ Informed(nodes[j])
  BY <1>2, <1>6 DEF Ordered, Told
<1>8. c.add => Len(todo) = 1 /\ Tail(todo) = <<>>
  BY <1>2, LastCall
<1>9. CASE \E net \in Trades(0) :
             /\ nodes' = With(c.i, FreshNode(net))
             /\ owed' = owed \cup {c.i}
             /\ todo' = (IF c.add THEN <<[f |-> "warmup", i |-> c.i], [f |-> "commit", i |-> c.i]>>
                         ELSE <<>>) \o Tail(todo)
             /\ UNCHANGED subscribed
  <2>1. PICK net \in Trades(0) : nodes' = With(i, FreshNode(net))
    BY <1>9
  <2>2. owed' = owed \cup {i} /\ UNCHANGED subscribed
    BY <1>9
  <2>3. /\ DOMAIN nodes' = DOMAIN nodes \cup {i} /\ nodes' \in [DOMAIN nodes' -> Node]
        /\ \A j \in DOMAIN nodes : nodes'[j] = nodes[j]
        /\ ~ nodes'[i].live /\ Quiet(nodes'[i]) /\ Informed(nodes'[i]) /\ ~ nodes'[i].pending
    BY <1>2, <1>3, <2>1, NewInstance
  <2>4. \A j \in DOMAIN nodes' : /\ nodes'[j].failed \/ Quiet(nodes'[j])
                                 /\ nodes'[j].pending => ~ nodes'[j].fresh
                                 /\ Informed(nodes'[j])
    BY <1>7, <2>3
  <2>5. /\ \A a : Target(a, i) = 0
        /\ \A a : \A j \in Instruments \ {i} : Target(a, j)' = Target(a, j)
    BY <1>1, <1>2, <2>3 DEF Target
  <2>6. \A p \in Pairs : p[2] \in Instruments
    BY DEF Pairs
  <2>7. CASE c.add
    <3>. DEFINE w == [f |-> "warmup", i |-> i]
                e == [f |-> "commit", i |-> i]
    <3>1. w \in Calls /\ e \in Calls /\ w.f = "warmup" /\ e.f = "commit" /\ w.i = i /\ e.i = i
      BY <1>3 DEF Calls
    <3>2. todo' = <<w, e>> \o <<>>
      BY <1>8, <1>9, <2>7
    <3>. HIDE DEF w, e
    <3>3. todo' \in Seq(Calls) /\ DOMAIN todo' = 1 .. 2 /\ todo'[1] = w /\ todo'[2] = e
      BY <3>1, <3>2
    <3>4. \A F : Names(todo', F) = IF "warmup" \in F \/ "commit" \in F THEN {i} ELSE {}
      BY <1>3, <3>1, <3>3 DEF Names
    <3>5. /\ Coming' = {i} /\ Going' = {} /\ Names(todo', {"destroy"}) = {}
          /\ Names(todo', {"remove"}) = {}
      BY <3>4 DEF Coming, Going
    <3>6. InTurn'
      <4>1. \A k \in DOMAIN todo' : /\ Allowed(todo'[k], todo', phase')
                                    /\ Legal(todo'[k], nodes', subscribed', disk'.instruments)
        BY <1>1, <1>2, <2>3, <2>7, <3>1, <3>3 DEF Allowed, Legal, Events, Busy
      <4>2. \A j, k \in DOMAIN todo' : j < k => Before(todo'[j], todo'[k])
        BY <3>1, <3>3 DEF Before, Events
      <4>3. \A k \in DOMAIN todo' : todo'[k].f \notin {"close", "open"}
        BY <3>1, <3>3
      <4>. QED BY <4>1, <4>2, <4>3 DEF InTurn
    <3>7. Ordered' /\ Told'
      <4>1. \A k \in DOMAIN todo' : todo'[k].f \notin Events
        BY <3>1, <3>3 DEF Events
      <4>. QED BY <2>4, <4>1 DEF Ordered, Told, FirstEvent
    <3>8. Coming = {} /\ Names(todo, {"destroy"}) = {}
      <4>1. \A F : Names(todo, F) = {j \in Instruments : c.f \in F /\ i = j}
        BY <1>2, <1>8, <2>7, LastNames
      <4>. QED BY <1>2, <4>1 DEF Coming
    <3>9. Books'
      <4>1. \A p \in Pairs : mirror'[p] = Target(p[1], p[2])
        BY <1>1, <1>2, <2>7, <3>8 DEF Books
      <4>2. \A p \in Pairs : mirror'[p] = IF p[2] \in {i} THEN 0 ELSE Target(p[1], p[2])'
        BY <2>5, <2>6, <4>1
      <4>3. \A j \in DOMAIN nodes : j # i /\ (nodes[j].live \/ nodes[j].failed)
        BY <1>2, <1>3, <2>7, <3>8 DEF Books
      <4>. QED BY <1>1, <1>2, <2>3, <2>7, <3>5, <4>2, <4>3 DEF Books
    <3>10. Sent'
      <4>1. ASSUME ~ FlattensInDestroy, NEW p \in Pairs \ untracked
            PROVE  real'[p] = IF p[2] \in {i} THEN 0 ELSE Target(p[1], p[2])'
        <5>1. real[p] = Target(p[1], p[2])
          BY <1>2, <1>6, <2>7, <3>8, <4>1 DEF Sent
        <5>. QED BY <1>1, <2>5, <2>6, <5>1
      <4>. QED BY <1>1, <1>2, <2>7, <3>5, <4>1 DEF Sent
    <3>11. Files' /\ Owed'
      BY <1>1, <1>2, <1>3, <1>6, <2>2, <2>3, <2>7, <3>5, <3>8 DEF Files, Owed
    <3>12. Types'
      BY <1>1, <1>2, <1>3, <2>2, <2>3, <3>3 DEF Types
    <3>. QED BY <3>6, <3>7, <3>9, <3>10, <3>11, <3>12 DEF IInv
  <2>8. CASE ~ c.add
    <3>1. Handles(<<>>, 1)
      <4>1. todo' = <<>> \o Tail(todo)
        BY <1>9, <2>8
      <4>2. <<>> \in Seq(Calls)
        OBVIOUS
      <4>. QED BY <1>2, <4>1, <4>2, HandlesHead
    <3>2. \A F \in SUBSET {"commit", "rollback", "remove", "destroy", "params"} : Names(todo', F) = Names(todo, F)
      BY <1>2, <3>1, NamesKept
    <3>3. /\ Coming' = Coming /\ Going' = {} /\ Names(todo', {"destroy"}) = Names(todo, {"destroy"})
          /\ Names(todo', {"remove"}) = {}
      BY <1>6, <3>2 DEF Coming, Going
    <3>4. InTurn'
      <4>1. ASSUME NEW k \in 2 .. Len(todo)
            PROVE  Legal(todo[k], nodes', subscribed', disk'.instruments)
        <5>1. Legal(todo[k], nodes, subscribed, disk.instruments) /\ Before(c, todo[k])
              /\ todo[k].f # "params"
          BY <1>2, <1>4, <1>5 DEF InTurn
        <5>2. todo[k].f = "create" => todo[k].i # i
          BY <1>2, <5>1 DEF Before
        <5>. QED BY <1>1, <2>2, <2>3, <5>1, <5>2 DEF Legal
      <4>. QED BY <1>1, <1>2, <3>1, <4>1, TurnDone
    <3>5. Ordered' /\ Told'
      <4>1. \A k \in DOMAIN todo' : todo'[k].f \notin Events
        <5>1. \A k \in DOMAIN <<>> : FALSE
          OBVIOUS
        <5>. QED BY <1>2, <1>5, <3>1, <5>1, Origin
      <4>. QED BY <2>4, <4>1 DEF Ordered, Told, FirstEvent
    <3>6. Books' /\ Sent'
      BY <1>1, <1>2, <2>3, <2>8 DEF Books, Sent
    <3>7. Files' /\ Owed'
      BY <1>1, <1>2, <1>3, <1>6, <2>2, <2>3, <2>8, <3>3 DEF Files, Owed
    <3>8. Types'
      BY <1>1, <1>2, <1>3, <2>2, <2>3, <3>1 DEF Types, Handles
    <3>. QED BY <3>4, <3>5, <3>6, <3>7, <3>8 DEF IInv
  <2>. QED BY <2>7, <2>8
<1>10. CASE /\ subscribed' = IF c.add THEN subscribed \ {c.i} ELSE subscribed
            /\ Done /\ UNCHANGED <<nodes, owed>>
  <2>1. Handles(<<>>, 1)
    BY <1>2, <1>10
  <2>2. \A F \in SUBSET {"commit", "rollback", "remove", "destroy", "params"} : Names(todo', F) = Names(todo, F)
    BY <1>2, <2>1, NamesKept
  <2>3. /\ Coming' = Coming /\ Going' = Going /\ Names(todo', {"destroy"}) = Names(todo, {"destroy"})
        /\ Names(todo', {"remove"}) = Names(todo, {"remove"})
    BY <2>2 DEF Coming, Going
  <2>4. InTurn'
    <3>1. ASSUME NEW k \in 2 .. Len(todo)
          PROVE  Legal(todo[k], nodes', subscribed', disk'.instruments)
      <4>1. ~ c.add
        BY <1>8, <3>1
      <4>. QED BY <1>1, <1>2, <1>4, <1>10, <4>1 DEF InTurn
    <3>. QED BY <1>1, <1>2, <2>1, <3>1, TurnDone
  <2>5. Ordered' /\ Told'
    <3>1. \A k \in DOMAIN todo' : todo'[k].f \notin Events
      <4>1. \A k \in DOMAIN <<>> : FALSE
        OBVIOUS
      <4>. QED BY <1>2, <1>5, <2>1, <4>1, Origin
    <3>. QED BY <1>7, <1>10, <3>1 DEF Ordered, Told, FirstEvent
  <2>6. \A a, j : Target(a, j)' = Target(a, j)
    BY <1>1, <1>10 DEF Target
  <2>7. Books' /\ Sent'
    BY <1>1, <1>2, <1>10, <2>3, <2>6 DEF Books, Sent
  <2>8. Files' /\ Owed'
    BY <1>1, <1>2, <1>10, <2>3 DEF Files, Owed
  <2>9. Types'
    BY <1>1, <1>2, <1>10, <2>1 DEF Types, Handles
  <2>. QED BY <2>4, <2>5, <2>7, <2>8, <2>9 DEF IInv
<1>. QED BY <1>2, <1>9, <1>10 DEF create_instance

-----------------------------------------------------------------------------
(* The operator's commands. *)
LEMMA AtReady ==
    ASSUME IInv, Ready
    PROVE  /\ Types /\ todo = <<>> /\ phase = "running" /\ Coming = {} /\ Going = {}
           /\ \A F : Names(todo, F) = {}
           /\ \A p \in Pairs : mirror[p] = Target(p[1], p[2])
           /\ ~ FlattensInDestroy => \A p \in Pairs \ untracked : real[p] = Target(p[1], p[2])
           /\ \A i \in DOMAIN nodes : nodes[i].live \/ nodes[i].failed
           /\ disk.accounts = accounts
           /\ DOMAIN nodes \subseteq disk.instruments /\ DOMAIN nodes \subseteq subscribed
           /\ owed = DOMAIN nodes
           /\ \A i \in DOMAIN nodes : /\ nodes[i].failed \/ Quiet(nodes[i])
                                      /\ nodes[i].pending => ~ nodes[i].fresh
                                      /\ Informed(nodes[i])
<1>1. todo = <<>> /\ phase = "running" /\ Types /\ Ordered /\ Told
  BY DEF Ready, Idle, IInv
<1>2. \A F : Names(todo, F) = {}
  BY <1>1, NoNames
<1>3. Coming = {} /\ Going = {}
  BY <1>2 DEF Coming, Going
<1>4. \A i \in DOMAIN nodes : /\ nodes[i].failed \/ Quiet(nodes[i])
                              /\ nodes[i].pending => ~ nodes[i].fresh
                              /\ Informed(nodes[i])
  BY <1>1, AtRest
<1>5. \A p \in Pairs : mirror[p] = Target(p[1], p[2])
  BY <1>1, <1>3 DEF IInv, Books
<1>6. ~ FlattensInDestroy => \A p \in Pairs \ untracked : real[p] = Target(p[1], p[2])
  BY <1>1, <1>3 DEF IInv, Sent
<1>7. \A i \in DOMAIN nodes : nodes[i].live \/ nodes[i].failed
  BY <1>1, <1>3 DEF IInv, Books
<1>8. /\ disk.accounts = accounts /\ owed = DOMAIN nodes
      /\ DOMAIN nodes \subseteq disk.instruments /\ DOMAIN nodes \subseteq subscribed
  BY <1>1, <1>2, <1>3 DEF IInv, Files, Owed
<1>. QED BY <1>1, <1>2, <1>3, <1>4, <1>5, <1>6, <1>7, <1>8

LEMMA Synced ==
    ASSUME Types, NEW D \in [Pairs -> Int], NEW sync, NEW market, Sync(D, sync, market)
    PROVE  /\ untracked' \subseteq Pairs /\ untracked \subseteq untracked'
           /\ real' \in [Pairs -> Int]
           /\ \A p \in Pairs : p \in untracked' \/ real'[p] = real[p] + D[p]
<1>1. PICK R : Place(D, R)
  BY DEF Sync
<1>. QED BY <1>1, Placed

(* A new table of accounts, with everything that follows from it. *)
LEMMA NewTable ==
    ASSUME IInv, Ready, UNCHANGED <<phase, todo, nodes, subscribed, owed>>,
           accounts' \in AccountTable, Commit(disk.instruments, accounts'),
           mirror' \in [Pairs -> Int], \A p \in Pairs : mirror'[p] = Target(p[1], p[2])',
           NEW D \in [Pairs -> Int], NEW sync, NEW market, Sync(D, sync, market),
           \A p \in Pairs : D[p] = Target(p[1], p[2])' - Target(p[1], p[2])
    PROVE  IInv'
<1>1. /\ Types /\ todo = <<>> /\ phase = "running" /\ Coming = {} /\ Going = {}
      /\ \A F : Names(todo, F) = {}
      /\ ~ FlattensInDestroy => \A p \in Pairs \ untracked : real[p] = Target(p[1], p[2])
      /\ \A i \in DOMAIN nodes : nodes[i].live \/ nodes[i].failed
      /\ DOMAIN nodes \subseteq disk.instruments /\ DOMAIN nodes \subseteq subscribed
      /\ owed = DOMAIN nodes
      /\ \A i \in DOMAIN nodes : /\ nodes[i].failed \/ Quiet(nodes[i])
                                 /\ nodes[i].pending => ~ nodes[i].fresh
                                 /\ Informed(nodes[i])
  BY AtReady
<1>2. /\ untracked' \subseteq Pairs /\ untracked \subseteq untracked' /\ real' \in [Pairs -> Int]
      /\ \A p \in Pairs : p \in untracked' \/ real'[p] = real[p] + D[p]
  BY <1>1, Synced
<1>3. /\ todo' = <<>> /\ Coming' = {} /\ Going' = {} /\ \A F : Names(todo', F) = {}
      /\ disk' = [instruments |-> disk.instruments, accounts |-> accounts']
  BY <1>1 DEF Coming, Going, Commit
<1>4. InTurn' /\ Ordered' /\ Told' /\ todo' \in Seq(Calls)
  BY <1>1, <1>3, HandlerEnds
<1>5. Types'
  BY <1>1, <1>2, <1>3, <1>4 DEF Types
<1>6. Books'
  BY <1>1, <1>3 DEF Books
<1>7. Sent'
  <2>1. ASSUME ~ FlattensInDestroy, NEW p \in Pairs \ untracked'
        PROVE  real'[p] = Target(p[1], p[2])'
    <3>1. real[p] = Target(p[1], p[2]) /\ real'[p] = real[p] + D[p]
      BY <1>1, <1>2, <2>1
    <3>2. Target(p[1], p[2]) \in Int /\ Target(p[1], p[2])' \in Int
      BY <1>1, <2>1, TargetType
    <3>. QED BY <3>1, <3>2
  <2>. QED BY <1>1, <1>3, <2>1 DEF Sent
<1>8. Files' /\ Owed'
  BY <1>1, <1>3 DEF Files, Owed
<1>. QED BY <1>4, <1>5, <1>6, <1>7, <1>8 DEF IInv

LEMMA ByRescale ==
    ASSUME NEW a \in Accounts, NEW scale \in Scales, NEW sync, NEW market,
           IInv, Ready, Rescale(a, scale, sync, market)
    PROVE  IInv'
<1>. DEFINE table == [b \in DOMAIN accounts \cup {a} |-> IF b = a THEN scale ELSE accounts[b]]
            L(i)  == IF i \in DOMAIN nodes THEN logical_position(nodes[i].net, scale) ELSE 0
            D     == [p \in Pairs |-> IF p[1] = a THEN L(p[2]) - Target(a, p[2]) ELSE 0]
<1>1. /\ Types /\ \A p \in Pairs : mirror[p] = Target(p[1], p[2])
  BY AtReady
<1>2. /\ Commit(disk.instruments, table) /\ accounts' = table
      /\ mirror' = [p \in Pairs |-> IF p[1] = a /\ p[2] \in DOMAIN nodes THEN L(p[2]) ELSE mirror[p]]
      /\ Sync(D, sync, market)
      /\ UNCHANGED <<phase, todo, nodes, subscribed, owed>>
  BY DEF Rescale
<1>3. table \in AccountTable
  <2>1. accounts \in [DOMAIN accounts -> Scales] /\ DOMAIN accounts \subseteq Accounts
    BY <1>1, AccountsType DEF Types
  <2>2. table \in [DOMAIN accounts \cup {a} -> Scales] /\ DOMAIN accounts \cup {a} \in SUBSET Accounts
    BY <2>1
  <2>. QED BY <2>2 DEF AccountTable
<1>4. /\ \A i : Target(a, i)' = L(i)
      /\ \A b, i : b # a => Target(b, i)' = Target(b, i)
  <2>1. /\ a \in DOMAIN accounts' /\ accounts'[a] = scale
        /\ \A b : b # a => (b \in DOMAIN accounts' <=> b \in DOMAIN accounts)
        /\ \A b \in DOMAIN accounts : b # a => accounts'[b] = accounts[b]
    BY <1>2
  <2>. QED BY <1>2, <2>1 DEF Target
<1>5. /\ \A i : L(i) \in Int
      /\ \A i : i \notin DOMAIN nodes => L(i) = 0 /\ Target(a, i) = 0
  <2>1. scale \in Nat
    BY ManagerAssumption
  <2>2. \A i \in DOMAIN nodes : nodes[i].net \in Int
    BY <1>1, ManagerAssumption DEF Types, Node
  <2>. QED BY <2>1, <2>2, LogicalType DEF Target
<1>6. \A b, i : Target(b, i) \in Int
  BY <1>1, TargetType
<1>. HIDE DEF table, L
<1>7. D \in [Pairs -> Int] /\ \A p \in Pairs : D[p] = Target(p[1], p[2])' - Target(p[1], p[2])
  BY <1>4, <1>5, <1>6
<1>8. \A p \in Pairs : mirror'[p] = Target(p[1], p[2])'
  BY <1>1, <1>2, <1>4, <1>5
<1>9. mirror' \in [Pairs -> Int]
  BY <1>1, <1>2, <1>5 DEF Types
<1>10. accounts' \in AccountTable /\ Commit(disk.instruments, accounts')
  BY <1>2, <1>3
<1>. HIDE DEF D
<1>. QED BY <1>2, <1>7, <1>8, <1>9, <1>10, NewTable

LEMMA ByAccountDel ==
    ASSUME NEW a \in Accounts, NEW sync, NEW market
    PROVE  IInv /\ run_account_del(a, sync, market) => IInv'
<1>. SUFFICES ASSUME IInv, run_account_del(a, sync, market) PROVE IInv'
  OBVIOUS
<1>. DEFINE D == [p \in Pairs |-> IF p[1] = a THEN -Target(a, p[2]) ELSE 0]
<1>1. /\ Ready /\ a \in DOMAIN accounts
      /\ Commit(disk.instruments, accounts') /\ Sync(D, sync, market)
      /\ accounts' = Restrict(accounts, DOMAIN accounts \ {a})
      /\ mirror' = [p \in Pairs |-> IF p[1] = a THEN 0 ELSE mirror[p]]
      /\ UNCHANGED <<phase, todo, nodes, subscribed, owed>>
  BY DEF run_account_del
<1>2. /\ Types /\ \A p \in Pairs : mirror[p] = Target(p[1], p[2])
  BY <1>1, AtReady
<1>3. accounts' \in AccountTable
  <2>1. accounts \in [DOMAIN accounts -> Scales] /\ DOMAIN accounts \subseteq Accounts
    BY <1>2, AccountsType DEF Types
  <2>2. accounts' \in [DOMAIN accounts \ {a} -> Scales] /\ DOMAIN accounts \ {a} \in SUBSET Accounts
    BY <1>1, <2>1 DEF Restrict
  <2>. QED BY <2>2 DEF AccountTable
<1>4. /\ \A i : Target(a, i)' = 0
      /\ \A b, i : b # a => Target(b, i)' = Target(b, i)
  BY <1>1 DEF Target, Restrict
<1>5. \A b, i : Target(b, i) \in Int
  BY <1>2, TargetType
<1>6. D \in [Pairs -> Int] /\ \A p \in Pairs : D[p] = Target(p[1], p[2])' - Target(p[1], p[2])
  BY <1>4, <1>5
<1>7. \A p \in Pairs : mirror'[p] = Target(p[1], p[2])'
  BY <1>1, <1>2, <1>4
<1>8. mirror' \in [Pairs -> Int]
  BY <1>1, <1>2 DEF Types
<1>. HIDE DEF D
<1>. QED BY <1>1, <1>3, <1>6, <1>7, <1>8, NewTable

LEMMA ByInstrumentAdd ==
    ASSUME NEW i \in Instruments
    PROVE  IInv /\ run_instrument_add(i) => IInv'
<1>. SUFFICES ASSUME IInv, run_instrument_add(i) PROVE IInv'
  OBVIOUS
<1>. DEFINE c == [f |-> "create", i |-> i, add |-> TRUE, left |-> 0]
<1>1. /\ Ready /\ i \notin DOMAIN nodes /\ subscribed' = subscribed \cup {i}
      /\ todo' = <<c>>
      /\ UNCHANGED <<phase, disk, accounts, nodes, mirror, real, untracked, owed>>
  BY DEF run_instrument_add, config, orders
<1>2. /\ Types /\ todo = <<>> /\ phase = "running" /\ Coming = {} /\ Going = {}
      /\ \A F : Names(todo, F) = {}
      /\ \A j \in DOMAIN nodes : /\ nodes[j].failed \/ Quiet(nodes[j])
                                 /\ nodes[j].pending => ~ nodes[j].fresh
                                 /\ Informed(nodes[j])
  BY <1>1, AtReady
<1>3. c \in Calls /\ c.f = "create" /\ c.i = i /\ c.add
  <2>1. 0 \in 0 .. warmup_bars
    BY ManagerAssumption
  <2>. QED BY <2>1 DEF Calls
<1>. HIDE DEF c
<1>4. todo' \in Seq(Calls) /\ DOMAIN todo' = {1} /\ todo'[1] = c
  BY <1>1, <1>3
<1>5. \A F : "create" \notin F => Names(todo', F) = {}
  BY <1>3, <1>4 DEF Names
<1>6. /\ Coming' = {} /\ Going' = {} /\ Names(todo', {"destroy"}) = {} /\ Names(todo', {"remove"}) = {}
  BY <1>5 DEF Coming, Going
<1>7. InTurn'
  <2>1. Allowed(c, todo', phase') /\ Legal(c, nodes', subscribed', disk'.instruments)
    BY <1>1, <1>2, <1>3 DEF Allowed, Legal, Events
  <2>2. \A j, k \in DOMAIN todo' : ~ (j < k)
    BY <1>4
  <2>. QED BY <1>3, <1>4, <2>1, <2>2 DEF InTurn
<1>8. Ordered' /\ Told'
  BY <1>1, <1>2, <1>3, <1>4 DEF Ordered, Told, FirstEvent, Events
<1>9. \A a, j : Target(a, j)' = Target(a, j)
  BY <1>1 DEF Target
<1>10. Books' /\ Sent'
  BY <1>1, <1>2, <1>6, <1>9 DEF Books, Sent, IInv
<1>11. Files' /\ Owed'
  BY <1>1, <1>2, <1>6 DEF Files, Owed, IInv
<1>12. Types'
  BY <1>1, <1>2, <1>4 DEF Types
<1>. QED BY <1>7, <1>8, <1>10, <1>11, <1>12 DEF IInv

LEMMA ByInstrumentDel ==
    ASSUME NEW i \in Instruments, NEW sync, NEW market
    PROVE  IInv /\ run_instrument_del(i, sync, market) => IInv'
<1>. SUFFICES ASSUME IInv, run_instrument_del(i, sync, market) PROVE IInv'
  OBVIOUS
<1>. DEFINE c == [f |-> "destroy", i |-> i]
            d == [f |-> "remove", i |-> i]
            D == [p \in Pairs |-> IF p[2] = i THEN -Target(p[1], i) ELSE 0]
<1>1. /\ Ready /\ i \in DOMAIN nodes
      /\ disk' = [instruments |-> disk.instruments \ {i}, accounts |-> disk.accounts]
      /\ Sync(D, sync, market) /\ subscribed' \in {subscribed, subscribed \ {i}}
      /\ todo' = <<c, d>>
      /\ UNCHANGED <<phase, accounts, nodes, mirror, owed>>
  BY DEF run_instrument_del, Commit
<1>2. /\ Types /\ todo = <<>> /\ phase = "running" /\ Coming = {} /\ Going = {}
      /\ \A F : Names(todo, F) = {}
      /\ ~ FlattensInDestroy => \A p \in Pairs \ untracked : real[p] = Target(p[1], p[2])
      /\ DOMAIN nodes \subseteq disk.instruments /\ DOMAIN nodes \subseteq subscribed
      /\ owed = DOMAIN nodes
      /\ \A j \in DOMAIN nodes : /\ nodes[j].failed \/ Quiet(nodes[j])
                                 /\ nodes[j].pending => ~ nodes[j].fresh
                                 /\ Informed(nodes[j])
  BY <1>1, AtReady
<1>3. \A p \in Pairs : Target(p[1], i) \in Int
  BY <1>2, TargetType
<1>4. D \in [Pairs -> Int] /\ \A p \in Pairs : D[p] = IF p[2] = i THEN -Target(p[1], i) ELSE 0
  BY <1>3
<1>5. c \in Calls /\ d \in Calls /\ c.f = "destroy" /\ d.f = "remove" /\ c.i = i /\ d.i = i
  BY DEF Calls
<1>. HIDE DEF c, d, D
<1>6. /\ untracked' \subseteq Pairs /\ untracked \subseteq untracked' /\ real' \in [Pairs -> Int]
      /\ \A p \in Pairs : p \in untracked' \/ real'[p] = real[p] + D[p]
  BY <1>1, <1>2, <1>4, Synced
<1>7. todo' \in Seq(Calls) /\ DOMAIN todo' = 1 .. 2 /\ todo'[1] = c /\ todo'[2] = d
  BY <1>1, <1>5
<1>8. \A F : Names(todo', F) = IF "destroy" \in F \/ "remove" \in F THEN {i} ELSE {}
  BY <1>5, <1>7 DEF Names
<1>9. /\ Coming' = {} /\ Going' = {i} /\ Names(todo', {"destroy"}) = {i}
      /\ Names(todo', {"remove"}) = {i} /\ Names(todo', {"remove", "rollback"}) = {i}
  BY <1>8 DEF Coming, Going
<1>10. InTurn'
  <2>1. \A k \in DOMAIN todo' : /\ Allowed(todo'[k], todo', phase')
                                /\ Legal(todo'[k], nodes', subscribed', disk'.instruments)
    BY <1>1, <1>2, <1>5, <1>7, <1>9 DEF Allowed, Legal, Events
  <2>2. \A j, k \in DOMAIN todo' : j < k => Before(todo'[j], todo'[k])
    BY <1>5, <1>7 DEF Before, Events
  <2>3. \A k \in DOMAIN todo' : todo'[k].f \notin {"close", "open"}
    BY <1>5, <1>7
  <2>. QED BY <2>1, <2>2, <2>3 DEF InTurn
<1>11. Ordered' /\ Told'
  <2>1. \A k \in DOMAIN todo' : todo'[k].f \notin Events
    BY <1>5, <1>7 DEF Events
  <2>. QED BY <1>1, <1>2, <2>1 DEF Ordered, Told, FirstEvent
<1>12. \A a, j : Target(a, j)' = Target(a, j)
  BY <1>1 DEF Target
<1>13. Books'
  BY <1>1, <1>2, <1>9, <1>12 DEF Books, IInv
<1>14. Sent'
  <2>1. ASSUME ~ FlattensInDestroy, NEW p \in Pairs \ untracked'
        PROVE  real'[p] = IF p[2] \in {i} THEN 0 ELSE Target(p[1], p[2])'
    <3>1. real[p] = Target(p[1], p[2]) /\ real'[p] = real[p] + D[p]
          /\ D[p] = IF p[2] = i THEN -Target(p[1], i) ELSE 0
      BY <1>2, <1>4, <1>6, <2>1
    <3>2. Target(p[1], p[2]) \in Int
      BY <1>2, TargetType
    <3>. QED BY <1>12, <3>1, <3>2
  <2>. QED BY <1>1, <1>2, <1>9, <2>1 DEF Sent
<1>15. Files'
  BY <1>1, <1>2, <1>9 DEF Files, IInv
<1>16. Owed'
  <2>1. phase' = "running" /\ nodes' = nodes /\ owed' = DOMAIN nodes
    BY <1>1, <1>2
  <2>2. DOMAIN nodes = (DOMAIN nodes \ {i}) \cup {i}
    BY <1>1
  <2>. QED BY <1>9, <2>1, <2>2 DEF Owed
<1>17. Types'
  BY <1>1, <1>2, <1>6, <1>7 DEF Types
<1>. QED BY <1>10, <1>11, <1>13, <1>14, <1>15, <1>16, <1>17 DEF IInv

LEMMA ByQuit == IInv /\ run_quit => IInv'
<1>. SUFFICES ASSUME IInv, run_quit PROVE IInv'
  OBVIOUS
<1>1. /\ Ready /\ phase' = "exiting"
      /\ UNCHANGED <<todo, disk, accounts, nodes, subscribed, mirror, real, untracked, owed>>
  BY DEF run_quit, config, orders
<1>2. /\ Types /\ todo = <<>> /\ phase = "running"
      /\ \A i \in DOMAIN nodes : /\ nodes[i].failed \/ Quiet(nodes[i])
                                 /\ nodes[i].pending => ~ nodes[i].fresh
                                 /\ Informed(nodes[i])
  BY <1>1, AtReady
<1>3. InTurn' /\ Ordered' /\ Told'
  BY <1>1, <1>2, HandlerEnds
<1>4. Coming' = Coming /\ Going' = Going
  BY <1>1 DEF Coming, Going
<1>. QED BY <1>1, <1>2, <1>3, <1>4 DEF IInv, Types, Books, Sent, Files, Owed

-----------------------------------------------------------------------------
(* The handlers that go through all instances. *)

(* A set of instruments, listed: each of them once. *)
LEMMA Listed ==
    ASSUME NEW S \in SUBSET Instruments
    PROVE  /\ SetToSeq(S) \in Seq(S)
           /\ \A j, k \in DOMAIN SetToSeq(S) : j # k => SetToSeq(S)[j] # SetToSeq(S)[k]
           /\ \A x \in S : \E k \in DOMAIN SetToSeq(S) : SetToSeq(S)[k] = x
<1>1. IsFiniteSet(S) /\ Cardinality(S) \in Nat /\ ExistsBijection(1 .. Cardinality(S), S)
  BY ManagerAssumption, FS_Subset, FS_CardinalityType
<1>2. PICK g \in [1 .. Cardinality(S) -> S] : IsInjective(g)
  BY <1>1 DEF ExistsBijection, Bijection, Injection
<1>. DEFINE f == SetToSeq(S)
<1>3. f \in [1 .. Cardinality(S) -> S] /\ IsInjective(f)
  BY <1>2 DEF SetToSeq
<1>. HIDE DEF f
<1>4. f \in Seq(S) /\ DOMAIN f = 1 .. Cardinality(S)
  BY <1>1, <1>3
<1>5. f \in Injection(1 .. Cardinality(S), S)
  BY <1>3 DEF Injection
<1>6. IsFiniteSet(1 .. Cardinality(S)) /\ Cardinality(1 .. Cardinality(S)) = Cardinality(S)
  <2>1. Cardinality(S) = IF 1 <= Cardinality(S) THEN Cardinality(S) - 1 + 1 ELSE 0
    BY <1>1
  <2>. QED BY <1>1, <2>1, FS_Interval
<1>7. f \in Surjection(1 .. Cardinality(S), S)
  BY <1>1, <1>5, <1>6, FS_Injection
<1>8. \A j, k \in DOMAIN f : j # k => f[j] # f[k]
  BY <1>3 DEF IsInjective
<1>. QED BY <1>4, <1>7, <1>8 DEF Surjection, f

(* One call for each instrument of a list. *)
LEMMA OneEach ==
    ASSUME NEW ids \in Seq(Instruments), NEW X \in [DOMAIN ids -> Calls]
    PROVE  X \in Seq(Calls) /\ Len(X) = Len(ids) /\ DOMAIN X = 1 .. Len(ids) /\ Len(ids) \in Nat
<1>1. DOMAIN ids = 1 .. Len(ids) /\ Len(ids) \in Nat
  OBVIOUS
<1>2. X \in [1 .. Len(ids) -> Calls]
  BY <1>1
<1>. QED BY <1>1, <1>2

LEMMA AtOff ==
    ASSUME IInv, phase = "off"
    PROVE  Types /\ todo = <<>> /\ DOMAIN nodes = {} /\ owed = {} /\ Books /\ Sent
<1>1. todo = <<>>
  <2>1. \A k \in DOMAIN todo : FALSE
    BY DEF IInv, InTurn, Allowed
  <2>2. todo \in Seq(Calls)
    BY DEF IInv, Types
  <2>. QED BY <2>1, <2>2, HeadBefore DEF IInv
<1>2. DOMAIN nodes = {} /\ owed = Names(todo, {"destroy"})
  BY DEF IInv, Files, Owed
<1>. QED BY <1>1, <1>2, NoNames DEF IInv

LEMMA ByStartFailure == IInv /\ on_start_fails => IInv'
<1>. SUFFICES ASSUME IInv, on_start_fails PROVE IInv'
  OBVIOUS
<1>1. /\ phase = "off" /\ phase' = "exiting"
      /\ UNCHANGED <<todo, disk, accounts, nodes, subscribed, mirror, real, untracked, owed>>
  BY DEF on_start_fails, config, orders
<1>2. todo = <<>> /\ DOMAIN nodes = {}
  BY <1>1, AtOff
<1>3. InTurn' /\ Ordered' /\ Told'
  BY <1>1, <1>2, HandlerEnds
<1>4. Coming' = Coming /\ Going' = Going
  BY <1>1 DEF Coming, Going
<1>. QED BY <1>1, <1>3, <1>4 DEF IInv, Types, Books, Sent, Files, Owed

LEMMA ByParamSet == IInv /\ run_param_set => IInv'
<1>. SUFFICES ASSUME IInv, run_param_set PROVE IInv'
  OBVIOUS
<1>. DEFINE S   == {i \in {j \in DOMAIN nodes : ~ nodes[j].failed} : nodes[i].stage}
            now == SetToSeq(S)
            c(i) == [f |-> "params", i |-> i]
<1>1. /\ Ready /\ todo' = [k \in DOMAIN now |-> c(now[k])]
      /\ nodes' = [i \in DOMAIN nodes |->
                     IF i \in {j \in DOMAIN nodes : ~ nodes[j].failed}
                     THEN [nodes[i] EXCEPT !.fresh = FALSE, !.pending = ~nodes[i].stage]
                     ELSE nodes[i]]
      /\ UNCHANGED <<phase, disk, accounts, subscribed, mirror, real, untracked, owed>>
  BY DEF run_param_set, config, orders
<1>2. /\ Types /\ todo = <<>> /\ phase = "running" /\ Coming = {} /\ Going = {}
      /\ \A F : Names(todo, F) = {}
      /\ \A i \in DOMAIN nodes : /\ nodes[i].failed \/ Quiet(nodes[i])
                                 /\ nodes[i].pending => ~ nodes[i].fresh
                                 /\ Informed(nodes[i])
  BY <1>1, AtReady
<1>3. \A i \in DOMAIN nodes : nodes[i] \in Node /\ i \in Instruments
  BY <1>2 DEF Types
<1>4. /\ DOMAIN nodes' = DOMAIN nodes /\ nodes' \in [DOMAIN nodes' -> Node]
      /\ \A i \in DOMAIN nodes :
           /\ nodes'[i].net = nodes[i].net /\ nodes'[i].live = nodes[i].live
           /\ nodes'[i].failed = nodes[i].failed /\ nodes'[i].stage = nodes[i].stage
           /\ nodes'[i].bars = nodes[i].bars /\ nodes'[i].last = nodes[i].last
  <2>1. DOMAIN nodes' = DOMAIN nodes /\ nodes' = [i \in DOMAIN nodes |-> nodes'[i]]
    BY <1>1
  <2>2. ASSUME NEW i \in DOMAIN nodes
        PROVE  /\ nodes'[i] \in Node
               /\ nodes'[i].net = nodes[i].net /\ nodes'[i].live = nodes[i].live
               /\ nodes'[i].failed = nodes[i].failed /\ nodes'[i].stage = nodes[i].stage
               /\ nodes'[i].bars = nodes[i].bars /\ nodes'[i].last = nodes[i].last
    <3>1. CASE nodes[i].failed
      <4>1. nodes'[i] = nodes[i]
        BY <1>1, <3>1
      <4>. QED BY <1>3, <4>1
    <3>2. CASE ~ nodes[i].failed
      <4>1. nodes'[i] = [nodes[i] EXCEPT !.fresh = FALSE, !.pending = ~nodes[i].stage]
        BY <1>1, <3>2
      <4>2. nodes[i] \in Node
        BY <1>3
      <4>. QED BY <4>1, <4>2 DEF Node
    <3>. QED BY <3>1, <3>2
  <2>. QED BY <2>1, <2>2
<1>5. \A i \in DOMAIN nodes : ~ nodes[i].failed =>
         /\ ~ nodes'[i].fresh /\ nodes[i].stage \in BOOLEAN
         /\ nodes'[i].pending = (~ nodes[i].stage)
  BY <1>1, <1>3 DEF Node
<1>6. \A i \in DOMAIN nodes : nodes[i].failed => nodes'[i] = nodes[i]
  BY <1>1
<1>7. S \in SUBSET Instruments /\ now \in Seq(S)
  BY <1>3, Listed
<1>8. /\ \A j, k \in DOMAIN now : j # k => now[j] # now[k]
      /\ \A x \in S : \E k \in DOMAIN now : now[k] = x
  BY <1>7, Listed
<1>. HIDE DEF now
<1>9. \A k \in DOMAIN now : now[k] \in S /\ now[k] \in Instruments
  BY <1>7
<1>10. todo' \in Seq(Calls) /\ DOMAIN todo' = DOMAIN now
  <2>1. \A i \in Instruments : c(i) \in Calls
    BY DEF Calls
  <2>2. todo' \in [DOMAIN now -> Calls]
    BY <1>1, <1>9, <2>1
  <2>3. now \in Seq(Instruments)
    BY <1>7
  <2>4. DOMAIN todo' = DOMAIN now
    BY <1>1
  <2>. QED BY <2>2, <2>3, <2>4, OneEach
<1>11. \A k \in DOMAIN todo' : todo'[k].f = "params" /\ todo'[k].i = now[k]
  BY <1>1, <1>10
<1>. HIDE DEF S
<1>12. \A F : "params" \notin F => Names(todo', F) = {}
  BY <1>11 DEF Names
<1>13. /\ Coming' = {} /\ Going' = {} /\ Names(todo', {"destroy"}) = {} /\ Names(todo', {"remove"}) = {}
  BY <1>12 DEF Coming, Going
<1>14. InTurn'
  <2>1. ASSUME NEW k \in DOMAIN todo'
        PROVE  /\ Allowed(todo'[k], todo', phase')
               /\ Legal(todo'[k], nodes', subscribed', disk'.instruments)
    <3>1. now[k] \in DOMAIN nodes /\ ~ nodes[now[k]].failed /\ nodes[now[k]].stage
      BY <1>9, <1>10 DEF S
    <3>2. ~ nodes'[now[k]].failed /\ ~ nodes'[now[k]].fresh /\ ~ nodes'[now[k]].pending
      BY <1>4, <1>5, <3>1
    <3>. QED BY <1>1, <1>2, <1>4, <1>11, <3>1, <3>2 DEF Allowed, Legal, Busy, Events
  <2>2. ASSUME NEW j \in DOMAIN todo', NEW k \in DOMAIN todo', j < k
        PROVE  Before(todo'[j], todo'[k])
    <3>1. todo'[j].i # todo'[k].i
      BY <1>8, <1>10, <1>11, <2>2
    <3>. QED BY <1>11, <3>1 DEF Before, Events
  <2>. QED BY <1>11, <2>1, <2>2 DEF InTurn
<1>15. Ordered'
  <2>1. \A k \in DOMAIN todo' : todo'[k].f \notin Events
    BY <1>11 DEF Events
  <2>. QED BY <1>2, <1>4, <2>1 DEF Ordered, FirstEvent, Quiet
<1>16. Told'
  <2>1. \A i \in S : i \in Names(todo', {"params"})
    BY <1>3, <1>8, <1>10, <1>11 DEF Names, S
  <2>2. ASSUME NEW i \in DOMAIN nodes
        PROVE  /\ nodes'[i].pending => ~ nodes'[i].fresh
               /\ Informed(nodes'[i]) \/ i \in Names(todo', {"params"})
    <3>1. CASE nodes[i].failed
      BY <1>2, <1>6, <3>1
    <3>2. CASE ~ nodes[i].failed /\ nodes[i].stage
      BY <1>4, <1>5, <2>1, <3>2 DEF S
    <3>3. CASE ~ nodes[i].failed /\ ~ nodes[i].stage
      BY <1>4, <1>5, <3>3 DEF Informed
    <3>. QED BY <3>1, <3>2, <3>3
  <2>. QED BY <1>4, <2>2 DEF Told
<1>17. Books' /\ Sent'
  BY <1>1, <1>2, <1>4, <1>13, BooksUntouched DEF orders
<1>18. Files' /\ Owed'
  BY <1>1, <1>2, <1>4, <1>13 DEF Files, Owed, IInv
<1>19. Types'
  BY <1>1, <1>2, <1>4, <1>10 DEF Types
<1>. QED BY <1>14, <1>15, <1>16, <1>17, <1>18, <1>19 DEF IInv

LEMMA ByStop == IInv /\ on_stop => IInv'
<1>. SUFFICES ASSUME IInv, on_stop PROVE IInv'
  OBVIOUS
<1>. DEFINE ids  == SetToSeq(DOMAIN nodes)
            c(i) == [f |-> "destroy", i |-> i]
            e    == [f |-> "clear"]
            X    == [k \in DOMAIN ids |-> c(ids[k])]
<1>1. /\ phase \in {"running", "exiting"} /\ todo = <<>> /\ phase' = "stopping"
      /\ todo' = X \o <<e>>
      /\ UNCHANGED <<disk, accounts, nodes, subscribed, mirror, real, untracked, owed>>
  BY DEF on_stop, config, orders, Idle
<1>2. Types /\ Ordered /\ Told /\ Books /\ Sent /\ Files /\ Owed /\ DOMAIN nodes \in SUBSET Instruments
  BY DEF IInv, Types
<1>3. \A F : Names(todo, F) = {}
  BY <1>1, NoNames
<1>4. /\ ids \in Seq(DOMAIN nodes)
      /\ \A j, k \in DOMAIN ids : j # k => ids[j] # ids[k]
      /\ \A x \in DOMAIN nodes : \E k \in DOMAIN ids : ids[k] = x
  BY <1>2, Listed
<1>. HIDE DEF ids
<1>5. /\ X \in Seq(Calls) /\ Len(X) = Len(ids) /\ DOMAIN X = 1 .. Len(ids)
      /\ Len(ids) \in Nat /\ DOMAIN ids = 1 .. Len(ids)
  <2>1. \A i \in Instruments : c(i) \in Calls
    BY DEF Calls
  <2>2. X \in [DOMAIN ids -> Calls] /\ ids \in Seq(Instruments)
    BY <1>2, <1>4, <2>1
  <2>3. X \in Seq(Calls) /\ Len(X) = Len(ids) /\ DOMAIN X = 1 .. Len(ids) /\ Len(ids) \in Nat
    BY <2>2, OneEach
  <2>. QED BY <1>4, <2>3
<1>6. \A k \in DOMAIN X : X[k].f = "destroy" /\ X[k].i = ids[k] /\ ids[k] \in DOMAIN nodes
  BY <1>4
<1>7. e \in Calls /\ e.f = "clear"
  BY DEF Calls
<1>. DEFINE n == Len(ids)
<1>8. /\ todo' \in Seq(Calls) /\ DOMAIN todo' = 1 .. (n + 1)
      /\ \A k \in 1 .. n : todo'[k] = X[k]
      /\ todo'[n + 1] = e
  <2>. HIDE DEF X, e
  <2>. QED BY <1>1, <1>5, <1>7
<1>. HIDE DEF X, e, c
<1>9. \A k \in DOMAIN todo' : \/ k \in 1 .. n /\ k \in DOMAIN X /\ todo'[k] = X[k]
                              \/ k = n + 1 /\ todo'[k].f = "clear"
  BY <1>5, <1>7, <1>8
<1>10. InTurn'
  <2>1. ASSUME NEW k \in DOMAIN todo'
        PROVE  /\ Allowed(todo'[k], todo', phase')
               /\ Legal(todo'[k], nodes', subscribed', disk'.instruments)
    BY <1>1, <1>6, <1>9 DEF Allowed, Legal, Events
  <2>2. ASSUME NEW j \in DOMAIN todo', NEW k \in DOMAIN todo', j < k
        PROVE  Before(todo'[j], todo'[k])
    <3>1. j \in 1 .. n
      BY <1>5, <1>8, <2>2
    <3>2. todo'[j].f = "destroy" /\ todo'[j].i = ids[j]
      BY <1>5, <1>6, <1>8, <3>1
    <3>3. CASE k \in 1 .. n
      <4>1. todo'[k].f = "destroy" /\ todo'[k].i = ids[k] /\ ids[j] # ids[k]
        BY <1>4, <1>5, <1>6, <1>8, <2>2, <3>1, <3>3
      <4>. QED BY <3>2, <4>1 DEF Before, Events
    <3>4. CASE todo'[k].f = "clear"
      BY <3>2, <3>4 DEF Before, Events
    <3>. QED BY <1>9, <3>3, <3>4
  <2>3. \A k \in DOMAIN todo' : todo'[k].f \notin {"close", "open"}
    BY <1>6, <1>9
  <2>. QED BY <2>1, <2>2, <2>3 DEF InTurn
<1>11. Ordered' /\ Told'
  <2>1. \A k \in DOMAIN todo' : todo'[k].f \notin Events
    BY <1>6, <1>9 DEF Events
  <2>2. \A i \in DOMAIN nodes : /\ nodes[i].failed \/ Quiet(nodes[i])
                                /\ nodes[i].pending => ~ nodes[i].fresh
                                /\ Informed(nodes[i])
    BY <1>1, <1>2, AtRest
  <2>. QED BY <1>1, <2>1, <2>2 DEF Ordered, Told, FirstEvent
<1>12. \A F : "destroy" \notin F /\ "clear" \notin F => Names(todo', F) = {}
  BY <1>6, <1>9 DEF Names
<1>13. Names(todo', {"destroy"}) = DOMAIN nodes
  <2>1. \A i \in DOMAIN nodes : i \in Names(todo', {"destroy"})
    <3>1. SUFFICES ASSUME NEW i \in DOMAIN nodes
                   PROVE  \E k \in DOMAIN todo' : todo'[k].f \in {"destroy"} /\ todo'[k].i = i
      BY <1>2 DEF Names
    <3>2. PICK k \in DOMAIN ids : ids[k] = i
      BY <1>4
    <3>3. k \in DOMAIN todo' /\ todo'[k] = X[k] /\ k \in DOMAIN X
      BY <1>5, <1>8
    <3>. QED BY <1>6, <3>2, <3>3
  <2>2. \A i \in Names(todo', {"destroy"}) : i \in DOMAIN nodes
    BY <1>6, <1>9 DEF Names
  <2>. QED BY <2>1, <2>2
<1>14. Coming' = {} /\ Going' = {} /\ Names(todo', {"remove"}) = {}
       /\ Coming = {} /\ Going = {} /\ Names(todo, {"remove"}) = {} /\ Names(todo, {"destroy"}) = {}
  BY <1>3, <1>12 DEF Coming, Going
<1>15. Owed'
  <2>1. owed = DOMAIN nodes
    BY <1>1, <1>2, <1>14 DEF Owed
  <2>. QED BY <1>1, <1>13, <2>1 DEF Owed
<1>16. Books' /\ Sent' /\ Files'
  BY <1>1, <1>2, <1>14 DEF Books, Sent, Files
<1>17. Types'
  BY <1>1, <1>2, <1>8 DEF Types
<1>. QED BY <1>10, <1>11, <1>15, <1>16, <1>17 DEF IInv

LEMMA ByFinishStop == IInv /\ finish_stop => IInv'
<1>. SUFFICES ASSUME IInv, finish_stop PROVE IInv'
  OBVIOUS
<1>1. /\ Calling("clear") /\ Done /\ phase' = "stopped" /\ nodes' = [i \in {} |-> 0]
      /\ UNCHANGED <<disk, accounts, subscribed, mirror, real, untracked, owed>>
  BY DEF finish_stop, config, orders
<1>2. /\ todo \in Seq(Calls) /\ todo # <<>> /\ InTurn /\ Types /\ Owed /\ todo[1].f = "clear"
      /\ phase = "stopping"
  BY <1>1, TheCall DEF Allowed, IInv, Busy, Events
<1>3. Len(todo) = 1 /\ todo' = <<>>
  BY <1>1, <1>2, LastCall DEF Done
<1>4. owed = {}
  BY <1>2, <1>3, LastNames DEF Owed
<1>5. DOMAIN nodes' = {} /\ nodes' \in [DOMAIN nodes' -> Node]
  BY <1>1
<1>6. InTurn' /\ Ordered' /\ Told' /\ todo' \in Seq(Calls)
  BY <1>3, <1>5, HandlerEnds
<1>7. Types' /\ Books' /\ Sent' /\ Files' /\ Owed'
  BY <1>1, <1>2, <1>3, <1>4, <1>5, <1>6, NoNames DEF Types, Books, Sent, Files, Owed
<1>. QED BY <1>6, <1>7 DEF IInv

LEMMA ByStart == IInv /\ on_start => IInv'
<1>. SUFFICES ASSUME IInv, on_start PROVE IInv'
  OBVIOUS
<1>. DEFINE ids  == SetToSeq(disk.instruments)
            c(i) == [f |-> "create", i |-> i, add |-> FALSE, left |-> 0]
            w(i) == [f |-> "warmup", i |-> i]
            d    == [f |-> "drain"]
            e    == [f |-> "enter_live"]
            X    == [k \in DOMAIN ids |-> c(ids[k])]
            Y    == [k \in DOMAIN ids |-> w(ids[k])]
<1>1. /\ phase = "off" /\ phase' = "starting" /\ accounts' = disk.accounts
      /\ subscribed' = disk.instruments /\ todo' = X \o Y \o <<d, e>>
      /\ UNCHANGED <<disk, nodes, mirror, real, untracked, owed>>
  BY DEF on_start, orders
<1>2. Types /\ DOMAIN nodes = {} /\ owed = {} /\ Books /\ Sent
  BY <1>1, AtOff
<1>3. disk.instruments \in SUBSET Instruments /\ disk.accounts \in AccountTable
  BY <1>2 DEF Types
<1>4. ids \in Seq(disk.instruments) /\ \A j, k \in DOMAIN ids : j # k => ids[j] # ids[k]
  BY <1>3, Listed
<1>. HIDE DEF ids
<1>. DEFINE n == Len(ids)
<1>5. /\ n \in Nat /\ DOMAIN ids = 1 .. n
      /\ \A k \in 1 .. n : ids[k] \in disk.instruments /\ ids[k] \in Instruments
  BY <1>3, <1>4
<1>6. /\ X \in Seq(Calls) /\ Len(X) = n /\ Y \in Seq(Calls) /\ Len(Y) = n
  <2>1. 0 \in 0 .. warmup_bars
    BY ManagerAssumption
  <2>2. \A i \in Instruments : c(i) \in Calls /\ w(i) \in Calls
    BY <2>1 DEF Calls
  <2>3. X \in [DOMAIN ids -> Calls] /\ Y \in [DOMAIN ids -> Calls]
    BY <1>5, <2>2
  <2>4. ids \in Seq(Instruments)
    BY <1>3, <1>4
  <2>. HIDE DEF X, Y
  <2>. QED BY <2>3, <2>4, OneEach
<1>7. \A k \in 1 .. n : /\ X[k].f = "create" /\ X[k].i = ids[k] /\ ~ X[k].add
                        /\ Y[k].f = "warmup" /\ Y[k].i = ids[k]
  BY <1>5
<1>8. d \in Calls /\ e \in Calls /\ d.f = "drain" /\ e.f = "enter_live"
  BY DEF Calls
<1>. HIDE DEF X, Y, d, e, n
<1>9. /\ todo' \in Seq(Calls) /\ DOMAIN todo' = 1 .. (n + n + 2)
      /\ \A k \in 1 .. n : todo'[k] = X[k]
      /\ \A k \in (n + 1) .. (n + n) : todo'[k] = Y[k - n]
      /\ todo'[n + n + 1] = d /\ todo'[n + n + 2] = e
  <2>. DEFINE Z == X \o Y
              P == <<d, e>>
              T == Z \o P
              m == n + n
  <2>1. /\ Z \in Seq(Calls) /\ Len(Z) = m /\ m \in Nat
        /\ \A k \in 1 .. n : Z[k] = X[k]
        /\ \A k \in (n + 1) .. m : Z[k] = Y[k - n]
    BY <1>5, <1>6
  <2>2. P \in Seq(Calls) /\ Len(P) = 2 /\ P[1] = d /\ P[2] = e
    BY <1>8
  <2>3. T = todo' /\ \A k \in 1 .. n : k \in 1 .. m
    BY <1>1, <1>5
  <2>4. \A k \in (n + 1) .. m : k \in 1 .. m
    BY <1>5
  <2>. HIDE DEF Z, P, m
  <2>. DEFINE z == Len(Z)
              q == Len(P)
  <2>5. /\ T \in Seq(Calls) /\ Len(T) = z + q
        /\ \A k \in 1 .. (z + q) : T[k] = IF k <= z THEN Z[k] ELSE P[k - z]
    BY <2>1, <2>2, ConcatProperties
  <2>6. z = m /\ q = 2 /\ m \in Nat
    BY <2>1, <2>2
  <2>. HIDE DEF T, z, q
  <2>7. /\ T \in Seq(Calls) /\ DOMAIN T = 1 .. (m + 2) /\ \A k \in 1 .. m : T[k] = Z[k]
        /\ T[m + 1] = P[1] /\ T[m + 2] = P[2]
    <3>1. Len(T) = m + 2 /\ DOMAIN T = 1 .. (m + 2) /\ T \in Seq(Calls)
      BY <2>5, <2>6
    <3>2. \A k \in 1 .. m : T[k] = Z[k]
      BY <2>5, <2>6
    <3>3. m + 1 \in 1 .. (z + q) /\ (m + 1) - z = 1 /\ ~ (m + 1 <= z)
          /\ m + 2 \in 1 .. (z + q) /\ (m + 2) - z = 2 /\ ~ (m + 2 <= z)
      BY <2>6
    <3>4. T[m + 1] = P[(m + 1) - z] /\ T[m + 2] = P[(m + 2) - z]
      BY <2>5, <3>3
    <3>. QED BY <3>1, <3>2, <3>3, <3>4
  <2>. HIDE DEF T
  <2>8. /\ todo' \in Seq(Calls) /\ DOMAIN todo' = 1 .. (m + 2)
        /\ \A k \in 1 .. n : todo'[k] = X[k]
        /\ \A k \in (n + 1) .. m : todo'[k] = Y[k - n]
        /\ todo'[m + 1] = d /\ todo'[m + 2] = e
    BY <2>1, <2>2, <2>3, <2>4, <2>7
  <2>. QED BY <2>8 DEF m
<1>10. \A k \in DOMAIN todo' :
         \/ k \in 1 .. n /\ todo'[k].f = "create" /\ todo'[k].i = ids[k] /\ ~ todo'[k].add
         \/ k \in (n + 1) .. (n + n) /\ todo'[k].f = "warmup"
         \/ k = n + n + 1 /\ todo'[k].f = "drain"
         \/ k = n + n + 2 /\ todo'[k].f = "enter_live"
  <2>1. ASSUME NEW k \in DOMAIN todo'
        PROVE  k \in 1 .. n \/ k \in (n + 1) .. (n + n) \/ k = n + n + 1 \/ k = n + n + 2
    BY <1>5, <1>9
  <2>2. ASSUME NEW k \in (n + 1) .. (n + n) PROVE k - n \in 1 .. n
    BY <1>5
  <2>. QED BY <1>7, <1>8, <1>9, <2>1, <2>2
<1>11. InTurn'
  <2>1. ASSUME NEW k \in DOMAIN todo'
        PROVE  /\ Allowed(todo'[k], todo', phase')
               /\ Legal(todo'[k], nodes', subscribed', disk'.instruments)
    BY <1>1, <1>2, <1>5, <1>10 DEF Allowed, Legal, Busy, Events
  <2>2. ASSUME NEW j \in DOMAIN todo', NEW k \in DOMAIN todo', j < k
        PROVE  Before(todo'[j], todo'[k])
    <3>1. todo'[j].f \in {"create", "warmup", "drain"} /\ (todo'[j].f = "create" => ~ todo'[j].add)
      <4>1. j # n + n + 2
        BY <1>5, <1>9, <2>2
      <4>. QED BY <1>10, <4>1
    <3>2. todo'[k].f \in {"create", "warmup", "drain", "enter_live"}
          /\ (todo'[k].f = "create" => ~ todo'[k].add)
      BY <1>10
    <3>3. todo'[j].f = "create" /\ todo'[k].f = "create" => todo'[j].i # todo'[k].i
      <4>1. SUFFICES ASSUME todo'[j].f = "create", todo'[k].f = "create"
                     PROVE  todo'[j].i # todo'[k].i
        OBVIOUS
      <4>2. /\ j \in 1 .. n /\ todo'[j].i = ids[j]
            /\ k \in 1 .. n /\ todo'[k].i = ids[k]
        BY <1>10, <4>1
      <4>3. j # k
        BY <2>2, <4>2
      <4>. QED BY <1>4, <1>5, <4>2, <4>3
    <3>. QED BY <3>1, <3>2, <3>3 DEF Before, Events
  <2>3. \A k \in DOMAIN todo' : todo'[k].f \notin {"close", "open"}
    BY <1>10
  <2>. QED BY <2>1, <2>2, <2>3 DEF InTurn
<1>12. Ordered' /\ Told'
  <2>1. \A k \in DOMAIN todo' : todo'[k].f \notin Events
    BY <1>10 DEF Events
  <2>. QED BY <1>1, <1>2, <2>1 DEF Ordered, Told, FirstEvent
<1>13. Owed'
  <2>1. \A k \in DOMAIN todo' : todo'[k].f \notin {"destroy"}
    BY <1>10
  <2>2. Names(todo', {"destroy"}) = {}
    BY <2>1 DEF Names
  <2>. QED BY <1>1, <1>2, <2>2 DEF Owed
<1>14. Books' /\ Sent' /\ Files'
  BY <1>1, <1>2 DEF Books, Sent, Files
<1>15. Types'
  BY <1>1, <1>2, <1>3, <1>9 DEF Types
<1>. QED BY <1>11, <1>12, <1>13, <1>14, <1>15 DEF IInv

-----------------------------------------------------------------------------
(* The invariant. *)
LEMMA Initially == Init => IInv
<1>. SUFFICES ASSUME Init PROVE IInv
  OBVIOUS
<1>1. /\ phase = "off" /\ todo = <<>> /\ DOMAIN nodes = {} /\ DOMAIN accounts = {}
      /\ owed = {} /\ \A p \in Pairs : mirror[p] = 0 /\ real[p] = 0
  BY DEF Init
<1>2. Types
  <2>1. accounts \in AccountTable
    <3>1. accounts \in [{} -> Scales]
      BY DEF Init
    <3>. QED BY <3>1 DEF AccountTable
  <2>2. disk \in [instruments : SUBSET Instruments, accounts : AccountTable]
    BY ManagerAssumption DEF Init, AccountTable
  <2>3. nodes \in [DOMAIN nodes -> Node] /\ todo \in Seq(Calls)
    BY <1>1 DEF Init
  <2>4. mirror \in [Pairs -> Int] /\ real \in [Pairs -> Int]
    BY DEF Init
  <2>. QED BY <1>1, <2>1, <2>2, <2>3, <2>4 DEF Types, Init
<1>3. InTurn /\ Ordered /\ Told
  BY <1>1 DEF InTurn, Ordered, Told
<1>4. \A F : Names(todo, F) = {}
  BY <1>1, NoNames
<1>5. Books /\ Sent /\ Files /\ Owed
  BY <1>1, <1>4 DEF Books, Sent, Files, Owed
<1>. QED BY <1>2, <1>3, <1>5 DEF IInv

LEMMA ByCommand ==
    ASSUME NEW sync \in BOOLEAN, NEW market \in BOOLEAN
    PROVE  /\ \A i \in Instruments : IInv /\ run_instrument_del(i, sync, market) => IInv'
           /\ \A a \in Accounts :
                /\ IInv /\ run_account_del(a, sync, market) => IInv'
                /\ \A s \in Scales : /\ IInv /\ run_account_add(a, s, sync, market) => IInv'
                                     /\ IInv /\ run_account_set(a, s, sync, market) => IInv'
BY ByInstrumentDel, ByAccountDel, ByRescale DEF run_account_add, run_account_set

LEMMA Inductive == IInv /\ [Next]_vars => IInv'
<1>. SUFFICES ASSUME IInv, [Next]_vars PROVE IInv'
  OBVIOUS
<1>1. CASE on_start
  BY <1>1, ByStart
<1>2. CASE on_start_fails
  BY <1>2, ByStartFailure
<1>3. CASE create_instance
  BY <1>3, ByCreate
<1>4. CASE warmup_history_replay
  BY <1>4, ByWarmup
<1>5. CASE replay_instrument_history
  BY <1>5, ByReplay
<1>6. CASE drain_buffered_ticks
  BY <1>6, ByDrain
<1>7. CASE enter_live
  BY <1>7, ByEnterLive
<1>8. CASE \E i \in Instruments : on_tick(i) \/ run_instrument_add(i)
  BY <1>8, ByTick, ByInstrumentAdd
<1>9. CASE dispatch_bar_close \/ dispatch_bar_open \/ dispatch_bar_update
  <2>1. \E f \in Events : Dispatch(f)
    BY <1>9 DEF dispatch_bar_close, dispatch_bar_open, dispatch_bar_update, Events
  <2>. QED BY <2>1, ByDispatch
<1>10. CASE invoke_params_update
  BY <1>10, ByParams
<1>11. CASE dispatch_on_destroy
  BY <1>11, ByDestroy
<1>12. CASE finish_instrument_add
  BY <1>12, ByCommit
<1>13. CASE rollback_instrument_add
  BY <1>13, ByRollback
<1>14. CASE finish_instrument_del
  BY <1>14, ByRemove
<1>15. CASE \E sync, market \in BOOLEAN :
              \/ \E i \in Instruments : run_instrument_del(i, sync, market)
              \/ \E a \in Accounts : \/ run_account_del(a, sync, market)
                                     \/ \E s \in Scales : \/ run_account_add(a, s, sync, market)
                                                          \/ run_account_set(a, s, sync, market)
  BY <1>15, ByCommand
<1>16. CASE run_param_set
  BY <1>16, ByParamSet
<1>17. CASE run_quit
  BY <1>17, ByQuit
<1>18. CASE on_stop
  BY <1>18, ByStop
<1>19. CASE finish_stop
  BY <1>19, ByFinishStop
<1>20. CASE UNCHANGED vars
  BY <1>20 DEF vars, config, orders, IInv, Types, InTurn, Books, Sent, Files, Owed, Told, Ordered,
     Coming, Going, Target
<1>. QED
  BY <1>1, <1>2, <1>3, <1>4, <1>5, <1>6, <1>7, <1>8, <1>9, <1>10, <1>11, <1>12, <1>13, <1>14,
     <1>15, <1>16, <1>17, <1>18, <1>19, <1>20 DEF Next

(* IInv holds in every reachable state. *)
THEOREM Invariance == Spec => []IInv
BY Initially, Inductive, PTL DEF Spec

(* manager.h, config_file.h: whatever the order of trades, removals and changes
   of the table of accounts, and whichever callback throws or command fails, the
   tables a command touches agree again when it is over: StructureOK in every
   reachable state. *)
THEOREM TablesAgree == Spec => []StructureOK
<1>1. IInv => StructureOK
  <2>. SUFFICES ASSUME IInv PROVE StructureOK
    OBVIOUS
  <2>1. Types /\ InTurn /\ Owed
    BY DEF IInv
  <2>2. TypeOK
    <3>1. \A k \in DOMAIN todo : todo[k] \in Calls
      BY <2>1 DEF Types
    <3>2. owed \subseteq Instruments
      BY <2>1 DEF Owed, Types, Names
    <3>. QED BY <2>1, <3>1, <3>2 DEF TypeOK, Types
  <2>3. MirrorIsLedger /\ FileIsMemory
    BY AtReady DEF MirrorIsLedger, FileIsMemory
  <2>4. DestroyedOnce
    <3>1. ASSUME Calling("destroy") PROVE Head(todo).i \in owed
      <4>1. /\ Head(todo) = todo[1] /\ 1 \in DOMAIN todo /\ todo[1].f = "destroy"
            /\ todo[1].i \in DOMAIN nodes
        BY <3>1, TheCall DEF Legal
      <4>2. todo[1].i \in Names(todo, {"destroy"})
        BY <2>1, <4>1 DEF Names, Types
      <4>. QED BY <2>1, <4>1, <4>2 DEF Owed
    <3>2. Ready => owed = DOMAIN nodes
      BY AtReady
    <3>3. ASSUME phase = "stopped" PROVE owed = {}
      <4>1. \A k \in DOMAIN todo : FALSE
        BY <2>1, <3>3 DEF InTurn, Allowed
      <4>2. Names(todo, {"destroy"}) = {}
        BY <4>1 DEF Names
      <4>. QED BY <2>1, <3>3, <4>2 DEF Owed
    <3>. QED BY <3>1, <3>2, <3>3 DEF DestroyedOnce
  <2>. QED BY <2>2, <2>3, <2>4 DEF StructureOK
<1>. QED BY Invariance, <1>1, PTL

(* context.h fanout_positions, manager.h submit_sync_order: for a B that does not
   trade in on_destroy, the orders sent for an account and an instrument add up
   to its logical position, unless one was waived, skipped or refused; no
   rounding is lost and no difference is sent twice. *)
THEOREM OrdersAddUp ==
    ASSUME ~ FlattensInDestroy
    PROVE  Spec => []OrdersFollowLedger
<1>1. IInv => OrdersFollowLedger
  BY AtReady DEF OrdersFollowLedger
<1>. QED BY Invariance, <1>1, PTL

-----------------------------------------------------------------------------
(* The protocol of an instance. *)

(* Orders move the account position of a live instance only. *)
LiveOnly == \A p \in Pairs : real'[p] # real[p] /\ p \notin untracked'
                               => p[2] \in DOMAIN nodes /\ nodes[p[2]].live

LEMMA LiveFanned ==
    ASSUME Types, NEW i \in DOMAIN nodes, NEW net \in (-MaxNet)..MaxNet, fanout_positions(i, net)
    PROVE  LiveOnly
<1>. DEFINE n == nodes[i]
            D == [p \in Pairs |-> IF n.live /\ p[2] = i /\ p[1] \in DOMAIN accounts
                                  THEN fanout_delta(n.net, net, accounts[p[1]]) ELSE 0]
<1>1. \E R : Place(D, R)
  BY DEF fanout_positions
<1>2. ASSUME NEW p \in Pairs, p \notin untracked' PROVE real'[p] = real[p] + D[p]
  BY <1>1, <1>2 DEF Place
<1>3. \A p \in Pairs : D[p] = 0 \/ (p[2] = i /\ nodes[i].live)
  OBVIOUS
<1>. HIDE DEF D
<1>4. ASSUME NEW p \in Pairs, p \notin untracked', D[p] = 0 PROVE real'[p] = real[p]
  <2>1. real[p] \in Int /\ real'[p] = real[p] + 0
    BY <1>2, <1>4 DEF Types
  <2>. QED BY <2>1
<1>. QED BY <1>3, <1>4 DEF LiveOnly

LEMMA LiveSynced ==
    ASSUME Types, NEW D, \A p \in Pairs : D[p] = 0 \/ p[2] \in DOMAIN nodes,
           NEW sync, NEW market, Sync(D, sync, market)
    PROVE  LiveOnly
<1>. DEFINE out == {p \in Pairs : /\ D[p] # 0 /\ sync
                                  /\ nodes[p[2]].live /\ (market \/ nodes[p[2]].tick)}
<1>1. PICK refused \in SUBSET out : Place(D, {p \in Pairs : D[p] # 0 /\ p \notin out \ refused})
  BY DEF Sync
<1>2. ASSUME NEW p \in Pairs, p \notin untracked'
      PROVE  /\ real'[p] = real[p] + D[p]
             /\ D[p] = 0 \/ nodes[p[2]].live
  BY <1>1, <1>2 DEF Place
<1>. HIDE DEF out
<1>3. ASSUME NEW p \in Pairs, p \notin untracked', D[p] = 0 PROVE real'[p] = real[p]
  <2>1. real[p] \in Int /\ real'[p] = real[p] + 0
    BY <1>2, <1>3 DEF Types
  <2>. QED BY <2>1
<1>. QED BY <1>2, <1>3 DEF LiveOnly

LEMMA NothingSent ==
    ASSUME Types, NEW D, NoOrders(D)
    PROVE  LiveOnly
<1>1. ASSUME NEW p \in Pairs, p \notin untracked' PROVE real'[p] = real[p] + D[p] /\ D[p] = 0
  BY <1>1 DEF NoOrders, Place
<1>. QED BY <1>1 DEF LiveOnly, Types

LEMMA SentWhileLive == IInv /\ [Next]_vars => LiveOnly
<1>. SUFFICES ASSUME IInv, [Next]_vars PROVE LiveOnly
  OBVIOUS
<1>1. Types
  BY DEF IInv
<1>2. CASE real' = real
  BY <1>2 DEF LiveOnly
<1>3. CASE enter_live \/ finish_instrument_add
  <2>1. real' = real \/ \E D : NoOrders(D)
    BY <1>3 DEF enter_live, finish_instrument_add, orders
  <2>. QED BY <1>1, <1>2, <2>1, NothingSent
<1>4. CASE dispatch_bar_close \/ dispatch_bar_open \/ dispatch_bar_update
  <2>1. PICK f \in Events : Dispatch(f)
    BY <1>4 DEF dispatch_bar_close, dispatch_bar_open, dispatch_bar_update, Events
  <2>2. Head(todo).i \in DOMAIN nodes
    BY <2>1, TheCall DEF Dispatch, Legal
  <2>3. real' = real \/ \E net \in Trades(nodes[Head(todo).i].net) : fanout_positions(Head(todo).i, net)
    <3>. DEFINE c == Head(todo)
                bars == IF f = "open" /\ nodes[c.i].bars <= max_lookback
                        THEN nodes[c.i].bars + 1 ELSE nodes[c.i].bars
                node == [nodes[c.i] EXCEPT !.tick = @ \/ ~c.replay, !.bars = bars]
    <3>1. real' = real \/ Deliver(c.i, node, f)
      BY <2>1 DEF Dispatch, orders
    <3>2. node.net = nodes[c.i].net
      BY <1>1, <2>2 DEF Types, Node
    <3>. HIDE DEF node
    <3>. QED BY <3>1, <3>2 DEF Deliver
  <2>4. nodes[Head(todo).i].net \in (-MaxNet)..MaxNet
    BY <1>1, <2>2 DEF Types, Node
  <2>. QED BY <1>1, <1>2, <2>2, <2>3, <2>4, Traded, LiveFanned
<1>5. CASE invoke_params_update
  <2>1. Head(todo).i \in DOMAIN nodes
    BY <1>5, TheCall DEF invoke_params_update, Legal
  <2>2. nodes[Head(todo).i].net \in (-MaxNet)..MaxNet
    BY <1>1, <2>1 DEF Types, Node
  <2>3. \E net \in Trades(nodes[Head(todo).i].net) : fanout_positions(Head(todo).i, net)
    BY <1>5 DEF invoke_params_update
  <2>. QED BY <1>1, <2>1, <2>2, <2>3, Traded, LiveFanned
<1>6. CASE dispatch_on_destroy
  <2>1. Head(todo).i \in DOMAIN nodes
    BY <1>6, TheCall DEF dispatch_on_destroy, Legal
  <2>2. nodes[Head(todo).i].net \in (-MaxNet)..MaxNet /\ 0 \in (-MaxNet)..MaxNet
    BY <1>1, <2>1, ManagerAssumption DEF Types, Node
  <2>3. \E net \in {nodes[Head(todo).i].net} \cup {0} : fanout_positions(Head(todo).i, net)
    BY <1>6 DEF dispatch_on_destroy
  <2>. QED BY <1>1, <2>1, <2>2, <2>3, LiveFanned
<1>7. ASSUME NEW sync \in BOOLEAN, NEW market \in BOOLEAN, NEW i \in Instruments,
             run_instrument_del(i, sync, market)
      PROVE  LiveOnly
  <2>. DEFINE D == [p \in Pairs |-> IF p[2] = i THEN -Target(p[1], i) ELSE 0]
  <2>1. Sync(D, sync, market) /\ \A p \in Pairs : D[p] = 0 \/ p[2] \in DOMAIN nodes
    BY <1>7 DEF run_instrument_del
  <2>. QED BY <1>1, <2>1, LiveSynced
<1>8. ASSUME NEW sync \in BOOLEAN, NEW market \in BOOLEAN, NEW a \in Accounts,
             run_account_del(a, sync, market)
      PROVE  LiveOnly
  <2>. DEFINE D == [p \in Pairs |-> IF p[1] = a THEN -Target(a, p[2]) ELSE 0]
  <2>1. Sync(D, sync, market)
    BY <1>8 DEF run_account_del
  <2>2. \A i : i \notin DOMAIN nodes => Target(a, i) = 0
    BY DEF Target
  <2>3. \A p \in Pairs : D[p] = 0 \/ p[2] \in DOMAIN nodes
    BY <2>2
  <2>. HIDE DEF D
  <2>. QED BY <1>1, <2>1, <2>3, LiveSynced
<1>9. ASSUME NEW sync \in BOOLEAN, NEW market \in BOOLEAN, NEW a \in Accounts, NEW scale \in Scales,
             Rescale(a, scale, sync, market)
      PROVE  LiveOnly
  <2>. DEFINE L(i) == IF i \in DOMAIN nodes THEN logical_position(nodes[i].net, scale) ELSE 0
              D == [p \in Pairs |-> IF p[1] = a THEN L(p[2]) - Target(a, p[2]) ELSE 0]
  <2>1. Sync(D, sync, market)
    BY <1>9 DEF Rescale
  <2>2. \A i : i \notin DOMAIN nodes => L(i) = 0 /\ Target(a, i) = 0
    BY DEF Target
  <2>. HIDE DEF L
  <2>3. \A p \in Pairs : D[p] = 0 \/ p[2] \in DOMAIN nodes
    BY <2>2
  <2>. QED BY <1>1, <2>1, <2>3, LiveSynced
<1>10. CASE \E sync, market \in BOOLEAN :
              \/ \E i \in Instruments : run_instrument_del(i, sync, market)
              \/ \E a \in Accounts : \/ run_account_del(a, sync, market)
                                     \/ \E s \in Scales : \/ run_account_add(a, s, sync, market)
                                                          \/ run_account_set(a, s, sync, market)
  BY <1>7, <1>8, <1>9, <1>10 DEF run_account_add, run_account_set
<1>11. CASE on_start \/ on_start_fails \/ create_instance \/ warmup_history_replay
            \/ replay_instrument_history \/ drain_buffered_ticks
            \/ (\E i \in Instruments : on_tick(i) \/ run_instrument_add(i))
            \/ rollback_instrument_add \/ finish_instrument_del
            \/ run_param_set \/ run_quit \/ on_stop \/ finish_stop \/ UNCHANGED vars
  <2>1. real' = real
    BY <1>11 DEF on_start, on_start_fails, create_instance, warmup_history_replay,
       replay_instrument_history, drain_buffered_ticks, on_tick, FeedTick, run_instrument_add,
       rollback_instrument_add, finish_instrument_del, run_param_set, run_quit, on_stop,
       finish_stop, vars, orders
  <2>. QED BY <1>2, <2>1
<1>. QED BY <1>3, <1>4, <1>5, <1>6, <1>10, <1>11 DEF Next

(* An instance is called in order. *)
InOrder ==
    \A i \in DOMAIN nodes \cap DOMAIN nodes' :
       nodes'[i].last # nodes[i].last =>
          <<nodes[i].last, nodes'[i].last>> \in
             {<<"none", "close">>, <<"close", "open">>, <<"open", "update">>, <<"update", "close">>}

LEMMA NotCalled ==
    ASSUME \A i \in DOMAIN nodes \cap DOMAIN nodes' : nodes'[i].last = nodes[i].last
    PROVE  InOrder
BY DEF InOrder

LEMMA EventInOrder ==
    ASSUME IInv, NEW f \in Events, Dispatch(f)
    PROVE  InOrder
<1>. DEFINE i == todo[1].i
            n == nodes[i]
            replay == todo[1].replay
            bars == IF f = "open" /\ n.bars <= max_lookback THEN n.bars + 1 ELSE n.bars
            node == [n EXCEPT !.tick = @ \/ ~replay, !.bars = bars]
<1>1. Calling(f)
  BY DEF Dispatch
<1>2. /\ Types /\ Ordered /\ Head(todo) = todo[1] /\ 1 \in DOMAIN todo /\ todo[1].f = f
      /\ i \in DOMAIN nodes
  BY <1>1, TheCall DEF Legal, IInv
<1>3. n.failed \/ Expected(f, n)
  <2>1. FirstEvent(todo, 1)
    BY <1>2 DEF FirstEvent
  <2>. QED BY <1>2, <2>1 DEF Ordered
<1>4. n \in Node /\ max_lookback \in Nat
  BY <1>2, ManagerAssumption DEF Types
<1>5. node.last = n.last
  BY <1>4 DEF Node
<1>6. CASE nodes' = nodes
  BY <1>6, NotCalled
<1>7. CASE nodes' = With(i, node)
  BY <1>2, <1>5, <1>7, NotCalled DEF With
<1>8. CASE ~ n.failed /\ CallbackEnabled(f, bars) /\ Deliver(i, node, f)
  <2>. DEFINE m(net, throws) ==
                [node EXCEPT !.net = net, !.failed = throws, !.last = f,
                             !.stage = @ \/ ~throws, !.pending = @ /\ throws]
  <2>0. node \in [DOMAIN node -> {node[x] : x \in DOMAIN node}] /\ "last" \in DOMAIN node
    BY <1>4 DEF Node
  <2>. HIDE DEF node
  <2>1. PICK net \in Trades(node.net), throws \in BOOLEAN : nodes' = With(i, m(net, throws))
    BY <1>8 DEF Deliver
  <2>2. m(net, throws).last = f
    BY <2>0
  <2>. HIDE DEF m
  <2>3. nodes'[i].last = f /\ \A j \in DOMAIN nodes \ {i} : nodes'[j] = nodes[j]
    BY <1>2, <2>1, <2>2 DEF With
  <2>4. Expected(f, n) /\ n.bars \in Nat
    BY <1>3, <1>4, <1>8 DEF Node
  <2>. HIDE DEF n
  <2>5. n.last = f \/ <<n.last, f>> \in
           {<<"none", "close">>, <<"close", "open">>, <<"open", "update">>, <<"update", "close">>}
    <3>1. CASE f = "close"
      BY <2>4, <3>1 DEF Expected, Quiet
    <3>2. CASE f = "open"
      BY <1>4, <1>8, <2>4, <3>2
         DEF Expected, CallbackEnabled, bar_callback_enabled, close_callback_enabled
    <3>3. CASE f = "update"
      BY <1>4, <1>8, <2>4, <3>3 DEF Expected, CallbackEnabled, bar_callback_enabled
    <3>. QED BY <3>1, <3>2, <3>3 DEF Events
  <2>. QED BY <2>3, <2>5 DEF InOrder, n
<1>. QED BY <1>2, <1>6, <1>7, <1>8 DEF Dispatch

LEMMA CalledInOrder == IInv /\ [Next]_vars => InOrder
<1>. SUFFICES ASSUME IInv, [Next]_vars PROVE InOrder
  OBVIOUS
<1>1. Types /\ \A i \in DOMAIN nodes : nodes[i] \in Node
  BY DEF IInv, Types
<1>2. CASE nodes' = nodes
  BY <1>2, NotCalled
<1>3. CASE dispatch_bar_close \/ dispatch_bar_open \/ dispatch_bar_update
  BY <1>3, EventInOrder DEF dispatch_bar_close, dispatch_bar_open, dispatch_bar_update, Events
<1>4. CASE create_instance
  <2>1. Head(todo).i \notin DOMAIN nodes
    BY <1>4, TheCall DEF create_instance, Legal
  <2>2. nodes' = nodes \/ \E m : nodes' = With(Head(todo).i, m)
    BY <1>4 DEF create_instance
  <2>. QED BY <1>2, <2>1, <2>2, NotCalled DEF With
<1>5. CASE enter_live
  <2>1. nodes' = [i \in DOMAIN nodes |-> [nodes[i] EXCEPT !.live = ~nodes[i].failed]]
    BY <1>5 DEF enter_live
  <2>. QED BY <1>1, <2>1, NotCalled DEF Node
<1>6. CASE invoke_params_update
  <2>1. PICK i, net, throws :
          nodes' = [nodes EXCEPT ![i].net = net, ![i].failed = throws, ![i].fresh = TRUE]
    BY <1>6 DEF invoke_params_update
  <2>. QED BY <1>1, <2>1, NotCalled DEF Node
<1>7. CASE dispatch_on_destroy
  <2>1. PICK i, net : nodes' = [nodes EXCEPT ![i].net = net]
    BY <1>7 DEF dispatch_on_destroy
  <2>. QED BY <1>1, <2>1, NotCalled DEF Node
<1>8. CASE finish_instrument_add
  <2>1. nodes' = nodes \/ \E i : nodes' = [nodes EXCEPT ![i].live = ~nodes[i].failed]
    BY <1>8 DEF finish_instrument_add
  <2>. QED BY <1>1, <1>2, <2>1, NotCalled DEF Node
<1>9. CASE rollback_instrument_add \/ finish_instrument_del
  <2>1. \E i : nodes' = Without(i)
    BY <1>9 DEF rollback_instrument_add, finish_instrument_del
  <2>. QED BY <2>1, NotCalled DEF Without, Restrict
<1>10. CASE run_param_set
  <2>1. nodes' = [i \in DOMAIN nodes |->
                    IF i \in {j \in DOMAIN nodes : ~ nodes[j].failed}
                    THEN [nodes[i] EXCEPT !.fresh = FALSE, !.pending = ~nodes[i].stage]
                    ELSE nodes[i]]
    BY <1>10 DEF run_param_set
  <2>. QED BY <1>1, <2>1, NotCalled DEF Node
<1>11. CASE finish_stop
  BY <1>11 DEF finish_stop, InOrder
<1>12. CASE \E sync, market \in BOOLEAN :
              \/ \E i \in Instruments : run_instrument_del(i, sync, market)
              \/ \E a \in Accounts : \/ run_account_del(a, sync, market)
                                     \/ \E s \in Scales : \/ run_account_add(a, s, sync, market)
                                                          \/ run_account_set(a, s, sync, market)
  BY <1>2, <1>12, ZenonT(60) DEF run_instrument_del, run_account_del, run_account_add, run_account_set, Rescale
<1>13. CASE on_start \/ on_start_fails \/ warmup_history_replay
            \/ replay_instrument_history \/ drain_buffered_ticks
            \/ (\E i \in Instruments : on_tick(i) \/ run_instrument_add(i))
            \/ run_quit \/ on_stop \/ UNCHANGED vars
  BY <1>2, <1>13 DEF on_start, on_start_fails, warmup_history_replay, replay_instrument_history,
     drain_buffered_ticks, on_tick, FeedTick, run_instrument_add, run_quit, on_stop, vars
<1>. QED
  BY <1>3, <1>4, <1>5, <1>6, <1>7, <1>8, <1>9, <1>10, <1>11, <1>12, <1>13 DEF Next

(* manager.h dispatch_bar_close, dispatch_params_update, enter_live: an instance
   is called with whole bars in order, no order of it leaves before it is live,
   and no change of the parameters passes it by. *)
THEOREM InstancesAreCalledRight == Spec => InstanceProtocol
<1>1. IInv => ParamsReachEveryInstance
  <2>1. IInv /\ Calling("params") => ~ nodes[Head(todo).i].fresh
    BY TheCall DEF Legal
  <2>. QED BY <2>1, AtReady DEF ParamsReachEveryInstance, Informed
<1>2. IInv /\ [Next]_vars => [InOrder]_vars /\ [LiveOnly]_vars
  BY CalledInOrder, SentWhileLive
<1>. QED
  BY <1>1, <1>2, Invariance, PTL DEF Spec, InstanceProtocol, CallbackOrder, ReplayIsVirtual,
     InOrder, LiveOnly
=============================================================================
