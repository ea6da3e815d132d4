-------------------------- MODULE MdGateway_proofs --------------------------
(***************************************************************************)
(* The market data gateway for every set of instruments and strategies,    *)
(* every batch size, every number of retries, requests, connections,       *)
(* commands and faults.                                                    *)
(*                                                                         *)
(* What the run's invariants lack to be inductive: that a login asked for  *)
(* on a link that is up hears of its end from the queue (LinkInv), that    *)
(* nothing nobody wants is shown as Subscribed (NoOrphans), and why a      *)
(* wanted instrument will be served once the wire and the queue are empty  *)
(* (WantedInv): it is in a queued batch, or the last request for it on the *)
(* wire is a subscription behind every login there, or it is served and no *)
(* request to end that is under way.  This needs a login that can still    *)
(* succeed and no news of a lost session in the queue.                     *)
(***************************************************************************)
EXTENDS MdGateway, FiniteSetTheorems, TLAPS

\* The last request for x on the wire w is a subscription, and no login follows it.
SubLast(w, x) ==
  \E k \in 1 .. Len(w) :
     /\ w[k].op = "sub" /\ w[k].x = x
     /\ \A j \in 1 .. Len(w) :
           j > k => w[j].op # "login" /\ (w[j].op = "unsub" => w[j].x # x)

\* No request on the wire ends the subscription of x.
NoUnsub(w, x) == \A j \in 1 .. Len(w) : w[j].op = "unsub" => w[j].x # x

\* x waits in one of the queued batches.
InBatch(bs, x) == \E k \in 1 .. Len(bs) : x \in bs[k]

\* A login request is on the wire.
HasLogin(w) == \E k \in 1 .. Len(w) : w[k].op = "login"

\* x is served, or will be when all of this has been sent and answered.
Covered(bs, w, sv, x) == InBatch(bs, x) \/ SubLast(w, x) \/ (x \in sv /\ NoUnsub(w, x))

\* SetToSeq lists a set of instruments.
LEMMA Listed ==
  ASSUME NEW S \in SUBSET Instruments
  PROVE  /\ SetToSeq(S) \in Seq(S)
         /\ \A x \in S : \E k \in 1 .. Len(SetToSeq(S)) : SetToSeq(S)[k] = x
<1>1. IsFiniteSet(S) /\ Cardinality(S) \in Nat /\ ExistsBijection(1 .. Cardinality(S), S)
  BY BoundAssumption, FS_Subset, FS_CardinalityType
<1>2. PICK g \in [1 .. Cardinality(S) -> S] : IsInjective(g)
  BY <1>1 DEF ExistsBijection, Bijection, Injection
<1>. DEFINE f == SetToSeq(S)
<1>3. f \in [1 .. Cardinality(S) -> S] /\ IsInjective(f)
  BY <1>2 DEF SetToSeq
<1>. HIDE DEF f
<1>4. f \in Seq(S) /\ Len(f) = Cardinality(S)
  BY <1>1, <1>3
<1>5. f \in Injection(1 .. Cardinality(S), S)
  BY <1>3 DEF Injection
<1>6. IsFiniteSet(1 .. Cardinality(S)) /\ Cardinality(1 .. Cardinality(S)) = Cardinality(S)
  <2>1. Cardinality(S) = IF 1 <= Cardinality(S) THEN Cardinality(S) - 1 + 1 ELSE 0
    BY <1>1
  <2>. QED BY <1>1, <2>1, FS_Interval
<1>7. f \in Surjection(1 .. Cardinality(S), S)
  BY <1>1, <1>5, <1>6, FS_Injection
<1>. QED BY <1>4, <1>7 DEF Surjection, f

\* Integer division, as far as make_batches needs it.
LEMMA Division ==
  ASSUME NEW a \in Nat, NEW b \in Nat \ {0}
  PROVE  a \div b \in Nat /\ b * (a \div b) <= a /\ a < b * (a \div b) + b
OBVIOUS

\* The batch of the i-th of n instruments is one of the batches.
LEMMA Quotients ==
  ASSUME NEW b \in Nat \ {0}, NEW n \in Nat, NEW i \in 1 .. n
  PROVE  (i - 1) \div b + 1 \in 1 .. (n + b - 1) \div b
<1>. DEFINE q == (i - 1) \div b
            p == (n + b - 1) \div b
<1>1. q \in Nat /\ b * q <= i - 1
  BY Division
<1>2. p \in Nat /\ n + b - 1 < b * p + b
  <2>1. n + b - 1 \in Nat OBVIOUS
  <2>. HIDE DEF p
  <2>. QED BY <2>1, Division DEF p
<1>. HIDE DEF q, p
<1>3. q < p
  <2>1. SUFFICES ASSUME p <= q PROVE FALSE
    BY <1>1, <1>2
  <2>2. PICK d \in Nat : q = p + d
    <3>1. q - p \in Nat BY <1>1, <1>2, <2>1
    <3>2. q = p + (q - p) BY <1>1, <1>2
    <3>. QED BY <3>1, <3>2
  <2>3. b * q = b * p + b * d /\ b * d \in Nat /\ b * p \in Nat
    BY <1>1, <1>2, <2>2
  <2>. QED BY <1>1, <1>2, <2>3
<1>. QED BY <1>1, <1>2, <1>3 DEF q, p

\* The batches of a set are its subsets, and hold all of it.
LEMMA Batches ==
  ASSUME NEW S \in SUBSET Instruments
  PROVE  /\ make_batches(S) \in Seq(SUBSET Instruments)
         /\ \A x \in S : InBatch(make_batches(S), x)
         /\ S # {} => make_batches(S) # <<>>
<1>. DEFINE s == SetToSeq(S)
            b == subscribe_batch_size
            n == (Len(s) + b - 1) \div b
            Part(k) == {s[j] : j \in {i \in 1 .. Len(s) : (i - 1) \div b = k - 1}}
            bs == make_batches(S)
<1>1. s \in Seq(S) /\ Len(s) \in Nat /\ b \in Nat \ {0}
      /\ \A x \in S : \E k \in 1 .. Len(s) : s[k] = x
  BY Listed, BatchAssumption
<1>2. bs = [k \in 1 .. n |-> Part(k)]
  BY DEF make_batches
<1>. HIDE DEF s, b
<1>3. n \in Nat
  <2>1. Len(s) + b - 1 \in Nat BY <1>1
  <2>. QED BY <1>1, <2>1, Division
<1>4. \A k \in 1 .. n : Part(k) \in SUBSET Instruments
  BY <1>1
<1>5. \A i \in 1 .. Len(s) : (i - 1) \div b + 1 \in 1 .. n /\ s[i] \in Part((i - 1) \div b + 1)
  <2>. TAKE i \in 1 .. Len(s)
  <2>1. (i - 1) \div b + 1 \in 1 .. n BY <1>1, Quotients
  <2>2. (i - 1) \div b = ((i - 1) \div b + 1) - 1
    <3>1. (i - 1) \div b \in Nat BY <1>1, Division
    <3>. HIDE DEF b
    <3>. QED BY <3>1
  <2>. QED BY <2>1, <2>2
<1>. HIDE DEF n, Part, bs
<1>6. bs \in Seq(SUBSET Instruments) /\ Len(bs) = n
  BY <1>2, <1>3, <1>4
<1>7. ASSUME NEW x \in S PROVE InBatch(bs, x)
  <2>1. PICK i \in 1 .. Len(s) : s[i] = x BY <1>1
  <2>2. PICK k \in 1 .. n : x \in Part(k) BY <1>5, <2>1
  <2>. QED BY <1>2, <1>6, <2>2 DEF InBatch
<1>8. S # {} => bs # <<>>
  <2>1. SUFFICES ASSUME NEW x \in S, bs = <<>> PROVE FALSE OBVIOUS
  <2>. QED BY <1>7, <2>1 DEF InBatch
<1>. QED BY <1>6, <1>7, <1>8 DEF bs

\* One request per instrument of a set.
LEMMA Requests ==
  ASSUME NEW S \in SUBSET Instruments, NEW op \in {"sub", "unsub"}
  PROVE  /\ Each(op, S) \in Seq(Reqs)
         /\ \A k \in 1 .. Len(Each(op, S)) : Each(op, S)[k].op = op /\ Each(op, S)[k].x \in S
         /\ \A x \in S : \E k \in 1 .. Len(Each(op, S)) : Each(op, S)[k].x = x
<1>. DEFINE s == SetToSeq(S)
            e == Each(op, S)
<1>1. s \in Seq(S) /\ Len(s) \in Nat /\ \A x \in S : \E k \in 1 .. Len(s) : s[k] = x
  BY Listed
<1>2. e = [k \in 1 .. Len(s) |-> [op |-> op, x |-> s[k]]]
  BY DEF Each
<1>. HIDE DEF s, e
<1>3. \A k \in 1 .. Len(s) : s[k] \in S /\ [op |-> op, x |-> s[k]] \in Reqs
  BY <1>1 DEF Reqs
<1>4. e \in Seq(Reqs) /\ Len(e) = Len(s)
  BY <1>1, <1>2, <1>3
<1>. QED BY <1>1, <1>2, <1>3, <1>4 DEF e

\* Requests to subscribe make the instruments' last request a subscription.
LEMMA SubsAdded ==
  ASSUME NEW w \in Seq(Reqs), NEW S \in SUBSET Instruments, NEW x
  PROVE  LET v == w \o Each("sub", S) IN
         /\ v \in Seq(Reqs)
         /\ x \in S => SubLast(v, x)
         /\ SubLast(w, x) => SubLast(v, x)
         /\ NoUnsub(w, x) => NoUnsub(v, x)
         /\ HasLogin(v) => HasLogin(w)
<1>. DEFINE e == Each("sub", S)
            v == w \o e
<1>1. e \in Seq(Reqs) /\ (\A k \in 1 .. Len(e) : e[k].op = "sub" /\ e[k].x \in S)
      /\ \A y \in S : \E k \in 1 .. Len(e) : e[k].x = y
  BY Requests
<1>. HIDE DEF e
<1>2. v \in Seq(Reqs) /\ Len(v) = Len(w) + Len(e) /\ Len(w) \in Nat /\ Len(e) \in Nat
      /\ (\A k \in 1 .. Len(w) : v[k] = w[k])
      /\ \A k \in 1 .. Len(v) : k > Len(w) => v[k] = e[k - Len(w)]
  BY <1>1
<1>. HIDE DEF v
<1>3. \A k \in 1 .. Len(v) : k > Len(w) => v[k].op = "sub"
  <2>. TAKE k \in 1 .. Len(v)
  <2>. HAVE k > Len(w)
  <2>1. k - Len(w) \in 1 .. Len(e) BY <1>2
  <2>. QED BY <1>1, <1>2, <2>1
<1>4. ASSUME x \in S PROVE SubLast(v, x)
  <2>1. PICK k \in 1 .. Len(e) : e[k].x = x BY <1>1, <1>4
  <2>2. /\ Len(w) + k \in 1 .. Len(v) /\ v[Len(w) + k] = e[k] 
        /\ \A j \in 1 .. Len(v) : j > Len(w) + k => j > Len(w)
    <3>1. Len(w) + k \in 1 .. Len(v) /\ Len(w) + k > Len(w) /\ (Len(w) + k) - Len(w) = k
      BY <1>2
    <3>. QED BY <1>2, <3>1
  <2>. QED BY <1>1, <1>3, <2>1, <2>2 DEF SubLast
<1>5. ASSUME SubLast(w, x) PROVE SubLast(v, x)
  <2>1. PICK k \in 1 .. Len(w) : 
            /\ w[k].op = "sub" /\ w[k].x = x
            /\ \A j \in 1 .. Len(w) :
                 j > k => w[j].op # "login" /\ (w[j].op = "unsub" => w[j].x # x)
    BY <1>5 DEF SubLast
  <2>2. ASSUME NEW j \in 1 .. Len(v), j > k
        PROVE  v[j].op # "login" /\ (v[j].op = "unsub" => v[j].x # x)
    <3>1. CASE j \in 1 .. Len(w) BY <1>2, <2>1, <2>2, <3>1
    <3>2. CASE j > Len(w) BY <1>3, <3>2
    <3>. QED BY <3>1, <3>2, <1>2
  <2>3. k \in 1 .. Len(v) /\ v[k] = w[k] BY <1>2
  <2>. QED BY <2>1, <2>2, <2>3 DEF SubLast
<1>6. ASSUME NoUnsub(w, x) PROVE NoUnsub(v, x)
  <2>1. ASSUME NEW j \in 1 .. Len(v), v[j].op = "unsub" PROVE v[j].x # x
    <3>1. CASE j \in 1 .. Len(w) BY <1>2, <1>6, <2>1, <3>1 DEF NoUnsub
    <3>2. CASE j > Len(w) BY <1>3, <2>1, <3>2
    <3>. QED BY <3>1, <3>2, <1>2
  <2>. QED BY <2>1 DEF NoUnsub
<1>7. HasLogin(v) => HasLogin(w)
  <2>1. ASSUME NEW j \in 1 .. Len(v), v[j].op = "login" PROVE j \in 1 .. Len(w) /\ w[j] = v[j]
    <3>1. ~(j > Len(w)) BY <1>3, <2>1
    <3>. QED BY <1>2, <3>1
  <2>. QED BY <2>1 DEF HasLogin
<1>. QED BY <1>2, <1>4, <1>5, <1>6, <1>7 DEF v, e

\* Requests to unsubscribe other instruments leave an instrument's last request alone.
LEMMA UnsubsAdded ==
  ASSUME NEW w \in Seq(Reqs), NEW S \in SUBSET Instruments, NEW x
  PROVE  LET v == w \o Each("unsub", S) IN
         /\ v \in Seq(Reqs)
         /\ x \notin S /\ SubLast(w, x) => SubLast(v, x)
         /\ x \notin S /\ NoUnsub(w, x) => NoUnsub(v, x)
         /\ HasLogin(v) => HasLogin(w)
<1>. DEFINE e == Each("unsub", S)
            v == w \o e
<1>1. e \in Seq(Reqs) /\ (\A k \in 1 .. Len(e) : e[k].op = "unsub" /\ e[k].x \in S)
  BY Requests
<1>. HIDE DEF e
<1>2. v \in Seq(Reqs) /\ Len(v) = Len(w) + Len(e) /\ Len(w) \in Nat /\ Len(e) \in Nat
      /\ (\A k \in 1 .. Len(w) : v[k] = w[k])
      /\ \A k \in 1 .. Len(v) : k > Len(w) => v[k] = e[k - Len(w)]
  BY <1>1
<1>. HIDE DEF v
<1>3. \A k \in 1 .. Len(v) : k > Len(w) => v[k].op = "unsub" /\ v[k].x \in S
  <2>. TAKE k \in 1 .. Len(v)
  <2>. HAVE k > Len(w)
  <2>1. k - Len(w) \in 1 .. Len(e) BY <1>2
  <2>. QED BY <1>1, <1>2, <2>1
<1>5. ASSUME SubLast(w, x), x \notin S PROVE SubLast(v, x)
  <2>1. PICK k \in 1 .. Len(w) : 
            /\ w[k].op = "sub" /\ w[k].x = x
            /\ \A j \in 1 .. Len(w) :
                 j > k => w[j].op # "login" /\ (w[j].op = "unsub" => w[j].x # x)
    BY <1>5 DEF SubLast
  <2>2. ASSUME NEW j \in 1 .. Len(v), j > k
        PROVE  v[j].op # "login" /\ (v[j].op = "unsub" => v[j].x # x)
    <3>1. CASE j \in 1 .. Len(w) BY <1>2, <2>1, <2>2, <3>1
    <3>2. CASE j > Len(w) BY <1>3, <1>5, <3>2
    <3>. QED BY <3>1, <3>2, <1>2
  <2>3. k \in 1 .. Len(v) /\ v[k] = w[k] BY <1>2
  <2>. QED BY <2>1, <2>2, <2>3 DEF SubLast
<1>6. ASSUME NoUnsub(w, x), x \notin S PROVE NoUnsub(v, x)
  <2>1. ASSUME NEW j \in 1 .. Len(v), v[j].op = "unsub" PROVE v[j].x # x
    <3>1. CASE j \in 1 .. Len(w) BY <1>2, <1>6, <2>1, <3>1 DEF NoUnsub
    <3>2. CASE j > Len(w) BY <1>3, <1>6, <2>1, <3>2
    <3>. QED BY <3>1, <3>2, <1>2
  <2>. QED BY <2>1 DEF NoUnsub
<1>7. HasLogin(v) => HasLogin(w)
  <2>1. ASSUME NEW j \in 1 .. Len(v), v[j].op = "login" PROVE j \in 1 .. Len(w) /\ w[j] = v[j]
    <3>1. ~(j > Len(w)) BY <1>3, <2>1
    <3>. QED BY <1>2, <3>1
  <2>. QED BY <2>1 DEF HasLogin
<1>. QED BY <1>2, <1>5, <1>6, <1>7 DEF v, e

\* The front takes the oldest request off the wire.
LEMMA Answered ==
  ASSUME NEW w \in Seq(Reqs), w # <<>>, NEW x
  PROVE  LET v == Tail(w) IN
         /\ v \in Seq(Reqs) /\ Head(w) \in Reqs
         /\ SubLast(w, x) => \/ SubLast(v, x)
                             \/ Head(w).op = "sub" /\ Head(w).x = x /\ NoUnsub(v, x) /\ ~HasLogin(v)
         /\ NoUnsub(w, x) => NoUnsub(v, x) /\ (Head(w).op = "unsub" => Head(w).x # x)
         /\ HasLogin(w) /\ Head(w).op # "login" => HasLogin(v)
         /\ HasLogin(v) \/ Head(w).op = "login" => HasLogin(w)
<1>. DEFINE v == Tail(w)
<1>1. v \in Seq(Reqs) /\ Len(v) = Len(w) - 1 /\ Len(w) \in Nat /\ Len(w) >= 1 /\ Head(w) = w[1]
      /\ Head(w) \in Reqs /\ \A k \in 1 .. Len(v) : v[k] = w[k + 1]
  OBVIOUS
<1>. HIDE DEF v
<1>2. \A k \in 1 .. Len(w) : k > 1 => k - 1 \in 1 .. Len(v) /\ v[k - 1] = w[k]
  <2>. TAKE k \in 1 .. Len(w)
  <2>. HAVE k > 1
  <2>1. k - 1 \in 1 .. Len(v) /\ (k - 1) + 1 = k BY <1>1
  <2>. QED BY <1>1, <2>1
<1>3. \A k \in 1 .. Len(v) : k + 1 \in 1 .. Len(w) /\ k + 1 > 1 /\ v[k] = w[k + 1]
  BY <1>1
<1>4. ASSUME SubLast(w, x)
      PROVE  \/ SubLast(v, x)
             \/ Head(w).op = "sub" /\ Head(w).x = x /\ NoUnsub(v, x) /\ ~HasLogin(v)
  <2>1. PICK k \in 1 .. Len(w) :
            /\ w[k].op = "sub" /\ w[k].x = x
            /\ \A j \in 1 .. Len(w) :
                 j > k => w[j].op # "login" /\ (w[j].op = "unsub" => w[j].x # x)
    BY <1>4 DEF SubLast
  <2>2. CASE k > 1
    <3>1. k - 1 \in 1 .. Len(v) /\ v[k - 1] = w[k] BY <1>2, <2>2
    <3>2. ASSUME NEW j \in 1 .. Len(v), j > k - 1
          PROVE  v[j].op # "login" /\ (v[j].op = "unsub" => v[j].x # x)
      <4>1. j + 1 > k BY <3>2
      <4>. QED BY <1>3, <2>1, <4>1
    <3>. QED BY <2>1, <3>1, <3>2 DEF SubLast
  <2>3. CASE k = 1
    BY <1>1, <1>3, <2>1, <2>3 DEF NoUnsub, HasLogin
  <2>. QED BY <2>2, <2>3
<1>5. NoUnsub(w, x) => NoUnsub(v, x) /\ (Head(w).op = "unsub" => Head(w).x # x)
  BY <1>1, <1>3 DEF NoUnsub
<1>6. HasLogin(w) /\ Head(w).op # "login" => HasLogin(v)
  <2>1. SUFFICES ASSUME NEW k \in 1 .. Len(w), w[k].op = "login", Head(w).op # "login"
                 PROVE  HasLogin(v)
    BY DEF HasLogin
  <2>2. k > 1 BY <1>1, <2>1
  <2>. QED BY <1>2, <2>1, <2>2 DEF HasLogin
<1>7. HasLogin(v) \/ Head(w).op = "login" => HasLogin(w)
  BY <1>1, <1>3 DEF HasLogin
<1>. QED BY <1>1, <1>4, <1>5, <1>6, <1>7 DEF v

\* A map of subscriptions: its instruments, and what is known of each.
Entry == [subscribers : SUBSET Strategies, state : SubState]
Maps == Infos(Instruments, Strategies)

\* What Infos says of a map.
LEMMA MapsIn ==
  ASSUME NEW m \in Maps
  PROVE  DOMAIN m \in SUBSET Instruments /\ m \in [DOMAIN m -> Entry]
BY DEF Maps, Infos, Entry

\* And what makes a map one of Infos.
LEMMA MapsOut ==
  ASSUME NEW D \in SUBSET Instruments, NEW m \in [D -> Entry]
  PROVE  m \in Maps
BY DEF Maps, Infos, Entry

\* No entry is shown as Subscribed that nobody wants.
NoOrphans(m) == \A x \in DOMAIN m : m[x].state = "Subscribed" => m[x].subscribers # {}

\* What the answers of the front do to the map: no entry is added or forgotten, and
\* none falls back that somebody wants.
Milder(m, n) ==
  /\ n \in Maps /\ NoOrphans(n)
  /\ \A x \in DOMAIN n :
        /\ x \in DOMAIN m /\ n[x].subscribers = m[x].subscribers
        /\ n[x].state = "Pending" => m[x].state = "Pending"
        /\ n[x].state = "NotRequested" /\ n[x].subscribers # {} => m[x].state = "NotRequested"

\* WithState changes the state of the entries of S and nothing else.
LEMMA WithStateIs ==
  ASSUME NEW m \in Maps, NEW S, NEW s \in SubState
  PROVE  LET n == WithState(m, S, s) IN
         /\ n \in Maps /\ DOMAIN n = DOMAIN m
         /\ \A x \in DOMAIN m : /\ n[x].subscribers = m[x].subscribers
                                /\ n[x].state = IF x \in S THEN s ELSE m[x].state
<1>. DEFINE n == WithState(m, S, s)
<1>1. DOMAIN m \in SUBSET Instruments /\ m \in [DOMAIN m -> Entry]
  BY MapsIn
<1>2. n = [x \in DOMAIN m |-> IF x \in S THEN [m[x] EXCEPT !.state = s] ELSE m[x]]
  BY DEF WithState
<1>. HIDE DEF n
<1>3. n \in [DOMAIN m -> Entry]
  BY <1>1, <1>2 DEF Entry
<1>4. n \in Maps
  BY <1>1, <1>3, MapsOut
<1>. QED BY <1>1, <1>2, <1>4 DEF Entry, n

\* Erase drops the entries of S and nothing else.
LEMMA EraseIs ==
  ASSUME NEW m \in Maps, NEW S
  PROVE  LET n == Erase(m, S) IN
         /\ n \in Maps /\ DOMAIN n = DOMAIN m \ S
         /\ \A x \in DOMAIN n : n[x] = m[x]
<1>. DEFINE n == Erase(m, S)
<1>1. DOMAIN m \in SUBSET Instruments /\ m \in [DOMAIN m -> Entry]
  BY MapsIn
<1>2. n = [x \in DOMAIN m \ S |-> m[x]]
  BY DEF Erase
<1>. HIDE DEF n
<1>3. n \in [DOMAIN m \ S -> Entry] /\ DOMAIN m \ S \in SUBSET Instruments
  BY <1>1, <1>2
<1>. QED BY <1>2, <1>3, MapsOut DEF n

\* Dropping entries is a step the answers may take.
LEMMA Erased ==
  ASSUME NEW m \in Maps, NoOrphans(m), NEW S
  PROVE  Milder(m, Erase(m, S))
<1>. DEFINE n == Erase(m, S)
<1>1. n \in Maps /\ DOMAIN n = DOMAIN m \ S /\ \A x \in DOMAIN n : n[x] = m[x]
  BY EraseIs
<1>. HIDE DEF n
<1>2. Milder(m, n)
  BY <1>1 DEF Milder, NoOrphans
<1>. QED BY <1>2 DEF n

\* on_sub_confirmed.
LEMMA SubConfirmed ==
  ASSUME NEW m \in Maps, NoOrphans(m), NEW x, NEW ok
  PROVE  Milder(m, on_sub_confirmed(m, x, ok))
<1>2. Milder(m, m)
  BY DEF Milder
<1>3. Milder(m, Erase(m, {x}))
  BY Erased
<1>4. m[x].subscribers = {} => Milder(m, WithState(m, {x}, "NotRequested"))
  <2>. DEFINE n == WithState(m, {x}, "NotRequested")
  <2>1. /\ n \in Maps /\ DOMAIN n = DOMAIN m
        /\ \A y \in DOMAIN m : /\ n[y].subscribers = m[y].subscribers
                               /\ n[y].state = IF y \in {x} THEN "NotRequested" ELSE m[y].state
    BY WithStateIs DEF SubState
  <2>. HIDE DEF n
  <2>2. m[x].subscribers = {} => Milder(m, n)
    BY <2>1 DEF Milder, NoOrphans
  <2>. QED BY <2>2 DEF n
<1>5. m[x].subscribers # {} => Milder(m, WithState(m, {x}, "Subscribed"))
  <2>. DEFINE n == WithState(m, {x}, "Subscribed")
  <2>1. /\ n \in Maps /\ DOMAIN n = DOMAIN m
        /\ \A y \in DOMAIN m : /\ n[y].subscribers = m[y].subscribers
                               /\ n[y].state = IF y \in {x} THEN "Subscribed" ELSE m[y].state
    BY WithStateIs DEF SubState
  <2>. HIDE DEF n
  <2>2. m[x].subscribers # {} => Milder(m, n)
    BY <2>1 DEF Milder, NoOrphans
  <2>. QED BY <2>2 DEF n
<1>. QED BY <1>2, <1>3, <1>4, <1>5 DEF on_sub_confirmed

\* on_unsub_confirmed.
LEMMA UnsubConfirmed ==
  ASSUME NEW m \in Maps, NoOrphans(m), NEW x
  PROVE  Milder(m, on_unsub_confirmed(m, x))
<1>1. Milder(m, m)
  BY DEF Milder
<1>2. Milder(m, Erase(m, {x}))
  BY Erased
<1>. QED BY <1>1, <1>2 DEF on_unsub_confirmed

\* Nothing is requested any more.
Lost(n) == n \in Maps /\ \A x \in DOMAIN n : n[x].state = "NotRequested"

\* on_session_lost and on_idle.
LEMMA SessionLost ==
  ASSUME NEW m \in Maps
  PROVE  Lost(on_session_lost(m)) /\ Lost(on_idle(m))
<1>1. /\ Lost(on_session_lost(m)) /\ on_session_lost(m) \in Maps
  <2>. DEFINE n == on_session_lost(m)
  <2>1. n = WithState(m, DOMAIN m, "NotRequested") BY DEF on_session_lost
  <2>2. /\ n \in Maps /\ DOMAIN n = DOMAIN m
        /\ \A y \in DOMAIN m : n[y].state = IF y \in DOMAIN m THEN "NotRequested" ELSE m[y].state
    BY <2>1, WithStateIs DEF SubState
  <2>. HIDE DEF n
  <2>3. Lost(n) BY <2>2 DEF Lost
  <2>. QED BY <2>2, <2>3 DEF n
<1>2. Lost(on_idle(m))
  <2>. DEFINE n == on_session_lost(m)
  <2>. HIDE DEF n
  <2>1. n \in Maps /\ Lost(n) BY <1>1 DEF n
  <2>. DEFINE e == on_idle(m)
              S == {x \in DOMAIN m : m[x].subscribers = {}}
  <2>2. e = Erase(n, S) BY DEF on_idle, n
  <2>. HIDE DEF e, S
  <2>3. e \in Maps /\ DOMAIN e = DOMAIN n \ S /\ \A x \in DOMAIN e : e[x] = n[x]
    <3>1. \A T : LET f == Erase(n, T) IN
              f \in Maps /\ DOMAIN f = DOMAIN n \ T /\ \A x \in DOMAIN f : f[x] = n[x]
      BY <2>1, EraseIs
    <3>. QED BY <2>2, <3>1
  <2>4. Lost(e) BY <2>1, <2>3 DEF Lost
  <2>. QED BY <2>4 DEF e
<1>. QED BY <1>1, <1>2

\* A login asks again for everything that is wanted.
LEMMA LoggedIn ==
  ASSUME NEW m \in Maps
  PROVE  LET n == on_logged_in(m)
             resu == to_resubscribe(n) IN
         /\ Lost(n) /\ resu \in SUBSET Instruments
         /\ resu = {x \in DOMAIN n : n[x].subscribers # {}}
<1>. DEFINE n == on_logged_in(m)
            e == Erase(m, OrphansIn(m, "NotRequested"))
<1>1. e \in Maps BY EraseIs
<1>2. n = on_session_lost(e) BY DEF on_logged_in
<1>. HIDE DEF e
<1>3. Lost(n) BY <1>1, <1>2, SessionLost
<1>. HIDE DEF n
<1>4. DOMAIN n \in SUBSET Instruments BY <1>3, MapsIn DEF Lost
<1>5. to_resubscribe(n) = {x \in DOMAIN n : n[x].subscribers # {}}
  BY <1>3 DEF Lost, to_resubscribe
<1>. QED BY <1>3, <1>4, <1>5 DEF n

\* reset_pending_state: what was Pending is NotRequested.
LEMMA GivenUp ==
  ASSUME NEW m \in Maps, NoOrphans(m)
  PROVE  LET n == reset_pending_state(m) IN
         /\ n \in Maps /\ NoOrphans(n) /\ DOMAIN n = DOMAIN m
         /\ \A x \in DOMAIN n :
               /\ n[x].subscribers = m[x].subscribers /\ n[x].state # "Pending"
               /\ n[x].state = "NotRequested" => m[x].state \in {"NotRequested", "Pending"}
<1>. DEFINE n == reset_pending_state(m)
            S == check_subscribe_status(m)
<1>1. n = WithState(m, S, "NotRequested") BY DEF reset_pending_state
<1>. HIDE DEF S
<1>2. /\ n \in Maps /\ DOMAIN n = DOMAIN m
      /\ \A x \in DOMAIN m : /\ n[x].subscribers = m[x].subscribers
                             /\ n[x].state = IF x \in S THEN "NotRequested" ELSE m[x].state
  BY <1>1, WithStateIs DEF SubState
<1>. HIDE DEF n
<1>3. \A x \in DOMAIN m : x \in S <=> m[x].state = "Pending"
  BY DEF S, check_subscribe_status
<1>. QED BY <1>2, <1>3 DEF n, NoOrphans

\* A strategy leaves the instruments S: the entries that lose their last subscriber
\* are dropped or fall back, the others stay as they are.
LEMMA Unsubscribed ==
  ASSUME NEW m \in Maps, NoOrphans(m), NEW who, NEW S
  PROVE  LET n == unsubscribe(m, who, S)
             off == to_unsub(m, who, S) IN
         /\ n \in Maps /\ NoOrphans(n) /\ DOMAIN n \subseteq DOMAIN m
         /\ off \in SUBSET Instruments
         /\ \A x \in DOMAIN n :
               /\ n[x].state # "NotRequested" => n[x].state = m[x].state
               /\ x \in off => n[x].state = "NotRequested"
               /\ n[x].subscribers # {} =>
                     m[x].subscribers # {} /\ x \notin off /\ n[x].state = m[x].state
<1>. DEFINE n == unsubscribe(m, who, S)
            off == to_unsub(m, who, S)
            dead == {x \in Left(m, who, S) : m[x].state = "NotRequested"}
<1>1. DOMAIN m \in SUBSET Instruments /\ m \in [DOMAIN m -> Entry]
  BY MapsIn
<1>2. n = [x \in DOMAIN m \ dead |->
            [subscribers |-> IF x \in S THEN m[x].subscribers \ {who} ELSE m[x].subscribers,
             state       |-> IF x \in off THEN "NotRequested" ELSE m[x].state]]
  BY DEF unsubscribe
<1>3. \A x : x \in off <=> /\ x \in S /\ x \in DOMAIN m /\ m[x].subscribers \subseteq {who}
                           /\ m[x].state = "Subscribed"
  BY DEF to_unsub, Left
<1>. HIDE DEF n, off, dead
<1>4. n \in [DOMAIN m \ dead -> Entry] /\ DOMAIN m \ dead \in SUBSET Instruments
  BY <1>1, <1>2 DEF Entry, SubState
<1>5. n \in Maps
  BY <1>4, MapsOut
<1>6. \A x \in DOMAIN n :
         /\ x \in DOMAIN m
         /\ n[x].state = (IF x \in off THEN "NotRequested" ELSE m[x].state)
         /\ n[x].subscribers = (IF x \in S THEN m[x].subscribers \ {who} ELSE m[x].subscribers)
  BY <1>2
<1>7. off \in SUBSET Instruments
  BY <1>1, <1>3
<1>8. ASSUME NEW x \in DOMAIN n
      PROVE /\ n[x].state # "NotRequested" => n[x].state = m[x].state
            /\ x \in off => n[x].state = "NotRequested"
            /\ n[x].subscribers # {} =>
                  m[x].subscribers # {} /\ x \notin off /\ n[x].state = m[x].state
            /\ n[x].state = "Subscribed" => n[x].subscribers # {}
  BY <1>3, <1>6 DEF NoOrphans
<1>. QED BY <1>5, <1>6, <1>7, <1>8 DEF NoOrphans, n, off

\* A strategy joins the instruments S; those not shown as Subscribed are requested.
LEMMA Joined ==
  ASSUME NEW m \in Maps, NoOrphans(m), NEW who \in Strategies, NEW S \in SUBSET Instruments
  PROVE  LET n == subscribe(m, who, S)
             on == to_subscribe(m, S) IN
         /\ n \in Maps /\ NoOrphans(n) /\ on \in SUBSET Instruments
         /\ on \subseteq DOMAIN n
         /\ \A x \in DOMAIN n :
               /\ n[x].state # "NotRequested" => x \in DOMAIN m /\ n[x].state = m[x].state
               /\ x \notin on /\ n[x].subscribers # {} =>
                     /\ x \in DOMAIN m /\ m[x].subscribers # {} /\ n[x].state = m[x].state
<1>. DEFINE n == subscribe(m, who, S)
            on == to_subscribe(m, S)
            Old(x) == IF x \in DOMAIN m THEN m[x] ELSE NewInfo
<1>1. DOMAIN m \in SUBSET Instruments /\ m \in [DOMAIN m -> Entry]
  BY MapsIn
<1>2. n = [x \in DOMAIN m \cup S |->
             IF x \in S THEN [Old(x) EXCEPT !.subscribers = @ \cup {who}] ELSE Old(x)]
  BY DEF subscribe
<1>3. \A x : x \in on <=> x \in S /\ (x \notin DOMAIN m \/ m[x].state # "Subscribed")
  BY DEF to_subscribe
<1>4. \A x : Old(x) \in Entry /\ (x \in DOMAIN m => Old(x) = m[x])
            /\ (x \notin DOMAIN m => Old(x) = NewInfo)
            /\ Old(x).state \in SubState /\ Old(x).subscribers \in SUBSET Strategies
  BY <1>1 DEF NewInfo, Entry, SubState
<1>5. NewInfo.state = "NotRequested" /\ NewInfo.subscribers = {}
  BY DEF NewInfo
<1>. HIDE DEF n, on, Old
<1>6. /\ DOMAIN n = DOMAIN m \cup S
      /\ \A x \in DOMAIN n : n[x] \in Entry /\ n[x].state = Old(x).state /\ 
            n[x].subscribers = IF x \in S THEN Old(x).subscribers \cup {who} ELSE Old(x).subscribers
  BY <1>2, <1>4 DEF Entry
<1>7. n \in Maps
  <2>1. n \in [DOMAIN m \cup S -> Entry] BY <1>2, <1>6
  <2>2. DOMAIN m \cup S \in SUBSET Instruments BY <1>1
  <2>. QED BY <2>1, <2>2, MapsOut
<1>8. on \in SUBSET Instruments /\ on \subseteq DOMAIN n
  BY <1>3, <1>6
<1>9. NoOrphans(n)
  <2>1. SUFFICES ASSUME NEW x \in DOMAIN n, n[x].state = "Subscribed" PROVE n[x].subscribers # {}
    BY DEF NoOrphans
  <2>2. x \in DOMAIN m /\ m[x].state = "Subscribed" BY <1>4, <1>5, <1>6, <2>1
  <2>. QED BY <1>4, <1>6, <2>1, <2>2 DEF NoOrphans
<1>10. ASSUME NEW x \in DOMAIN n
       PROVE  /\ n[x].state # "NotRequested" => x \in DOMAIN m /\ n[x].state = m[x].state
              /\ x \notin on /\ n[x].subscribers # {} =>
                     x \in DOMAIN m /\ m[x].subscribers # {} /\ n[x].state = m[x].state
  <2>1. n[x].state # "NotRequested" => x \in DOMAIN m /\ n[x].state = m[x].state
    BY <1>4, <1>5, <1>6
  <2>2. ASSUME x \notin on, n[x].subscribers # {}
        PROVE  x \in DOMAIN m /\ m[x].subscribers # {} /\ n[x].state = m[x].state
    <3>1. CASE x \in S BY <1>3, <1>4, <1>6, <2>2, <3>1 DEF NoOrphans
    <3>2. CASE x \notin S BY <1>4, <1>5, <1>6, <2>2, <3>2
    <3>. QED BY <3>1, <3>2
  <2>. QED BY <2>1, <2>2
<1>. QED BY <1>7, <1>8, <1>9, <1>10 DEF n, on

-----------------------------------------------------------------------------
(* The inductive invariant.                                                *)

Cut(q)  == \E k \in 1 .. Len(q) : q[k].type \in {"disc", "logout"}
Disc(q) == \E k \in 1 .. Len(q) : q[k].type = "disc"

NonePending(m) == \A x \in DOMAIN m : m[x].state # "Pending"

\* The one timer of an active chain; only a login has one; nothing is left to an
\* inactive one.
TimerInv ==
  /\ active => Len(sub_timers) = 1 /\ sub_timers[1].fresh = TRUE
  /\ ~active => sub_timers = <<>> /\ batches = <<>> /\ NonePending(info)
  /\ active => st = "LoggedIn"

\* A login is asked for on a link that is up; the gateway learns of its end from the queue.
LinkInv ==
  /\ Listening /\ st \in {"LoggingIn", "LoggedIn"} => front = "up" \/ Disc(events)
  /\ ~Listening => ~session /\ front = "none"

\* Every instrument that somebody wants is served, or will be when the queued batches
\* and the requests on the wire have been answered.
Kept(m, bs, w, sv, f) ==
  \A x \in DOMAIN m \ f : m[x].subscribers # {} => Covered(bs, w, sv, x)

LoggedInFor(w) ==
  Listening /\ st = "LoggedIn" /\ ~Cut(events) /\ (session \/ HasLogin(w))

WantedInv == LoggedInFor(wire) => Kept(info, batches, wire, served, failed)

IInv ==
  /\ TypeOK
  /\ TimerInv
  /\ AttemptsEnd
  /\ NothingForgotten
  /\ LinkInv
  /\ NoOrphans(info)
  /\ WantedInv

\* The invariant holds at the start.
LEMMA IInvInit == Init => IInv
<1>. SUFFICES ASSUME Init PROVE IInv OBVIOUS
<1>1. info \in Maps /\ DOMAIN info = {}
  <2>1. info \in [{} -> Entry] BY DEF Init, NoInfo
  <2>. QED BY <2>1, MapsOut DEF Init, NoInfo
<1>2. TypeOK
  <2>1. configured \in BOOLEAN /\ api \in BOOLEAN /\ active \in BOOLEAN /\ conn_timer \in BOOLEAN
        /\ login_timer \in BOOLEAN /\ session \in BOOLEAN
    BY DEF Init
  <2>2. /\ running = "yes" /\ st \in States /\ batches \in Seq(SUBSET Instruments)
        /\ retry \in 0 .. sub_max_retry /\ events \in Seq(Events) /\ wire \in Seq(Reqs)
        /\ sub_timers \in Seq([kind : {"send", "check"}, fresh : BOOLEAN])
        /\ front = "none" /\ served = {} /\ gaveUp = {} /\ failed = {}
        /\ reqs \in 0 .. MaxReqs /\ conns \in 0 .. MaxConns
        /\ commands \in 0 .. MaxCommands /\ faults \in 0 .. MaxFaults
    BY BoundAssumption DEF Init, States
  <2>. QED BY <1>1, <2>1, <2>2 DEF TypeOK, Maps
<1>3. /\ TimerInv /\ NothingForgotten /\ AttemptsEnd /\ LinkInv /\ NoOrphans(info) /\ WantedInv
  BY <1>1 DEF Init, TimerInv, NonePending, NothingForgotten, AttemptsEnd, LinkInv, NoOrphans,
     WantedInv, LoggedInFor, Listening
<1>. QED BY <1>2, <1>3 DEF IInv

\* Cancelling the only timer leaves none.
LEMMA Cancelled ==
  ASSUME NEW ts \in Seq([kind : {"send", "check"}, fresh : BOOLEAN]), Len(ts) <= 1
  PROVE  CancelledTimers(ts) = <<>>
<1>. DEFINE c == CancelledTimers(ts)
<1>1. 1 .. Len(ts) - 1 = {} /\ Len(ts) \in Nat OBVIOUS
<1>2. c = [k \in {} |-> [ts[k] EXCEPT !.fresh = FALSE]]
  BY <1>1 DEF CancelledTimers
<1>. HIDE DEF c
<1>3. c \in Seq({}) /\ Len(c) = 0
  BY <1>2
<1>. QED BY <1>3 DEF c

\* What every loss of the session does to the chain.
LEMMA Cleared ==
  ASSUME TypeOK, TimerInv, ClearChain
  PROVE  batches' = <<>> /\ active' = FALSE /\ retry' = 0 /\ sub_timers' = <<>>
<1>1. sub_timers \in Seq([kind : {"send", "check"}, fresh : BOOLEAN]) /\ active \in BOOLEAN
  BY DEF TypeOK
<1>2. Len(sub_timers) <= 1
  <2>1. Len(sub_timers) = 1 \/ sub_timers = <<>> BY <1>1 DEF TimerInv
  <2>2. Len(<<>>) = 0 OBVIOUS
  <2>3. CASE sub_timers = <<>> BY <2>2, <2>3
  <2>. QED BY <2>1, <2>3
<1>. QED BY <1>1, <1>2, Cancelled DEF ClearChain

\* A request call: on the wire, or its subscriptions have failed, or the link is down.
LEMMA Requested ==
  ASSUME TypeOK, NEW w \in Seq(Reqs), NEW rs \in Seq(Reqs), Request(w, rs)
  PROVE  /\ wire' \in Seq(Reqs) /\ faults' \in 0 .. MaxFaults /\ failed' \subseteq Instruments
         /\ failed \subseteq failed'
         /\ \/ wire' = w \o rs
            \/ wire' = w /\ (front = "up" => \A k \in 1 .. Len(rs) : rs[k].op = "sub" => rs[k].x \in failed')
<1>. DEFINE S == {r.x : r \in {q \in Range(rs) : q.op = "sub"}}
<1>1. S \subseteq Instruments /\ \A k \in 1 .. Len(rs) : rs[k].op = "sub" => rs[k].x \in S
  BY DEF Range, Reqs
<1>2. Request(w, rs) <=> 
        \/ front = "up" /\ wire' = w \o rs /\ UNCHANGED fault
        \/ front = "up" /\ wire' = w /\ FaultFor(S)
        \/ front # "up" /\ wire' = w /\ UNCHANGED fault
  BY DEF Request
<1>. HIDE DEF S
<1>3. w \o rs \in Seq(Reqs) OBVIOUS
<1>4. faults \in 0 .. MaxFaults /\ failed \subseteq Instruments /\ MaxFaults \in Nat
  BY BoundAssumption DEF TypeOK
<1>5. CASE wire' = w \o rs /\ UNCHANGED fault
  BY <1>3, <1>4, <1>5 DEF fault
<1>6. CASE wire' = w /\ FaultFor(S)
  BY <1>1, <1>4, <1>6 DEF FaultFor
<1>7. CASE front # "up" /\ wire' = w /\ UNCHANGED fault
  BY <1>4, <1>7 DEF fault
<1>. QED BY <1>2, <1>5, <1>6, <1>7

Timers == [kind : {"send", "check"}, fresh : BOOLEAN]

\* A set of unsubscribe requests touches none of the other instruments.
LEMMA UnsubscribeSent ==
  ASSUME TypeOK, NEW S \in SUBSET Instruments, batch_unsubscribe(S)
  PROVE  /\ wire' \in Seq(Reqs) /\ faults' \in 0 .. MaxFaults /\ failed' \subseteq Instruments
         /\ failed \subseteq failed'
         /\ HasLogin(wire') => HasLogin(wire)
         /\ \A bs, sv : \A x : x \notin S /\ Covered(bs, wire, sv, x) => Covered(bs, wire', sv, x)
<1>. DEFINE e == Each("unsub", S)
<1>0. wire \in Seq(Reqs) BY DEF TypeOK
<1>1. e \in Seq(Reqs) BY Requests
<1>2. Request(wire, e) BY DEF batch_unsubscribe
<1>. HIDE DEF e
<1>3. /\ wire' \in Seq(Reqs) /\ faults' \in 0 .. MaxFaults /\ failed' \subseteq Instruments
      /\ failed \subseteq failed' /\ (wire' = wire \o e \/ wire' = wire)
  BY <1>0, <1>1, <1>2, Requested
<1>. DEFINE v == wire \o e
<1>4. \A x : /\ x \notin S /\ SubLast(wire, x) => SubLast(v, x)
             /\ x \notin S /\ NoUnsub(wire, x) => NoUnsub(v, x)
             /\ HasLogin(v) => HasLogin(wire)
  BY <1>0, UnsubsAdded DEF e
<1>. HIDE DEF v
<1>5. wire' = v \/ wire' = wire BY <1>3 DEF v
<1>6. HasLogin(wire') => HasLogin(wire) BY <1>4, <1>5
<1>7. ASSUME NEW bs, NEW sv, NEW x, x \notin S, Covered(bs, wire, sv, x)
      PROVE Covered(bs, wire', sv, x)
  BY <1>4, <1>5, <1>7 DEF Covered
<1>. QED BY <1>3, <1>6, <1>7

\* The next batch goes from the queue to the wire.
LEMMA Sent ==
  ASSUME TypeOK, NEW bs \in Seq(SUBSET Instruments), send_next_batch(bs, <<>>)
  PROVE  /\ wire' \in Seq(Reqs) /\ faults' \in 0 .. MaxFaults /\ failed' \subseteq Instruments
         /\ failed \subseteq failed'
         /\ batches' \in Seq(SUBSET Instruments) 
         /\ sub_timers' \in Seq(Timers) /\ Len(sub_timers') = 1 /\ sub_timers'[1].fresh = TRUE
         /\ HasLogin(wire') => HasLogin(wire)
         /\ front = "up" => 
              \A sv : \A x : Covered(bs, wire, sv, x) => x \in failed' \/ Covered(batches', wire', sv, x)
<1>. DEFINE S == Head(bs)
            e == Each("sub", S)
<1>0. wire \in Seq(Reqs) /\ faults \in 0 .. MaxFaults /\ failed \subseteq Instruments BY DEF TypeOK
<1>1. /\ sub_timers' \in Seq(Timers) /\ Len(sub_timers') = 1 /\ sub_timers'[1].fresh = TRUE
  <2>1. PICK k \in {"send", "check"} : sub_timers' = Append(<<>>, Timer(k))
    BY DEF send_next_batch
  <2>2. Timer(k) \in Timers /\ Timer(k).fresh = TRUE BY DEF Timer, Timers
  <2>. QED BY <2>1, <2>2
<1>2. CASE bs = <<>>
  <2>1. wire' = wire /\ faults' = faults /\ failed' = failed /\ batches' = bs
    BY <1>2 DEF send_next_batch, fault
  <2>. QED BY <1>0, <1>1, <2>1
<1>3. CASE bs # <<>>
  <2>1. S \in SUBSET Instruments /\ batches' = Tail(bs) /\ Tail(bs) \in Seq(SUBSET Instruments)
        /\ Request(wire, e)
    BY <1>3 DEF send_next_batch
  <2>2. e \in Seq(Reqs) /\ (\A k \in 1 .. Len(e) : e[k].op = "sub")
        /\ \A x \in S : \E k \in 1 .. Len(e) : e[k].x = x
    BY <2>1, Requests
  <2>3. \A x : /\ x \in S => SubLast(wire \o e, x)
               /\ SubLast(wire, x) => SubLast(wire \o e, x)
               /\ NoUnsub(wire, x) => NoUnsub(wire \o e, x)
               /\ HasLogin(wire \o e) => HasLogin(wire)
    BY <1>0, <2>1, SubsAdded
  <2>4. \A x : InBatch(bs, x) => x \in S \/ InBatch(Tail(bs), x)
    <3>1. SUFFICES ASSUME NEW x, NEW k \in 1 .. Len(bs), x \in bs[k], x \notin S
                   PROVE  InBatch(Tail(bs), x)
      BY DEF InBatch
    <3>2. k # 1 BY <1>3, <3>1
    <3>3. k - 1 \in 1 .. Len(Tail(bs)) /\ Tail(bs)[k - 1] = bs[k]
      BY <1>3, <3>2
    <3>. QED BY <3>1, <3>3 DEF InBatch
  <2>. HIDE DEF e, S
  <2>5. /\ wire' \in Seq(Reqs) /\ faults' \in 0 .. MaxFaults /\ failed' \subseteq Instruments
        /\ failed \subseteq failed'
        /\ \/ wire' = wire \o e
           \/ wire' = wire /\ (front = "up" => \A k \in 1 .. Len(e) : e[k].op = "sub" => e[k].x \in failed')
    BY <1>0, <2>1, <2>2, Requested
  <2>6. HasLogin(wire') => HasLogin(wire) BY <2>3, <2>5
  <2>7. ASSUME front = "up", NEW sv, NEW x, Covered(bs, wire, sv, x)
        PROVE  x \in failed' \/ Covered(batches', wire', sv, x)
    <3>1. CASE wire' = wire \o e BY <2>1, <2>3, <2>4, <2>7, <3>1 DEF Covered
    <3>2. CASE wire' = wire /\ \A k \in 1 .. Len(e) : e[k].op = "sub" => e[k].x \in failed'
      BY <2>1, <2>2, <2>4, <2>7, <3>2 DEF Covered
    <3>. QED BY <2>5, <2>7, <3>1, <3>2
  <2>. QED BY <1>1, <2>1, <2>5, <2>6, <2>7
<1>. QED BY <1>2, <1>3

\* enqueue_batches puts a set behind what is queued.
LEMMA Enqueued ==
  ASSUME NEW bs \in Seq(SUBSET Instruments), NEW S \in SUBSET Instruments
  PROVE  LET q == enqueue_batches(bs, S) IN
         /\ q \in Seq(SUBSET Instruments)
         /\ S # {} => q # <<>>
         /\ \A x : x \in S \/ InBatch(bs, x) => InBatch(q, x)
<1>. DEFINE b == make_batches(S)
            q == bs \o b
<1>1. b \in Seq(SUBSET Instruments) /\ (\A x \in S : InBatch(b, x)) /\ (S # {} => b # <<>>)
  BY Batches
<1>. HIDE DEF b
<1>2. q \in Seq(SUBSET Instruments) /\ Len(q) = Len(bs) + Len(b) /\ Len(bs) \in Nat /\ Len(b) \in Nat
      /\ (\A k \in 1 .. Len(bs) : q[k] = bs[k])
      /\ \A k \in 1 .. Len(b) : q[Len(bs) + k] = b[k]
  BY <1>1
<1>. HIDE DEF q
<1>3. \A k \in 1 .. Len(bs) : k \in 1 .. Len(q) BY <1>2
<1>4. \A k \in 1 .. Len(b) : Len(bs) + k \in 1 .. Len(q) BY <1>2
<1>5. \A x : x \in S \/ InBatch(bs, x) => InBatch(q, x)
  BY <1>1, <1>2, <1>3, <1>4 DEF InBatch
<1>6. S # {} => q # <<>>
  <2>1. SUFFICES ASSUME NEW x \in S, q = <<>> PROVE FALSE OBVIOUS
  <2>. QED BY <1>5, <2>1 DEF InBatch
<1>. QED BY <1>2, <1>5, <1>6 DEF enqueue_batches, q, b

-----------------------------------------------------------------------------
(* The steps.                                                              *)

\* An event of the SPI thread goes to the end of the queue.
LEMMA Queued ==
  ASSUME NEW q \in Seq(Events), NEW e \in Events
  PROVE  /\ Append(q, e) \in Seq(Events)
         /\ Cut(q) \/ e.type \in {"disc", "logout"} => Cut(Append(q, e))
         /\ Disc(q) \/ e.type = "disc" => Disc(Append(q, e))
<1>. DEFINE r == Append(q, e)
<1>1. r \in Seq(Events) /\ Len(r) = Len(q) + 1 /\ Len(q) \in Nat /\ r[Len(q) + 1] = e
      /\ \A k \in 1 .. Len(q) : r[k] = q[k]
  OBVIOUS
<1>. HIDE DEF r
<1>2. Len(q) + 1 \in 1 .. Len(r) /\ \A k \in 1 .. Len(q) : k \in 1 .. Len(r)
  BY <1>1
<1>3. Cut(q) \/ e.type \in {"disc", "logout"} => Cut(r)
  BY <1>1, <1>2 DEF Cut
<1>4. Disc(q) \/ e.type = "disc" => Disc(r)
  BY <1>1, <1>2 DEF Disc
<1>. QED BY <1>1, <1>3, <1>4 DEF r

\* The loop takes the oldest event.
LEMMA Dequeued ==
  ASSUME NEW q \in Seq(Events), q # <<>>
  PROVE  /\ Head(q) \in Events /\ Tail(q) \in Seq(Events)
         /\ Cut(q) => Cut(Tail(q)) \/ Head(q).type \in {"disc", "logout"}
         /\ Disc(q) => Disc(Tail(q)) \/ Head(q).type = "disc"
<1>. DEFINE r == Tail(q)
<1>1. r \in Seq(Events) /\ Head(q) \in Events /\ Head(q) = q[1] /\ Len(q) \in Nat
      /\ \A k \in 1 .. Len(q) : k > 1 => k - 1 \in 1 .. Len(r) /\ r[k - 1] = q[k]
  OBVIOUS
<1>. HIDE DEF r
<1>2. \A k \in 1 .. Len(q) : q[k] = Head(q) \/ \E j \in 1 .. Len(r) : r[j] = q[k]
  <2>. TAKE k \in 1 .. Len(q)
  <2>1. CASE k = 1 BY <1>1, <2>1
  <2>2. CASE k > 1 BY <1>1, <2>2
  <2>. QED BY <2>1, <2>2
<1>3. Cut(q) => Cut(r) \/ Head(q).type \in {"disc", "logout"}
  BY <1>2 DEF Cut
<1>4. Disc(q) => Disc(r) \/ Head(q).type = "disc"
  BY <1>2 DEF Disc
<1>. QED BY <1>1, <1>3, <1>4 DEF r

\* disconnect(): the gateway is Idle and nothing is requested any more.
LEMMA Disconnected ==
  ASSUME IInv, disconnect
  PROVE  /\ api' = FALSE /\ st' = "Idle" /\ conn_timer' = FALSE /\ login_timer' = FALSE
         /\ Lost(info') /\ batches' = <<>> /\ active' = FALSE /\ retry' = 0 /\ sub_timers' = <<>>
         /\ front' = "none" /\ session' = FALSE /\ served' = {} /\ wire' = <<>> /\ gaveUp' = {}
<1>1. TypeOK /\ TimerInv /\ info \in Maps
  BY DEF IInv, TypeOK, Maps
<1>2. batches' = <<>> /\ active' = FALSE /\ retry' = 0 /\ sub_timers' = <<>>
  BY <1>1, Cleared DEF disconnect
<1>3. Lost(info')
  BY <1>1, SessionLost DEF disconnect
<1>. QED BY <1>2, <1>3 DEF disconnect, sm_on_disconnect

\* The invariant in a state without a session.
LEMMA QuietNext ==
  ASSUME st' # "LoggedIn", Lost(info'), active' = FALSE, batches' = <<>>, sub_timers' = <<>>
  PROVE  (TimerInv /\ NothingForgotten /\ NoOrphans(info) /\ WantedInv)'
BY DEF TimerInv, NothingForgotten, NoOrphans, WantedInv, LoggedInFor, Lost, NonePending

\* Every step that calls disconnect() keeps the invariant.
LEMMA DisconnectedNext ==
  ASSUME IInv, disconnect,
         running' \in {"yes", "stopping"}, configured' = configured, events' = events,
         reqs' \in 0 .. MaxReqs, conns' \in 0 .. MaxConns, commands' \in 0 .. MaxCommands,
         faults' = faults, failed' = failed
  PROVE  IInv'
<1>1. /\ api' = FALSE /\ st' = "Idle" /\ conn_timer' = FALSE /\ login_timer' = FALSE
      /\ Lost(info') /\ batches' = <<>> /\ active' = FALSE /\ retry' = 0 /\ sub_timers' = <<>>
      /\ front' = "none" /\ session' = FALSE /\ served' = {} /\ wire' = <<>> /\ gaveUp' = {}
  BY Disconnected
<1>2. TypeOK'
  <2>1. configured' \in BOOLEAN /\ events' \in Seq(Events) /\ failed' \subseteq Instruments
        /\ faults' \in 0 .. MaxFaults
    BY DEF IInv, TypeOK
  <2>2. info' \in Infos(Instruments, Strategies) BY <1>1 DEF Lost, Maps
  <2>3. retry' \in 0 .. sub_max_retry BY <1>1, BoundAssumption
  <2>4. /\ batches' \in Seq(SUBSET Instruments) /\ wire' \in Seq(Reqs)
        /\ sub_timers' \in Seq([kind : {"send", "check"}, fresh : BOOLEAN])
        /\ st' \in States /\ front' \in {"none", "down", "up"} /\ running' \in {"yes", "stopping", "exited"}
        /\ served' \subseteq Instruments /\ gaveUp' \subseteq Instruments
    BY <1>1 DEF States
  <2>5. api' \in BOOLEAN /\ active' \in BOOLEAN /\ conn_timer' \in BOOLEAN
        /\ login_timer' \in BOOLEAN /\ session' \in BOOLEAN
    BY <1>1
  <2>. QED BY <2>1, <2>2, <2>3, <2>4, <2>5 DEF TypeOK
<1>3. (TimerInv /\ NothingForgotten /\ NoOrphans(info) /\ WantedInv)'
  BY <1>1, QuietNext
<1>4. AttemptsEnd' /\ LinkInv'
  BY <1>1 DEF AttemptsEnd, LinkInv, Listening
<1>. QED BY <1>2, <1>3, <1>4 DEF IInv

\* A disconnect of the user or of the schedule, a shutdown, a connect timeout.
LEMMA DisconnectSteps ==
  ASSUME IInv, handle_disconnect \/ handle_shutdown \/ connect_timeout
               \/ (on_sched_timer("Logout") /\ disconnect)
  PROVE  IInv'
<1>0. /\ reqs \in 0 .. MaxReqs /\ conns \in 0 .. MaxConns /\ commands \in 0 .. MaxCommands
      /\ MaxCommands \in Nat
  BY BoundAssumption DEF IInv, TypeOK
<1>1. CASE handle_disconnect
  <2>1. disconnect /\ running' = running /\ configured' = configured /\ events' = events
        /\ reqs' = reqs /\ conns' = conns /\ commands' \in 0 .. MaxCommands
        /\ faults' = faults /\ failed' = failed /\ running \in {"yes", "stopping"}
    BY <1>0, <1>1 DEF handle_disconnect, Command, Listening, fault, IInv, TypeOK
  <2>. QED BY <1>0, <2>1, DisconnectedNext
<1>2. CASE on_sched_timer("Logout") /\ disconnect
  <2>1. disconnect /\ running' = running /\ configured' = configured /\ events' = events
        /\ reqs' = reqs /\ conns' = conns /\ commands' \in 0 .. MaxCommands
        /\ faults' = faults /\ failed' = failed /\ running \in {"yes", "stopping"}
    BY <1>0, <1>2 DEF on_sched_timer, Command, Listening, fault, IInv, TypeOK
  <2>. QED BY <1>0, <2>1, DisconnectedNext
<1>3. CASE handle_shutdown
  <2>1. running' = "stopping" /\ configured' = configured /\ events' = events /\ running = "yes"
        /\ reqs' = reqs /\ conns' = conns /\ commands' = commands
        /\ faults' = faults /\ failed' = failed
    BY <1>3 DEF handle_shutdown, bounds, fault
  <2>2. CASE disconnect BY <1>0, <2>1, <2>2, DisconnectedNext
  <2>3. CASE ~api /\ UNCHANGED <<st, api, info, batches, active, retry, sub_timers, conn_timer,
                         login_timer, ctp, wire, gaveUp>>
    <3>1. TypeOK'
      BY <2>1, <2>3 DEF IInv, TypeOK, ctp
    <3>2. TimerInv' /\ NothingForgotten' /\ AttemptsEnd' /\ NoOrphans(info)'
      BY <2>1, <2>3 DEF IInv, TimerInv, NothingForgotten, AttemptsEnd, NoOrphans, Listening, NonePending
    <3>3. LinkInv' /\ WantedInv'
      BY <2>1, <2>3 DEF IInv, LinkInv, WantedInv, Listening, LoggedInFor, ctp
    <3>. QED BY <3>1, <3>2, <3>3 DEF IInv
  <2>. QED BY <1>3, <2>2, <2>3 DEF handle_shutdown
<1>4. CASE connect_timeout
  <2>1. running' = running /\ configured' = configured /\ events' = events /\ running = "yes"
        /\ reqs' = reqs /\ conns' = conns /\ commands' = commands
        /\ faults' = faults /\ failed' = failed
    BY <1>4 DEF connect_timeout, bounds, fault
  <2>2. CASE disconnect BY <1>0, <2>1, <2>2, DisconnectedNext
  <2>3. CASE /\ sm_on_connect_timeout(st) = st /\ conn_timer' = FALSE
             /\ UNCHANGED <<st, api, login_timer, info, batches, active, retry, sub_timers, ctp,
                            wire, gaveUp>>
    <3>0. st # "Connecting" BY <2>3 DEF sm_on_connect_timeout, Step
    <3>1. TypeOK'
      BY <2>1, <2>3 DEF IInv, TypeOK, ctp
    <3>2. TimerInv' /\ NothingForgotten' /\ AttemptsEnd' /\ NoOrphans(info)'
      BY <3>0, <2>1, <2>3 DEF IInv, TimerInv, NothingForgotten, AttemptsEnd, NoOrphans, Listening, NonePending
    <3>3. LinkInv' /\ WantedInv'
      BY <2>1, <2>3 DEF IInv, LinkInv, WantedInv, Listening, LoggedInFor, ctp
    <3>. QED BY <3>1, <3>2, <3>3 DEF IInv
  <2>. QED BY <1>4, <2>2, <2>3 DEF connect_timeout
<1>. QED BY <1>1, <1>2, <1>3, <1>4

\* A change of the connection settings.
LEMMA ConfigStep ==
  ASSUME IInv, apply_config_change
  PROVE  IInv'
<1>1. TypeOK'
  BY BoundAssumption DEF IInv, TypeOK, apply_config_change, ctp, fault, Command
<1>2. TimerInv' /\ NothingForgotten' /\ AttemptsEnd' /\ NoOrphans(info)'
  BY DEF IInv, TimerInv, NothingForgotten, AttemptsEnd, NoOrphans, Listening, NonePending, apply_config_change
<1>3. LinkInv' /\ WantedInv'
  BY DEF IInv, LinkInv, WantedInv, Listening, LoggedInFor, ctp, fault, apply_config_change
<1>. QED BY <1>1, <1>2, <1>3 DEF IInv

\* The login timeout.
LEMMA LoginTimeoutStep ==
  ASSUME IInv, login_timeout
  PROVE  IInv'
<1>1. TypeOK'
  BY BoundAssumption DEF IInv, TypeOK, login_timeout, ctp, bounds, fault, sm_on_login_failed, Step, States
<1>2. TimerInv' /\ NothingForgotten' /\ AttemptsEnd' /\ NoOrphans(info)'
  BY DEF IInv, TimerInv, NothingForgotten, AttemptsEnd, NoOrphans, Listening, NonePending, login_timeout,
     sm_on_login_failed, Step
<1>3. LinkInv' /\ WantedInv'
  BY DEF IInv, LinkInv, WantedInv, Listening, LoggedInFor, ctp, fault, bounds, login_timeout,
     sm_on_login_failed, Step
<1>. QED BY <1>1, <1>2, <1>3 DEF IInv

\* The end of run().
LEMMA ExitStep ==
  ASSUME IInv, Exit
  PROVE  IInv'
<1>1. TypeOK'
  <2>1. api' \in BOOLEAN /\ login_timer' \in BOOLEAN /\ session' \in BOOLEAN
    BY DEF Exit
  <2>2. configured' \in BOOLEAN /\ active' \in BOOLEAN /\ conn_timer' \in BOOLEAN
    BY DEF IInv, TypeOK, Exit
  <2>3. /\ running' \in {"yes", "stopping", "exited"} /\ events' \in Seq(Events) /\ wire' \in Seq(Reqs)
        /\ front' \in {"none", "down", "up"} /\ served' \subseteq Instruments
    BY DEF Exit
  <2>. QED BY <2>1, <2>2, <2>3 DEF IInv, TypeOK, Exit, bounds, fault
<1>2. TimerInv' /\ NothingForgotten' /\ AttemptsEnd' /\ NoOrphans(info)'
  BY DEF IInv, TimerInv, NothingForgotten, AttemptsEnd, NoOrphans, Listening, NonePending, Exit
<1>3. LinkInv' /\ WantedInv'
  BY DEF IInv, LinkInv, WantedInv, Listening, LoggedInFor, Exit
<1>. QED BY <1>1, <1>2, <1>3 DEF IInv

\* The link comes up or goes down, or the front ends the session.
LEMMA LinkStep ==
  ASSUME IInv, OnFrontConnected \/ OnFrontDisconnected \/ OnRspUserLogout
  PROVE  IInv'
<1>. USE DEF gateway, ctp, fault, bounds
<1>0. events \in Seq(Events) /\ MaxConns \in Nat /\ MaxFaults \in Nat
      /\ conns \in 0 .. MaxConns /\ faults \in 0 .. MaxFaults /\ failed \subseteq Instruments
  BY BoundAssumption DEF IInv, TypeOK
<1>1. CASE OnFrontConnected
  <2>1. [type |-> "conn"] \in Events BY DEF Events
  <2>2. events' \in Seq(Events) /\ (Cut(events) => Cut(events')) /\ (Disc(events) => Disc(events'))
    BY <1>0, <1>1, <2>1, Queued DEF OnFrontConnected, Push
  <2>3. TypeOK'
    BY <1>0, <1>1, <2>2 DEF IInv, TypeOK, OnFrontConnected
  <2>4. TimerInv' /\ NothingForgotten' /\ AttemptsEnd' /\ NoOrphans(info)'
    BY <1>1 DEF IInv, TimerInv, NothingForgotten, AttemptsEnd, NoOrphans, Listening, NonePending, OnFrontConnected
  <2>5. LinkInv' /\ WantedInv'
    BY <1>1, <2>2 DEF IInv, LinkInv, WantedInv, Listening, LoggedInFor, OnFrontConnected
  <2>. QED BY <2>3, <2>4, <2>5 DEF IInv
<1>2. CASE OnFrontDisconnected
  <2>1. [type |-> "disc"] \in Events BY DEF Events
  <2>2. events' \in Seq(Events) /\ Cut(events') /\ Disc(events')
    BY <1>0, <1>2, <2>1, Queued DEF OnFrontDisconnected, Push
  <2>3. TypeOK'
    <3>1. session' \in BOOLEAN BY <1>2 DEF OnFrontDisconnected
    <3>2. front' \in {"none", "down", "up"} /\ served' \subseteq Instruments /\ wire' \in Seq(Reqs)
      BY <1>2 DEF OnFrontDisconnected
    <3>. QED BY <1>2, <2>2, <3>1, <3>2 DEF IInv, TypeOK, OnFrontDisconnected
  <2>4. TimerInv' /\ NothingForgotten' /\ AttemptsEnd' /\ NoOrphans(info)'
    BY <1>2 DEF IInv, TimerInv, NothingForgotten, AttemptsEnd, NoOrphans, Listening, NonePending, OnFrontDisconnected
  <2>5. LinkInv' /\ WantedInv'
    BY <1>2, <2>2 DEF IInv, LinkInv, WantedInv, Listening, LoggedInFor, OnFrontDisconnected
  <2>. QED BY <2>3, <2>4, <2>5 DEF IInv
<1>3. CASE OnRspUserLogout
  <2>1. [type |-> "logout"] \in Events BY DEF Events
  <2>2. events' \in Seq(Events) /\ Cut(events') /\ (Disc(events) => Disc(events'))
    BY <1>0, <1>3, <2>1, Queued DEF OnRspUserLogout, Push
  <2>3. TypeOK'
    <3>1. session' \in BOOLEAN BY <1>3 DEF OnRspUserLogout
    <3>2. faults' \in 0 .. MaxFaults /\ failed' \subseteq Instruments /\ served' \subseteq Instruments
      BY <1>0, <1>3 DEF OnRspUserLogout, Fault, FaultFor
    <3>. QED BY <1>3, <2>2, <3>1, <3>2 DEF IInv, TypeOK, OnRspUserLogout
  <2>4. TimerInv' /\ NothingForgotten' /\ AttemptsEnd' /\ NoOrphans(info)'
    BY <1>3 DEF IInv, TimerInv, NothingForgotten, AttemptsEnd, NoOrphans, Listening, NonePending, OnRspUserLogout
  <2>5. LinkInv' /\ WantedInv'
    BY <1>3, <2>2 DEF IInv, LinkInv, WantedInv, Listening, LoggedInFor, OnRspUserLogout
  <2>. QED BY <2>3, <2>4, <2>5 DEF IInv
<1>. QED BY <1>1, <1>2, <1>3

\* req_user_login: a login on the wire of a link that is up, or nothing.
LEMMA LoginAsked ==
  ASSUME TypeOK, NEW s, req_user_login(s)
  PROVE  \/ /\ api /\ s \in LoginStates /\ configured /\ front = "up"
            /\ wire' \in Seq(Reqs) /\ st' = "LoggingIn" /\ login_timer' = TRUE
            /\ faults' = faults /\ failed' = failed
         \/ /\ st' = s /\ wire' = wire /\ login_timer' = login_timer
            /\ faults' \in 0 .. MaxFaults /\ failed' = failed
<1>0. /\ wire \in Seq(Reqs) /\ faults \in 0 .. MaxFaults /\ MaxFaults \in Nat
      /\ [op |-> "login"] \in Reqs
  BY BoundAssumption DEF TypeOK, Reqs
<1>. QED BY <1>0 DEF req_user_login, can_login, sm_on_req_login, Step, Fault, FaultFor, fault

\* connect(): from handle_connect or the schedule.
LEMMA ConnectStep ==
  ASSUME IInv, connect, Listening, commands' \in 0 .. MaxCommands,
         UNCHANGED <<running, configured, info, batches, active, retry, sub_timers, events,
                     session, served, gaveUp, reqs, conns>>
  PROVE  IInv'
<1>0. TypeOK /\ api \in BOOLEAN /\ login_timer \in BOOLEAN /\ conn_timer \in BOOLEAN BY DEF IInv, TypeOK
<1>1. CASE can_login(st) /\ req_user_login(st) /\ UNCHANGED <<api, front, conn_timer>>
  <2>1. \/ /\ api /\ st \in LoginStates /\ configured /\ front = "up"
           /\ wire' \in Seq(Reqs) /\ st' = "LoggingIn" /\ login_timer' = TRUE
           /\ faults' = faults /\ failed' = failed
        \/ /\ st' = st /\ wire' = wire /\ login_timer' = login_timer
           /\ faults' \in 0 .. MaxFaults /\ failed' = failed
    BY <1>0, <1>1, LoginAsked
  <2>2. TypeOK'
    <3>1. login_timer' \in BOOLEAN BY <1>0, <2>1
    <3>. QED BY <1>1, <2>1, <3>1 DEF IInv, TypeOK, States
  <2>3. TimerInv' /\ NothingForgotten' /\ NoOrphans(info)'
    BY <1>1, <2>1 DEF IInv, TimerInv, NothingForgotten, NoOrphans, NonePending, can_login, LoginStates
  <2>4. AttemptsEnd'
    BY <1>1, <2>1 DEF IInv, AttemptsEnd, Listening, LoginStates
  <2>5. LinkInv' /\ WantedInv'
    BY <1>1, <2>1 DEF IInv, LinkInv, WantedInv, Listening, LoggedInFor, can_login, LoginStates
  <2>. QED BY <2>2, <2>3, <2>4, <2>5 DEF IInv
<1>2. CASE CreateApi
  <2>1. /\ st = "Idle" /\ configured /\ api' = TRUE /\ front' = "down" /\ st' = "Connecting"
        /\ conn_timer' = TRUE /\ login_timer' = login_timer /\ wire' = wire /\ faults' = faults
        /\ failed' = failed
    BY <1>2 DEF CreateApi, sm_on_connect, Step, fault
  <2>2. TypeOK'
    BY <2>1 DEF IInv, TypeOK, States
  <2>3. TimerInv' /\ NothingForgotten' /\ NoOrphans(info)'
    BY <2>1 DEF IInv, TimerInv, NothingForgotten, NoOrphans, NonePending
  <2>4. AttemptsEnd'
    BY <2>1 DEF IInv, AttemptsEnd, Listening
  <2>5. LinkInv' /\ WantedInv'
    BY <2>1 DEF IInv, LinkInv, WantedInv, Listening, LoggedInFor
  <2>. QED BY <2>2, <2>3, <2>4, <2>5 DEF IInv
<1>. QED BY <1>1, <1>2 DEF connect

\* connect() from the user, and the minutes of the schedule.
LEMMA CommandSteps ==
  ASSUME IInv, handle_connect \/ \E a \in {"Login", "Logout"} : on_sched_timer(a)
  PROVE  IInv'
<1>0. commands \in 0 .. MaxCommands /\ MaxCommands \in Nat
  BY BoundAssumption DEF IInv, TypeOK
<1>1. CASE handle_connect
  <2>1. commands' \in 0 .. MaxCommands BY <1>0, <1>1 DEF handle_connect, Command
  <2>. QED BY <1>1, <2>1, ConnectStep DEF handle_connect, Command
<1>2. CASE on_sched_timer("Login")
  <2>1. commands' \in 0 .. MaxCommands BY <1>0, <1>2 DEF on_sched_timer, Command
  <2>. QED BY <1>2, <2>1, ConnectStep DEF on_sched_timer, Command
<1>3. CASE on_sched_timer("Logout")
  <2>1. disconnect BY <1>3 DEF on_sched_timer
  <2>. QED BY <1>3, <2>1, DisconnectSteps
<1>. QED BY <1>1, <1>2, <1>3

\* What the queue loses when the loop takes an event from it.
Taken == /\ Listening /\ events # <<>> /\ events' = Tail(events)
         /\ UNCHANGED <<running, configured, ctp, reqs, conns, commands>>

\* What is left in the queue.
LEMMA TakenFacts ==
  ASSUME IInv, Taken
  PROVE  /\ Head(events) \in Events /\ events' \in Seq(Events)
         /\ Cut(events) => Cut(events') \/ Head(events).type \in {"disc", "logout"}
         /\ Disc(events) => Disc(events') \/ Head(events).type = "disc"
<1>1. events \in Seq(Events) /\ events # <<>> BY DEF IInv, TypeOK, Taken
<1>. QED BY <1>1, Dequeued DEF Taken

\* OnFrontConnected is handled.
LEMMA FrontConnectedStep ==
  ASSUME IInv, Taken, Head(events).type = "conn", on_front_connected
  PROVE  IInv'
<1>. DEFINE s == sm_on_front_connected(st)
<1>. USE DEF ctp
<1>0. TypeOK /\ st \in States /\ login_timer \in BOOLEAN BY DEF IInv, TypeOK
<1>1. /\ events' \in Seq(Events) /\ (Cut(events) => Cut(events')) /\ (Disc(events) => Disc(events'))
  BY TakenFacts
<1>2. s \in States /\ s # "Connecting" /\ (s = st \/ (s = "Connected" /\ st \in {"Connecting", "Disconnected"}))
  BY <1>0 DEF sm_on_front_connected, Step, States
<1>3. \/ /\ api /\ s \in LoginStates /\ configured /\ front = "up"
         /\ wire' \in Seq(Reqs) /\ st' = "LoggingIn" /\ login_timer' = TRUE
         /\ faults' = faults /\ failed' = failed
      \/ /\ st' = s /\ wire' = wire /\ login_timer' = login_timer
         /\ faults' \in 0 .. MaxFaults /\ failed' = failed
  <2>1. req_user_login(s) BY DEF on_front_connected
  <2>. HIDE DEF s
  <2>. QED BY <1>0, <2>1, LoginAsked
<1>. HIDE DEF s
<1>4. /\ conn_timer' = FALSE /\ UNCHANGED <<api, info, batches, active, retry, sub_timers, gaveUp>>
  BY DEF on_front_connected
<1>5. TypeOK'
  <2>1. login_timer' \in BOOLEAN BY <1>0, <1>3
  <2>2. st' \in States BY <1>2, <1>3 DEF States
  <2>3. /\ wire' \in Seq(Reqs) /\ faults' \in 0 .. MaxFaults BY <1>3 DEF IInv, TypeOK
  <2>. QED BY <1>1, <1>3, <1>4, <2>1, <2>2, <2>3 DEF IInv, TypeOK, Taken
<1>6. TimerInv' /\ NothingForgotten' /\ NoOrphans(info)'
  BY <1>2, <1>3, <1>4 DEF IInv, TimerInv, NothingForgotten, NoOrphans, NonePending, LoginStates
<1>7. AttemptsEnd'
  BY <1>2, <1>3, <1>4 DEF IInv, AttemptsEnd, Listening, LoginStates, Taken
<1>8. LinkInv' /\ WantedInv'
  BY <1>1, <1>2, <1>3, <1>4 DEF IInv, LinkInv, WantedInv, Listening, LoggedInFor, LoginStates, Taken
<1>. QED BY <1>5, <1>6, <1>7, <1>8 DEF IInv

\* OnFrontDisconnected is handled.
LEMMA FrontDisconnectedStep ==
  ASSUME IInv, Taken, on_front_disconnected
  PROVE  IInv'
<1>. USE DEF ctp
<1>0. TypeOK /\ TimerInv /\ st \in States /\ info \in Maps
  BY DEF IInv, TypeOK, Maps
<1>1. events' \in Seq(Events)
  BY TakenFacts
<1>2. batches' = <<>> /\ active' = FALSE /\ retry' = 0 /\ sub_timers' = <<>>
  BY <1>0, Cleared DEF on_front_disconnected
<1>3. Lost(info')
  BY <1>0, SessionLost DEF on_front_disconnected
<1>4. /\ UNCHANGED <<api, wire, faults, failed>> /\ gaveUp' = {}
      /\ login_timer' = FALSE /\ conn_timer' = FALSE
      /\ st' \in {"Idle", "Disconnected"} /\ (st' = "Idle" <=> st = "Idle")
  BY <1>0 DEF on_front_disconnected, fault, sm_on_front_disconnected, Step, States
<1>5. TypeOK'
  <2>1. login_timer' \in BOOLEAN /\ conn_timer' \in BOOLEAN /\ active' \in BOOLEAN
    BY <1>2, <1>4
  <2>2. /\ st' \in States /\ batches' \in Seq(SUBSET Instruments) /\ retry' \in 0 .. sub_max_retry
        /\ sub_timers' \in Seq([kind : {"send", "check"}, fresh : BOOLEAN])
        /\ info' \in Infos(Instruments, Strategies) /\ gaveUp' \subseteq Instruments
    BY <1>2, <1>3, <1>4, BoundAssumption DEF States, Lost, Maps
  <2>. QED BY <1>1, <1>4, <2>1, <2>2 DEF IInv, TypeOK, Taken
<1>6. (TimerInv /\ NothingForgotten /\ NoOrphans(info) /\ WantedInv)'
  BY <1>2, <1>3, <1>4, QuietNext
<1>7. AttemptsEnd' /\ LinkInv'
  BY <1>4 DEF IInv, AttemptsEnd, LinkInv, Listening, Taken
<1>. QED BY <1>5, <1>6, <1>7 DEF IInv

\* The logout of the server is handled.
LEMMA LogoutStep ==
  ASSUME IInv, Taken, Head(events).type = "logout", on_rsp_user_logout
  PROVE  IInv'
<1>. USE DEF ctp
<1>0. TypeOK /\ TimerInv /\ st \in States /\ info \in Maps
  BY DEF IInv, TypeOK, Maps
<1>1. events' \in Seq(Events) /\ (Disc(events) => Disc(events'))
  BY TakenFacts
<1>2. batches' = <<>> /\ active' = FALSE /\ retry' = 0 /\ sub_timers' = <<>>
  BY <1>0, Cleared DEF on_rsp_user_logout
<1>3. Lost(info')
  BY <1>0, SessionLost DEF on_rsp_user_logout
<1>4. /\ UNCHANGED <<api, wire, faults, failed, conn_timer, login_timer>> /\ gaveUp' = {}
      /\ st' = (IF st = "LoggedIn" THEN "Connected" ELSE st)
  BY <1>0 DEF on_rsp_user_logout, fault, sm_on_server_logout, Step
<1>5. TypeOK'
  <2>1. active' \in BOOLEAN
    BY <1>2
  <2>2. /\ st' \in States /\ batches' \in Seq(SUBSET Instruments) /\ retry' \in 0 .. sub_max_retry
        /\ sub_timers' \in Seq([kind : {"send", "check"}, fresh : BOOLEAN])
        /\ info' \in Infos(Instruments, Strategies) /\ gaveUp' \subseteq Instruments
    BY <1>0, <1>2, <1>3, <1>4, BoundAssumption DEF States, Lost, Maps
  <2>. QED BY <1>1, <1>4, <2>1, <2>2 DEF IInv, TypeOK, Taken
<1>6. (TimerInv /\ NothingForgotten /\ NoOrphans(info) /\ WantedInv)'
  <2>1. st' # "LoggedIn" BY <1>4
  <2>. QED BY <1>2, <1>3, <2>1, QuietNext
<1>7. AttemptsEnd' /\ LinkInv'
  BY <1>1, <1>4 DEF IInv, AttemptsEnd, LinkInv, Listening, Taken
<1>. QED BY <1>5, <1>6, <1>7 DEF IInv

\* A login that is answered: everything wanted is asked for again.
LEMMA LoginStep ==
  ASSUME IInv, Taken, Head(events).type = "login", on_rsp_user_login(Head(events).ok)
  PROVE  IInv'
<1>. USE DEF ctp, fault
<1>0. TypeOK /\ TimerInv /\ st \in States /\ info \in Maps
  BY DEF IInv, TypeOK, Maps
<1>1. /\ events' \in Seq(Events) /\ (Cut(events) => Cut(events')) /\ (Disc(events) => Disc(events'))
  BY TakenFacts
<1>2. CASE UNCHANGED <<st, login_timer, info, batches, active, retry, sub_timers, gaveUp, api,
                      conn_timer, wire, fault>>
  <2>1. TypeOK'
    BY <1>1, <1>2 DEF IInv, TypeOK, Taken
  <2>2. TimerInv' /\ NothingForgotten' /\ AttemptsEnd' /\ NoOrphans(info)'
    BY <1>2 DEF IInv, TimerInv, NothingForgotten, AttemptsEnd, NoOrphans, Listening, NonePending, Taken
  <2>3. LinkInv' /\ WantedInv'
    BY <1>1, <1>2 DEF IInv, LinkInv, WantedInv, Listening, LoggedInFor, Taken
  <2>. QED BY <2>1, <2>2, <2>3 DEF IInv
<1>3. CASE /\ st = "LoggingIn" /\ st' = sm_on_login_failed(st) /\ login_timer' = FALSE
           /\ UNCHANGED <<info, batches, active, retry, sub_timers, gaveUp, api, conn_timer, wire,
                          fault>>
  <2>0. st' = "LoginFailed" BY <1>3 DEF sm_on_login_failed, Step
  <2>1. TypeOK'
    BY <1>1, <1>3, <2>0 DEF IInv, TypeOK, Taken, States
  <2>2. TimerInv' /\ NothingForgotten' /\ AttemptsEnd' /\ NoOrphans(info)'
    BY <1>3, <2>0 DEF IInv, TimerInv, NothingForgotten, AttemptsEnd, NoOrphans, Listening, NonePending, Taken
  <2>3. LinkInv' /\ WantedInv'
    BY <1>1, <1>3, <2>0 DEF IInv, LinkInv, WantedInv, Listening, LoggedInFor, Taken
  <2>. QED BY <2>1, <2>2, <2>3 DEF IInv
<1>4. CASE /\ st = "LoggingIn" /\ st' = sm_on_login_success(st) /\ login_timer' = FALSE
           /\ LET m    == on_logged_in(info)
                  resu == to_resubscribe(m)
                  ts   == CancelledTimers(sub_timers)
              IN  /\ retry' = 0
                  /\ IF resu = {}
                     THEN /\ info' = m /\ batches' = <<>> /\ active' = FALSE /\ sub_timers' = ts
                          /\ UNCHANGED <<wire, fault>>
                     ELSE /\ info' = mark_pending(m, resu) /\ active' = TRUE
                          /\ send_next_batch(enqueue_batches(<<>>, resu), ts)
           /\ gaveUp' = {}
           /\ UNCHANGED <<api, conn_timer>>
  <2>. DEFINE m    == on_logged_in(info)
              resu == to_resubscribe(m)
              ts   == CancelledTimers(sub_timers)
  <2>0. st' = "LoggedIn" /\ ~active /\ sub_timers = <<>>
    BY <1>4 DEF IInv, TimerInv, sm_on_login_success, Step
  <2>1. ts = <<>>
    <3>1. sub_timers \in Seq(Timers) /\ Len(sub_timers) <= 1 BY <1>0, <2>0 DEF TypeOK, Timers
    <3>. QED BY <3>1, Cancelled DEF Timers
  <2>2. /\ Lost(m) /\ resu \in SUBSET Instruments
        /\ resu = {x \in DOMAIN m : m[x].subscribers # {}}
    BY <1>0, LoggedIn
  <2>3. /\ login_timer' = FALSE /\ retry' = 0 /\ gaveUp' = {} /\ UNCHANGED <<api, conn_timer>>
        /\ \/ /\ resu = {} /\ info' = m /\ batches' = <<>> /\ active' = FALSE /\ sub_timers' = ts
              /\ UNCHANGED <<wire, fault>>
           \/ /\ resu # {} /\ info' = mark_pending(m, resu) /\ active' = TRUE
              /\ send_next_batch(enqueue_batches(<<>>, resu), ts)
    BY <1>4
  <2>. HIDE DEF m, resu, ts
  <2>4. AttemptsEnd' /\ LinkInv'
    BY <1>1, <1>4, <2>0, <2>3 DEF IInv, AttemptsEnd, LinkInv, Listening, Taken
  <2>5. login_timer' \in BOOLEAN /\ active' \in BOOLEAN /\ st' \in States
        /\ retry' \in 0 .. sub_max_retry /\ gaveUp' \subseteq Instruments
    <3>1. login_timer' \in BOOLEAN BY <2>3
    <3>2. active' \in BOOLEAN BY <2>3
    <3>. QED BY <2>0, <2>3, <3>1, <3>2, BoundAssumption DEF States
  <2>6. CASE /\ resu = {} /\ info' = m /\ batches' = <<>> /\ active' = FALSE /\ sub_timers' = ts
             /\ UNCHANGED <<wire, fault>>
    <3>1. TypeOK'
      <4>1. /\ batches' \in Seq(SUBSET Instruments)
            /\ sub_timers' \in Seq([kind : {"send", "check"}, fresh : BOOLEAN])
            /\ info' \in Infos(Instruments, Strategies)
        BY <2>1, <2>2, <2>6 DEF Lost, Maps
      <4>. QED BY <1>1, <2>3, <2>5, <2>6, <4>1 DEF IInv, TypeOK, Taken
    <3>2. TimerInv' /\ NothingForgotten' /\ NoOrphans(info)' /\ WantedInv'
      <4>1. \A x \in DOMAIN m : m[x].state = "NotRequested" /\ m[x].subscribers = {}
        BY <2>2, <2>6 DEF Lost
      <4>. QED BY <2>0, <2>1, <2>6, <4>1 DEF TimerInv, NothingForgotten, NoOrphans, NonePending, WantedInv, Kept
    <3>. QED BY <2>4, <3>1, <3>2 DEF IInv
  <2>7. CASE /\ resu # {} /\ info' = mark_pending(m, resu) /\ active' = TRUE
             /\ send_next_batch(enqueue_batches(<<>>, resu), ts)
    <3>. DEFINE bs == enqueue_batches(<<>>, resu)
                n == mark_pending(m, resu)
    <3>1. bs \in Seq(SUBSET Instruments) /\ \A x \in resu : InBatch(bs, x)
      <4>1. <<>> \in Seq(SUBSET Instruments) OBVIOUS
      <4>. QED BY <2>2, <4>1, Enqueued
    <3>. HIDE DEF bs
    <3>2. send_next_batch(bs, <<>>) BY <2>1, <2>7 DEF bs
    <3>3. /\ wire' \in Seq(Reqs) /\ faults' \in 0 .. MaxFaults /\ failed' \subseteq Instruments
          /\ failed \subseteq failed'
          /\ batches' \in Seq(SUBSET Instruments) 
          /\ sub_timers' \in Seq(Timers) /\ Len(sub_timers') = 1 /\ sub_timers'[1].fresh = TRUE
          /\ HasLogin(wire') => HasLogin(wire)
          /\ front = "up" => 
               \A sv : \A x : Covered(bs, wire, sv, x) => x \in failed' \/ Covered(batches', wire', sv, x)
      BY <1>0, <3>1, <3>2, Sent
    <3>4. /\ n \in Maps /\ DOMAIN n = DOMAIN m
          /\ \A x \in DOMAIN m : /\ n[x].subscribers = m[x].subscribers
                                 /\ n[x].state = IF x \in resu THEN "Pending" ELSE m[x].state
      <4>1. m \in Maps BY <2>2 DEF Lost
      <4>. QED BY <4>1, WithStateIs DEF mark_pending, SubState
    <3>. HIDE DEF n
    <3>5. info' = n BY <2>7 DEF n
    <3>6. \A x \in DOMAIN n : n[x].state \in {"NotRequested", "Pending"}
                /\ (n[x].subscribers # {} => x \in resu /\ n[x].state = "Pending")
      BY <2>2, <3>4 DEF Lost
    <3>7. TypeOK'
      BY <1>1, <2>3, <2>5, <3>3, <3>4, <3>5 DEF IInv, TypeOK, Taken, Maps, Timers
    <3>8. TimerInv' /\ NothingForgotten' /\ NoOrphans(info)'
      BY <2>0, <2>7, <3>3, <3>5, <3>6 DEF TimerInv, NothingForgotten, NoOrphans
    <3>9. WantedInv'
      <4>1. SUFFICES ASSUME LoggedInFor(wire)', NEW x \in DOMAIN n, x \notin failed', n[x].subscribers # {}
                     PROVE  Covered(batches', wire', served', x)
        BY <3>5 DEF WantedInv, Kept
      <4>2. front = "up" 
        <5>1. ~Disc(events')
          BY <4>1 DEF LoggedInFor, Cut, Disc
        <5>. QED BY <1>1, <1>4, <5>1 DEF IInv, LinkInv, Taken
      <4>3. Covered(bs, wire, served, x) BY <3>1, <3>6, <4>1 DEF Covered
      <4>. QED BY <3>3, <4>1, <4>2, <4>3 DEF Taken
    <3>. QED BY <2>4, <3>7, <3>8, <3>9 DEF IInv
  <2>. QED BY <2>3, <2>6, <2>7
<1>. QED BY <1>2, <1>3, <1>4 DEF on_rsp_user_login

\* An answer to a subscribe or an unsubscribe request.
LEMMA MilderNext ==
  ASSUME IInv, Taken, Head(events).type \in {"sub", "unsub"}, Milder(info, info'),
         UNCHANGED <<st, api, batches, active, retry, sub_timers, conn_timer, login_timer, gaveUp>>,
         wire' \in Seq(Reqs), faults' \in 0 .. MaxFaults, failed' \subseteq Instruments,
         failed \subseteq failed', HasLogin(wire') => HasLogin(wire),
         \A x \in DOMAIN info : info[x].subscribers # {} /\ Covered(batches, wire, served, x)
                                   => Covered(batches, wire', served, x)
  PROVE  IInv'
<1>. USE DEF ctp
<1>1. /\ events' \in Seq(Events) /\ (Cut(events) => Cut(events')) /\ (Disc(events) => Disc(events'))
  BY TakenFacts
<1>2. info' \in Maps BY DEF Milder
<1>3. TypeOK'
  BY <1>1, <1>2 DEF IInv, TypeOK, Taken, Maps
<1>4. TimerInv' /\ NothingForgotten' /\ NoOrphans(info)'
  BY DEF IInv, TimerInv, NothingForgotten, Milder, NonePending
<1>5. AttemptsEnd' /\ LinkInv'
  BY <1>1 DEF IInv, AttemptsEnd, LinkInv, Listening, Taken
<1>6. WantedInv'
  <2>1. SUFFICES ASSUME LoggedInFor(wire)', NEW x \in DOMAIN info', x \notin failed', info'[x].subscribers # {}
                 PROVE  Covered(batches', wire', served', x)
    BY DEF WantedInv, Kept
  <2>2. LoggedInFor(wire) BY <1>1, <2>1 DEF LoggedInFor, Listening, Taken
  <2>3. x \in DOMAIN info /\ info[x].subscribers # {} BY <2>1 DEF Milder
  <2>4. Covered(batches, wire, served, x) BY <2>1, <2>2, <2>3 DEF IInv, WantedInv, Kept
  <2>5. Covered(batches, wire', served, x) BY <2>3, <2>4
  <2>. QED BY <2>5 DEF Taken
<1>. QED BY <1>3, <1>4, <1>5, <1>6 DEF IInv

\* The answer to a subscription is handled.
LEMMA SubAnswerStep ==
  ASSUME IInv, Taken, Head(events).type = "sub",
         on_rsp_sub_market_data(Head(events).x, Head(events).ok)
  PROVE  IInv'
<1>. DEFINE x == Head(events).x
            ok == Head(events).ok
<1>0. TypeOK /\ NoOrphans(info) /\ info \in Maps /\ wire \in Seq(Reqs) /\ faults \in 0 .. MaxFaults
      /\ failed \subseteq Instruments
  BY DEF IInv, TypeOK, Maps
<1>1. UNCHANGED <<st, api, batches, active, retry, sub_timers, conn_timer, login_timer, gaveUp>>
  BY DEF on_rsp_sub_market_data
<1>2. Milder(info, info')
  <2>1. Milder(info, info) BY <1>0 DEF Milder
  <2>2. Milder(info, on_sub_confirmed(info, x, ok)) BY <1>0, SubConfirmed
  <2>3. info' = info \/ info' = on_sub_confirmed(info, x, ok) BY DEF on_rsp_sub_market_data
  <2>. QED BY <2>1, <2>2, <2>3
<1>3. CASE wire' = wire /\ faults' = faults /\ failed' = failed
  <2>1. \A y \in DOMAIN info : info[y].subscribers # {} /\ Covered(batches, wire, served, y)
                                   => Covered(batches, wire', served, y)
    BY <1>3
  <2>2. HasLogin(wire') => HasLogin(wire) BY <1>3
  <2>. QED BY <1>0, <1>1, <1>2, <1>3, <2>1, <2>2, MilderNext
<1>4. CASE NeedsUnsub(info, x, ok) /\ batch_unsubscribe({x})
  <2>1. x \in DOMAIN info /\ info[x].subscribers = {} /\ {x} \in SUBSET Instruments
    BY <1>0, <1>4, MapsIn DEF NeedsUnsub
  <2>2. /\ wire' \in Seq(Reqs) /\ faults' \in 0 .. MaxFaults /\ failed' \subseteq Instruments
        /\ failed \subseteq failed'
        /\ HasLogin(wire') => HasLogin(wire)
        /\ \A bs, sv : \A y : y \notin {x} /\ Covered(bs, wire, sv, y) => Covered(bs, wire', sv, y)
    BY <1>0, <1>4, <2>1, UnsubscribeSent
  <2>3. \A y \in DOMAIN info : info[y].subscribers # {} /\ Covered(batches, wire, served, y)
                                   => Covered(batches, wire', served, y)
    BY <2>1, <2>2
  <2>. QED BY <1>1, <1>2, <2>2, <2>3, MilderNext
<1>. QED BY <1>3, <1>4 DEF on_rsp_sub_market_data, fault

\* The answer to an unsubscription is handled.
LEMMA UnsubAnswerStep ==
  ASSUME IInv, Taken, Head(events).type = "unsub",
         on_rsp_unsub_market_data(Head(events).x, Head(events).ok)
  PROVE  IInv'
<1>. DEFINE x == Head(events).x
<1>0. TypeOK /\ NoOrphans(info) /\ info \in Maps /\ wire \in Seq(Reqs) /\ faults \in 0 .. MaxFaults
      /\ failed \subseteq Instruments
  BY DEF IInv, TypeOK, Maps
<1>1. /\ UNCHANGED <<st, api, batches, active, retry, sub_timers, conn_timer, login_timer, gaveUp>>
      /\ wire' = wire /\ faults' = faults /\ failed' = failed
  BY DEF on_rsp_unsub_market_data, fault
<1>2. Milder(info, info')
  <2>1. Milder(info, info) BY <1>0 DEF Milder
  <2>2. Milder(info, on_unsub_confirmed(info, x)) BY <1>0, UnsubConfirmed
  <2>3. info' = info \/ info' = on_unsub_confirmed(info, x) BY DEF on_rsp_unsub_market_data
  <2>. QED BY <2>1, <2>2, <2>3
<1>3. \A y \in DOMAIN info : info[y].subscribers # {} /\ Covered(batches, wire, served, y)
                                   => Covered(batches, wire', served, y)
  BY <1>1
<1>4. HasLogin(wire') => HasLogin(wire) BY <1>1
<1>. QED BY <1>0, <1>1, <1>2, <1>3, <1>4, MilderNext

\* Every event of the queue.
LEMMA DispatchStep ==
  ASSUME IInv, dispatch_ctp_event
  PROVE  IInv'
<1>1. Taken BY DEF dispatch_ctp_event, Taken
<1>2. CASE Head(events).type = "conn" /\ on_front_connected BY <1>1, <1>2, FrontConnectedStep
<1>3. CASE on_front_disconnected BY <1>1, <1>3, FrontDisconnectedStep
<1>4. CASE Head(events).type = "logout" /\ on_rsp_user_logout BY <1>1, <1>4, LogoutStep
<1>5. CASE Head(events).type = "login" /\ on_rsp_user_login(Head(events).ok)
  BY <1>1, <1>5, LoginStep
<1>6. CASE Head(events).type = "sub" /\ on_rsp_sub_market_data(Head(events).x, Head(events).ok)
  BY <1>1, <1>6, SubAnswerStep
<1>7. CASE Head(events).type = "unsub" /\ on_rsp_unsub_market_data(Head(events).x, Head(events).ok)
  BY <1>1, <1>7, UnsubAnswerStep
<1>. QED BY <1>2, <1>3, <1>4, <1>5, <1>6, <1>7 DEF dispatch_ctp_event

\* The invariant of a login whose chain goes on with the queue bs.
LEMMA ChainGoesOn ==
  ASSUME IInv, st = "LoggedIn", Listening, active' = TRUE, NEW bs \in Seq(SUBSET Instruments),
         send_next_batch(bs, <<>>),
         retry' \in 0 .. sub_max_retry, \A x : InBatch(batches, x) => InBatch(bs, x),
         UNCHANGED <<info, gaveUp, running, configured, st, api, conn_timer, login_timer, events, ctp,
                     reqs, conns, commands>>
  PROVE  IInv'
<1>. USE DEF ctp
<1>0. TypeOK BY DEF IInv
<1>1. /\ wire' \in Seq(Reqs) /\ faults' \in 0 .. MaxFaults /\ failed' \subseteq Instruments
      /\ failed \subseteq failed'
      /\ batches' \in Seq(SUBSET Instruments) 
      /\ sub_timers' \in Seq(Timers) /\ Len(sub_timers') = 1 /\ sub_timers'[1].fresh = TRUE
      /\ HasLogin(wire') => HasLogin(wire)
      /\ front = "up" => 
           \A sv : \A x : Covered(bs, wire, sv, x) => x \in failed' \/ Covered(batches', wire', sv, x)
  BY <1>0, Sent
<1>2. TypeOK'
  BY <1>1 DEF IInv, TypeOK, Timers
<1>3. TimerInv' /\ NothingForgotten' /\ NoOrphans(info)'
  BY <1>1 DEF IInv, TimerInv, NothingForgotten, NoOrphans
<1>4. AttemptsEnd' /\ LinkInv'
  BY DEF IInv, AttemptsEnd, LinkInv, Listening
<1>5. WantedInv'
  <2>1. SUFFICES ASSUME LoggedInFor(wire)', NEW x \in DOMAIN info, x \notin failed', info[x].subscribers # {}
                 PROVE  Covered(batches', wire', served', x)
    BY DEF WantedInv, Kept
  <2>2. LoggedInFor(wire) BY <1>1, <2>1 DEF LoggedInFor, Listening
  <2>3. Covered(batches, wire, served, x) BY <1>1, <2>1, <2>2 DEF IInv, WantedInv, Kept
  <2>4. front = "up"
    <3>1. ~Disc(events) BY <2>2 DEF LoggedInFor, Cut, Disc
    <3>. QED BY <3>1 DEF IInv, LinkInv
  <2>5. Covered(bs, wire, served, x) BY <2>3 DEF Covered
  <2>. QED BY <1>1, <2>1, <2>4, <2>5
<1>. QED BY <1>2, <1>3, <1>4, <1>5 DEF IInv

\* A timer of the chain: the next batch, or the check of what is Pending.
LEMMA SubTimerStep ==
  ASSUME IInv, NEW k \in DOMAIN sub_timers, SubTimer(k)
  PROVE  IInv'
<1>. USE DEF ctp
<1>0. TypeOK /\ NoOrphans(info) /\ info \in Maps /\ sub_timers \in Seq(Timers) /\ active \in BOOLEAN
      /\ batches \in Seq(SUBSET Instruments) /\ retry \in 0 .. sub_max_retry /\ sub_max_retry \in Nat
      /\ api \in BOOLEAN
  BY BoundAssumption DEF IInv, TypeOK, Maps, Timers
<1>1. active = TRUE /\ Len(sub_timers) = 1 /\ sub_timers[1].fresh = TRUE /\ st = "LoggedIn"
  <2>1. sub_timers # <<>> BY <1>0
  <2>. QED BY <1>0, <2>1 DEF IInv, TimerInv
<1>2. k = 1 BY <1>0, <1>1
<1>3. RemoveAt(sub_timers, k) = <<>> BY <1>0, <1>1, <1>2 DEF RemoveAt
<1>4. running = "yes" /\ Listening /\ api = TRUE
      /\ UNCHANGED <<running, configured, st, api, conn_timer, login_timer, events, ctp,
                     reqs, conns, commands>>
  BY <1>0, <1>1 DEF SubTimer, IInv, AttemptsEnd, Listening
<1>5. \/ /\ send_next_batch(batches, <<>>) /\ UNCHANGED <<info, active, retry, gaveUp>>
      \/ on_batch_complete(<<>>)
  BY <1>1, <1>2, <1>3, <1>4 DEF SubTimer
<1>6. CASE send_next_batch(batches, <<>>) /\ UNCHANGED <<info, active, retry, gaveUp>>
  BY <1>0, <1>1, <1>4, <1>6, ChainGoesOn
<1>7. CASE on_batch_complete(<<>>)
  <2>. DEFINE pending == check_subscribe_status(info)
              act == decide_batch_check_action(batches # <<>>, pending # {}, retry)
  <2>1. /\ act = "Done" => batches = <<>> /\ pending = {}
        /\ act = "GiveUp" => batches = <<>>
        /\ act = "Retry" => retry + 1 \in 0 .. sub_max_retry
    BY <1>0 DEF decide_batch_check_action
  <2>2. pending \in SUBSET Instruments /\ \A x \in DOMAIN info : x \in pending <=> info[x].state = "Pending"
    BY <1>0, MapsIn DEF check_subscribe_status
  <2>3. \/ /\ act = "ContinueSend"
           /\ send_next_batch(batches, <<>>)
           /\ UNCHANGED <<info, active, retry, gaveUp>>
        \/ /\ act = "Done"
           /\ active' = FALSE /\ retry' = 0 /\ sub_timers' = <<>>
           /\ UNCHANGED <<info, batches, wire, gaveUp, fault>>
        \/ /\ act = "GiveUp"
           /\ info' = reset_pending_state(info)
           /\ gaveUp' = gaveUp \cup pending
           /\ active' = FALSE /\ retry' = 0 /\ sub_timers' = <<>>
           /\ UNCHANGED <<batches, wire, fault>>
        \/ /\ act = "Retry"
           /\ retry' = retry + 1
           /\ send_next_batch(enqueue_batches(batches, pending), <<>>)
           /\ UNCHANGED <<info, active, gaveUp>>
    BY <1>7 DEF on_batch_complete
  <2>. HIDE DEF act, pending
  <2>4. CASE act = "Done" /\ active' = FALSE /\ retry' = 0 /\ sub_timers' = <<>>
             /\ UNCHANGED <<info, batches, wire, gaveUp, fault>>
    <3>1. TypeOK'
      <4>1. active' \in BOOLEAN BY <2>4
      <4>2. sub_timers' \in Seq([kind : {"send", "check"}, fresh : BOOLEAN]) /\ retry' \in 0 .. sub_max_retry
        BY <1>0, <2>4
      <4>. QED BY <1>4, <2>4, <4>1, <4>2 DEF IInv, TypeOK, fault
    <3>2. TimerInv' /\ NothingForgotten' /\ AttemptsEnd' /\ NoOrphans(info)'
      BY <1>4, <2>1, <2>2, <2>4 DEF IInv, TimerInv, NothingForgotten, AttemptsEnd, NoOrphans, Listening, NonePending
    <3>3. LinkInv' /\ WantedInv'
      BY <1>4, <2>4 DEF IInv, LinkInv, WantedInv, Listening, LoggedInFor, fault
    <3>. QED BY <3>1, <3>2, <3>3 DEF IInv
  <2>5. CASE act = "GiveUp" /\ info' = reset_pending_state(info)
             /\ gaveUp' = gaveUp \cup pending
             /\ active' = FALSE /\ retry' = 0 /\ sub_timers' = <<>>
             /\ UNCHANGED <<batches, wire, fault>>
    <3>. DEFINE n == reset_pending_state(info)
    <3>0. /\ n \in Maps /\ NoOrphans(n) /\ DOMAIN n = DOMAIN info
          /\ \A x \in DOMAIN n :
               /\ n[x].subscribers = info[x].subscribers /\ n[x].state # "Pending"
               /\ n[x].state = "NotRequested" => info[x].state \in {"NotRequested", "Pending"}
      BY <1>0, GivenUp
    <3>. HIDE DEF n
    <3>00. info' = n BY <2>5 DEF n
    <3>1. TypeOK'
      <4>1. active' \in BOOLEAN BY <2>5
      <4>2. sub_timers' \in Seq([kind : {"send", "check"}, fresh : BOOLEAN]) /\ retry' \in 0 .. sub_max_retry
        BY <1>0, <2>5
      <4>3. gaveUp' \subseteq Instruments BY <2>2, <2>5 DEF IInv, TypeOK
      <4>. QED BY <1>4, <2>5, <3>0, <3>00, <4>1, <4>2, <4>3 DEF IInv, TypeOK, fault, Maps
    <3>2. TimerInv' /\ NothingForgotten' /\ NoOrphans(info)'
      BY <1>1, <2>1, <2>2, <2>5, <3>0, <3>00 DEF IInv, TimerInv, NothingForgotten, NonePending
    <3>3. AttemptsEnd' /\ LinkInv'
      BY <1>4, <2>5 DEF IInv, LinkInv, AttemptsEnd, Listening, fault
    <3>4. WantedInv'
      BY <1>4, <2>5, <3>0, <3>00 DEF IInv, WantedInv, Kept, LoggedInFor, Listening, fault
    <3>. QED BY <3>1, <3>2, <3>3, <3>4 DEF IInv
  <2>6. CASE act = "Retry" /\ retry' = retry + 1
             /\ send_next_batch(enqueue_batches(batches, pending), <<>>)
             /\ UNCHANGED <<info, active, gaveUp>>
    <3>. DEFINE bs == enqueue_batches(batches, pending)
    <3>1. bs \in Seq(SUBSET Instruments) /\ \A x : InBatch(batches, x) => InBatch(bs, x)
      BY <1>0, <2>2, Enqueued
    <3>. HIDE DEF bs
    <3>2. send_next_batch(bs, <<>>) BY <2>6 DEF bs
    <3>. QED BY <1>0, <1>1, <1>4, <2>1, <2>6, <3>1, <3>2, ChainGoesOn
  <2>7. CASE send_next_batch(batches, <<>>) /\ UNCHANGED <<info, active, retry, gaveUp>>
    BY <1>6, <2>7
  <2>. QED BY <2>3, <2>4, <2>5, <2>6, <2>7
<1>. QED BY <1>5, <1>6, <1>7

\* The unsubscribe call and the first batch of a new chain.
LEMMA UnsubSubSent ==
  ASSUME TypeOK, NEW off \in SUBSET Instruments, NEW bs \in Seq(SUBSET Instruments), bs # <<>>,
         UnsubThenSub(off, bs)
  PROVE  /\ wire' \in Seq(Reqs) /\ faults' \in 0 .. MaxFaults /\ failed' \subseteq Instruments
         /\ failed \subseteq failed'
         /\ HasLogin(wire') => HasLogin(wire)
         /\ front = "up" =>
              \A sv : \A x : InBatch(bs, x) \/ (x \notin off /\ Covered(<<>>, wire, sv, x))
                                => x \in failed' \/ Covered(Tail(bs), wire', sv, x)
<1>. DEFINE S == Head(bs)
            e == Each("sub", S)
            d == Each("unsub", off)
            u == wire \o d
            v == u \o e
            o == wire \o e
<1>0. wire \in Seq(Reqs) /\ faults \in 0 .. MaxFaults /\ failed \subseteq Instruments /\ MaxFaults \in Nat
  BY BoundAssumption DEF TypeOK
<1>1. S \in SUBSET Instruments /\ Tail(bs) \in Seq(SUBSET Instruments) OBVIOUS
<1>2. /\ u \in Seq(Reqs) /\ (HasLogin(u) => HasLogin(wire))
      /\ \A x : x \notin off /\ SubLast(wire, x) => SubLast(u, x)
      /\ \A x : x \notin off /\ NoUnsub(wire, x) => NoUnsub(u, x)
  BY <1>0, UnsubsAdded
<1>3. /\ o \in Seq(Reqs) /\ (HasLogin(o) => HasLogin(wire))
      /\ \A x : x \in S \/ SubLast(wire, x) => SubLast(o, x)
      /\ \A x : NoUnsub(wire, x) => NoUnsub(o, x)
  BY <1>0, <1>1, SubsAdded
<1>4. \A x : InBatch(bs, x) => x \in S \/ InBatch(Tail(bs), x)
  <2>1. SUFFICES ASSUME NEW x, NEW k \in 1 .. Len(bs), x \in bs[k], x \notin S
                 PROVE  InBatch(Tail(bs), x)
    BY DEF InBatch
  <2>2. k # 1 BY <2>1
  <2>3. k - 1 \in 1 .. Len(Tail(bs)) /\ Tail(bs)[k - 1] = bs[k]
    BY <2>2
  <2>. QED BY <2>1, <2>3 DEF InBatch
<1>. HIDE DEF u
<1>5. /\ v \in Seq(Reqs) /\ (HasLogin(v) => HasLogin(u))
      /\ \A x : x \in S \/ SubLast(u, x) => SubLast(v, x)
      /\ \A x : NoUnsub(u, x) => NoUnsub(v, x)
  BY <1>1, <1>2, SubsAdded
<1>6. \A x : ~InBatch(<<>>, x) BY DEF InBatch
<1>7. \/ wire' = v /\ faults' = faults /\ failed' = failed /\ front = "up"
      \/ wire' = u /\ faults' \in 0 .. MaxFaults /\ failed' = failed \cup S /\ front = "up"
      \/ wire' = o /\ faults' \in 0 .. MaxFaults /\ failed' = failed /\ front = "up"
      \/ front # "up" /\ wire' = wire /\ faults' = faults /\ failed' = failed
  BY <1>0 DEF UnsubThenSub, FaultFor, Fault, fault, u
<1>. HIDE DEF S, v, o
<1>8. CASE wire' = v /\ faults' = faults /\ failed' = failed /\ front = "up"
  BY <1>0, <1>1, <1>2, <1>4, <1>5, <1>6, <1>8 DEF Covered
<1>9. CASE wire' = u /\ faults' \in 0 .. MaxFaults /\ failed' = failed \cup S /\ front = "up"
  BY <1>0, <1>1, <1>2, <1>4, <1>6, <1>9 DEF Covered
<1>10. CASE wire' = o /\ faults' \in 0 .. MaxFaults /\ failed' = failed /\ front = "up"
  BY <1>0, <1>1, <1>3, <1>4, <1>6, <1>10 DEF Covered
<1>11. CASE front # "up" /\ wire' = wire /\ faults' = faults /\ failed' = failed
  BY <1>0, <1>11
<1>. QED BY <1>7, <1>8, <1>9, <1>10, <1>11

\* What a subscribe frame changes in the map.
Asked(i, n, on, off) ==
  /\ n \in Maps /\ NoOrphans(n) /\ on \in SUBSET Instruments /\ off \in SUBSET Instruments
  /\ \A x \in DOMAIN n :
        /\ n[x].state = "Pending" => x \in DOMAIN i /\ i[x].state = "Pending"
        /\ x \notin on /\ n[x].subscribers # {} =>
              /\ x \in DOMAIN i /\ i[x].subscribers # {} /\ x \notin off
              /\ n[x].state = i[x].state

\* handle_subscribe_req: what it wants of the front for the map i.
LEMMA FrameAsks ==
  ASSUME NEW i \in Maps, NoOrphans(i), NEW r \in SubscribeReqs
  PROVE  LET leave == r.action # "Subscribe" \/ r.replace
             out   == IF r.action = "Unsubscribe" THEN r.list ELSE DOMAIN i
             off   == IF leave THEN to_unsub(i, r.who, out) ELSE {}
             m     == IF leave THEN unsubscribe(i, r.who, out) ELSE i
             on    == IF r.action = "Subscribe" THEN to_subscribe(m, r.list) ELSE {}
             m2    == IF r.action = "Subscribe" THEN subscribe(m, r.who, r.list) ELSE m
         IN  Asked(i, m2, on, off)
<1>. DEFINE leave == r.action # "Subscribe" \/ r.replace
            out   == IF r.action = "Unsubscribe" THEN r.list ELSE DOMAIN i
            off   == IF leave THEN to_unsub(i, r.who, out) ELSE {}
            m     == IF leave THEN unsubscribe(i, r.who, out) ELSE i
            on    == IF r.action = "Subscribe" THEN to_subscribe(m, r.list) ELSE {}
            m2    == IF r.action = "Subscribe" THEN subscribe(m, r.who, r.list) ELSE m
<1>1. /\ r.who \in Strategies
      /\ r.action = "Subscribe" => r.list \in SUBSET Instruments
  BY DEF SubscribeReqs
<1>. HIDE DEF out
<1>2. /\ m \in Maps /\ NoOrphans(m) /\ DOMAIN m \subseteq DOMAIN i
      /\ off \in SUBSET Instruments
      /\ \A x \in DOMAIN m :
            /\ m[x].state # "NotRequested" => m[x].state = i[x].state
            /\ x \in off => m[x].state = "NotRequested"
            /\ m[x].subscribers # {} =>
                  i[x].subscribers # {} /\ x \notin off /\ m[x].state = i[x].state
  <2>1. CASE leave BY <2>1, Unsubscribed
  <2>2. CASE ~leave BY <2>2
  <2>. QED BY <2>1, <2>2
<1>. HIDE DEF leave, m, off
<1>3. CASE r.action = "Subscribe"
  <2>. DEFINE n == subscribe(m, r.who, r.list)
              p == to_subscribe(m, r.list)
  <2>1. /\ n \in Maps /\ NoOrphans(n) /\ p \in SUBSET Instruments
        /\ \A x \in DOMAIN n :
               /\ n[x].state # "NotRequested" => x \in DOMAIN m /\ n[x].state = m[x].state
               /\ x \notin p /\ n[x].subscribers # {} =>
                     /\ x \in DOMAIN m /\ m[x].subscribers # {} /\ n[x].state = m[x].state
    BY <1>1, <1>2, <1>3, Joined
  <2>2. m2 = n /\ on = p BY <1>3
  <2>. HIDE DEF n, p, m2, on
  <2>3. Asked(i, n, p, off)
    BY <1>2, <2>1 DEF Asked
  <2>. QED BY <2>2, <2>3 DEF m2, on, m, off, leave, out
<1>4. CASE r.action # "Subscribe"
  <2>1. m2 = m /\ on = {} BY <1>4
  <2>. HIDE DEF m2, on
  <2>2. Asked(i, m, {}, off)
    BY <1>2 DEF Asked
  <2>. QED BY <2>1, <2>2 DEF m2, on, m, off, leave, out
<1>. QED BY <1>3, <1>4

\* A subscribe frame.
LEMMA SubscribeStep ==
  ASSUME IInv, NEW r \in SubscribeReqs, handle_subscribe_req(r)
  PROVE  IInv'
<1>. DEFINE leave == r.action # "Subscribe" \/ r.replace
            out   == IF r.action = "Unsubscribe" THEN r.list ELSE DOMAIN info
            off   == IF leave THEN to_unsub(info, r.who, out) ELSE {}
            m     == IF leave THEN unsubscribe(info, r.who, out) ELSE info
            on    == IF r.action = "Subscribe" THEN to_subscribe(m, r.list) ELSE {}
            m2    == IF r.action = "Subscribe" THEN subscribe(m, r.who, r.list) ELSE m
            bs    == enqueue_batches(batches, on)
<1>. USE DEF ctp
<1>0. TypeOK /\ NoOrphans(info) /\ info \in Maps /\ active \in BOOLEAN
      /\ batches \in Seq(SUBSET Instruments) /\ wire \in Seq(Reqs) /\ faults \in 0 .. MaxFaults
      /\ failed \subseteq Instruments /\ reqs \in 0 .. MaxReqs /\ MaxReqs \in Nat /\ gaveUp \subseteq Instruments
  BY BoundAssumption DEF IInv, TypeOK, Maps
<1>1. Asked(info, m2, on, off)
  BY <1>0, FrameAsks
<1>2. /\ Listening /\ reqs < MaxReqs /\ reqs' = reqs + 1
      /\ \/ /\ on = {} \/ ~api \/ st # "LoggedIn"
            /\ info' = m2
            /\ IF api /\ off # {} THEN batch_unsubscribe(off) ELSE UNCHANGED <<wire, fault>>
            /\ UNCHANGED <<batches, active, sub_timers, gaveUp>>
         \/ /\ on # {} /\ api /\ st = "LoggedIn"
            /\ info' = mark_pending(m2, on)
            /\ gaveUp' = gaveUp \ on
            /\ active' = TRUE
            /\ IF active
               THEN /\ batches' = bs /\ UNCHANGED sub_timers
                    /\ IF off = {} THEN UNCHANGED <<wire, fault>> ELSE batch_unsubscribe(off)
               ELSE /\ batches' = Tail(bs) /\ sub_timers' = Append(sub_timers, Timer("send"))
                    /\ UnsubThenSub(off, bs)
      /\ UNCHANGED <<running, configured, st, api, retry, conn_timer, login_timer, events, ctp,
                       conns, commands>>
  BY DEF handle_subscribe_req
<1>. HIDE DEF off, m, on, m2, bs, leave, out
<1>3. /\ m2 \in Maps /\ NoOrphans(m2) /\ on \in SUBSET Instruments /\ off \in SUBSET Instruments
      /\ \A x \in DOMAIN m2 :
            /\ m2[x].state = "Pending" => x \in DOMAIN info /\ info[x].state = "Pending"
            /\ x \notin on /\ m2[x].subscribers # {} =>
                  /\ x \in DOMAIN info /\ info[x].subscribers # {} /\ x \notin off
                  /\ m2[x].state = info[x].state
  BY <1>1 DEF Asked
<1>4. /\ bs \in Seq(SUBSET Instruments) /\ (on # {} => bs # <<>>)
      /\ \A x : x \in on \/ InBatch(batches, x) => InBatch(bs, x)
  BY <1>0, <1>3, Enqueued DEF bs
<1>5. reqs' \in 0 .. MaxReqs BY <1>0, <1>2
<1>6. AttemptsEnd' /\ LinkInv'
  BY <1>2 DEF IInv, AttemptsEnd, LinkInv, Listening
<1>7. st = "LoggedIn" => api
  BY <1>2 DEF IInv, AttemptsEnd
\* The unsubscribe call, if there is one.
<1>8. ASSUME batch_unsubscribe(off) \/ UNCHANGED <<wire, fault>>
      PROVE  /\ wire' \in Seq(Reqs) /\ faults' \in 0 .. MaxFaults /\ failed' \subseteq Instruments
             /\ failed \subseteq failed' /\ (HasLogin(wire') => HasLogin(wire))
             /\ \A sv : \A x : x \notin off /\ Covered(batches, wire, sv, x) => Covered(batches, wire', sv, x)
  <2>1. CASE batch_unsubscribe(off)
    <3>1. /\ wire' \in Seq(Reqs) /\ faults' \in 0 .. MaxFaults /\ failed' \subseteq Instruments
          /\ failed \subseteq failed' /\ (HasLogin(wire') => HasLogin(wire))
          /\ \A cs, sv : \A x : x \notin off /\ Covered(cs, wire, sv, x) => Covered(cs, wire', sv, x)
      BY <1>0, <1>3, <2>1, UnsubscribeSent
    <3>. QED BY <3>1
  <2>2. CASE UNCHANGED <<wire, fault>>
    BY <1>0, <2>2 DEF fault
  <2>. QED BY <1>8, <2>1, <2>2
<1>9. CASE /\ on = {} \/ ~api \/ st # "LoggedIn"
           /\ info' = m2
           /\ batch_unsubscribe(off) \/ UNCHANGED <<wire, fault>>
           /\ UNCHANGED <<batches, active, sub_timers, gaveUp>>
  <2>1. /\ wire' \in Seq(Reqs) /\ faults' \in 0 .. MaxFaults /\ failed' \subseteq Instruments
        /\ failed \subseteq failed' /\ (HasLogin(wire') => HasLogin(wire))
        /\ \A sv : \A x : x \notin off /\ Covered(batches, wire, sv, x) => Covered(batches, wire', sv, x)
    BY <1>8, <1>9
  <2>2. TypeOK'
    BY <1>2, <1>3, <1>5, <1>9, <2>1 DEF IInv, TypeOK, Maps
  <2>3. TimerInv' /\ NoOrphans(info)'
    BY <1>2, <1>3, <1>9 DEF IInv, TimerInv, NonePending
  <2>4. NothingForgotten'
    BY <1>2, <1>3, <1>7, <1>9 DEF IInv, NothingForgotten
  <2>5. WantedInv'
    <3>1. SUFFICES ASSUME LoggedInFor(wire)', NEW x \in DOMAIN m2, x \notin failed', m2[x].subscribers # {}
                   PROVE  Covered(batches', wire', served', x)
      BY <1>9 DEF WantedInv, Kept
    <3>2. LoggedInFor(wire) BY <1>2, <2>1, <3>1 DEF LoggedInFor, Listening
    <3>3. on = {} BY <1>7, <1>9, <3>2 DEF LoggedInFor
    <3>4. x \in DOMAIN info /\ info[x].subscribers # {} /\ x \notin off BY <1>3, <3>1, <3>3
    <3>5. Covered(batches, wire, served, x) BY <2>1, <3>1, <3>2, <3>4 DEF IInv, WantedInv, Kept
    <3>6. Covered(batches, wire', served, x) BY <2>1, <3>4, <3>5
    <3>. QED BY <1>2, <1>9, <3>6
  <2>. QED BY <1>6, <2>2, <2>3, <2>4, <2>5 DEF IInv
<1>10. CASE /\ on # {} /\ api /\ st = "LoggedIn"
            /\ info' = mark_pending(m2, on)
            /\ gaveUp' = gaveUp \ on
            /\ active' = TRUE
            /\ IF active
               THEN /\ batches' = bs /\ UNCHANGED sub_timers
                    /\ batch_unsubscribe(off) \/ UNCHANGED <<wire, fault>>
               ELSE /\ batches' = Tail(bs) /\ sub_timers' = Append(sub_timers, Timer("send"))
                    /\ UnsubThenSub(off, bs)
  <2>. DEFINE n == mark_pending(m2, on)
  <2>1. /\ n \in Maps /\ DOMAIN n = DOMAIN m2
        /\ \A x \in DOMAIN n : /\ n[x].subscribers = m2[x].subscribers
                               /\ n[x].state = IF x \in on THEN "Pending" ELSE m2[x].state
    BY <1>3, WithStateIs DEF mark_pending, SubState
  <2>. HIDE DEF n
  <2>2. info' = n BY <1>10 DEF n
  <2>3. NoOrphans(n) BY <1>3, <2>1 DEF NoOrphans
  <2>4. NothingForgotten'
    BY <1>2, <1>3, <1>10, <2>1, <2>2 DEF IInv, NothingForgotten
  \* Either way what is wanted stays covered.
  <2>5. /\ wire' \in Seq(Reqs) /\ faults' \in 0 .. MaxFaults /\ failed' \subseteq Instruments
        /\ failed \subseteq failed' /\ (HasLogin(wire') => HasLogin(wire))
        /\ batches' \in Seq(SUBSET Instruments)
        /\ sub_timers' \in Seq(Timers) /\ Len(sub_timers') = 1 /\ sub_timers'[1].fresh = TRUE
        /\ front = "up" =>
             \A x : x \in on \/ (x \notin off /\ Covered(batches, wire, served, x))
                       => x \in failed' \/ Covered(batches', wire', served, x)
    <3>1. CASE active
      <4>1. /\ wire' \in Seq(Reqs) /\ faults' \in 0 .. MaxFaults /\ failed' \subseteq Instruments
            /\ failed \subseteq failed' /\ (HasLogin(wire') => HasLogin(wire))
            /\ \A sv : \A x : x \notin off /\ Covered(batches, wire, sv, x) => Covered(batches, wire', sv, x)
        BY <1>8, <1>10, <3>1
      <4>2. batches' = bs /\ sub_timers' = sub_timers BY <1>10, <3>1
      <4>3. sub_timers \in Seq(Timers) /\ Len(sub_timers) = 1 /\ sub_timers[1].fresh = TRUE
        BY <3>1 DEF IInv, TypeOK, TimerInv, Timers
      <4>4. ASSUME NEW x, x \in on \/ (x \notin off /\ Covered(batches, wire, served, x))
            PROVE  Covered(bs, wire', served, x)
        <5>1. CASE x \in on BY <1>4, <5>1 DEF Covered
        <5>2. CASE x \notin off /\ Covered(batches, wire, served, x)
          <6>1. Covered(batches, wire', served, x) BY <4>1, <5>2
          <6>. QED BY <1>4, <6>1 DEF Covered
        <5>. QED BY <4>4, <5>1, <5>2
      <4>. QED BY <1>4, <4>1, <4>2, <4>3, <4>4
    <3>2. CASE ~active
      <4>0. bs # <<>> /\ batches = <<>> /\ sub_timers = <<>> /\ Tail(bs) \in Seq(SUBSET Instruments)
        BY <1>4, <1>10, <3>2 DEF IInv, TimerInv
      <4>1. /\ wire' \in Seq(Reqs) /\ faults' \in 0 .. MaxFaults /\ failed' \subseteq Instruments
            /\ failed \subseteq failed'
            /\ HasLogin(wire') => HasLogin(wire)
            /\ front = "up" =>
                 \A sv : \A x : InBatch(bs, x) \/ (x \notin off /\ Covered(<<>>, wire, sv, x))
                                   => x \in failed' \/ Covered(Tail(bs), wire', sv, x)
        BY <1>0, <1>3, <1>4, <1>10, <3>2, <4>0, UnsubSubSent
      <4>2. batches' = Tail(bs) /\ sub_timers' = Append(<<>>, Timer("send")) BY <1>10, <3>2, <4>0
      <4>3. sub_timers' \in Seq(Timers) /\ Len(sub_timers') = 1 /\ sub_timers'[1].fresh = TRUE
        BY <4>2 DEF Timer, Timers
      <4>4. \A x : x \in on => InBatch(bs, x) BY <1>4
      <4>. QED BY <4>0, <4>1, <4>2, <4>3, <4>4
    <3>. QED BY <1>0, <3>1, <3>2
  <2>6. TypeOK'
    <3>1. active' \in BOOLEAN BY <1>10
    <3>2. gaveUp' \subseteq Instruments BY <1>0, <1>10
    <3>. QED BY <1>2, <1>5, <2>1, <2>2, <2>5, <3>1, <3>2 DEF IInv, TypeOK, Maps, Timers
  <2>7. TimerInv'
    BY <1>2, <1>10, <2>5 DEF TimerInv
  <2>8. WantedInv'
    <3>1. SUFFICES ASSUME LoggedInFor(wire)', NEW x \in DOMAIN n, x \notin failed', n[x].subscribers # {}
                   PROVE  Covered(batches', wire', served', x)
      BY <2>2 DEF WantedInv, Kept
    <3>2. LoggedInFor(wire) BY <1>2, <2>5, <3>1 DEF LoggedInFor, Listening
    <3>3. front = "up"
      <4>1. ~Disc(events) BY <3>2 DEF LoggedInFor, Cut, Disc
      <4>. QED BY <1>2, <1>10, <4>1 DEF IInv, LinkInv
    <3>4. x \in on \/ (x \notin off /\ Covered(batches, wire, served, x))
      <4>1. SUFFICES ASSUME x \notin on PROVE x \notin off /\ Covered(batches, wire, served, x)
        OBVIOUS
      <4>2. x \in DOMAIN info /\ info[x].subscribers # {} /\ x \notin off BY <1>3, <2>1, <3>1, <4>1
      <4>. QED BY <2>5, <3>1, <3>2, <4>2 DEF IInv, WantedInv, Kept
    <3>5. Covered(batches', wire', served, x) BY <2>5, <3>1, <3>3, <3>4
    <3>. QED BY <1>2, <3>5
  <2>. QED BY <1>6, <2>2, <2>3, <2>4, <2>6, <2>7, <2>8 DEF IInv
<1>. QED BY <1>2, <1>9, <1>10

\* The front answers.
LEMMA AnswerStep ==
  ASSUME IInv, Answer
  PROVE  IInv'
<1>. DEFINE r == Head(wire)
            v == Tail(wire)
<1>. USE DEF gateway
<1>0. wire \in Seq(Reqs) /\ wire # <<>> /\ events \in Seq(Events) /\ session \in BOOLEAN
      /\ served \subseteq Instruments /\ faults \in 0 .. MaxFaults /\ failed \subseteq Instruments
      /\ MaxFaults \in Nat
  BY BoundAssumption DEF IInv, TypeOK, Answer
<1>1. /\ front = "up" /\ wire' = v
      /\ UNCHANGED <<running, gateway, front, gaveUp, reqs, conns, commands>>
  BY DEF Answer
<1>2. /\ v \in Seq(Reqs) /\ r \in Reqs /\ (HasLogin(v) \/ r.op = "login" => HasLogin(wire))
      /\ \A x : SubLast(wire, x) => SubLast(v, x) \/
                  (r.op = "sub" /\ r.x = x /\ NoUnsub(v, x) /\ ~HasLogin(v))
      /\ \A x : NoUnsub(wire, x) => NoUnsub(v, x) /\ (r.op = "unsub" => r.x # x)
  BY <1>0, Answered
<1>3. PICK ok \in BOOLEAN :
         \/ r.op = "login" /\ LoginAnswer(ok)
         \/ /\ r.op # "login" /\ (ok => session)
            /\ served' = IF ~ok THEN served
                         ELSE IF r.op = "sub" THEN served \cup {r.x} ELSE served \ {r.x}
            /\ Push([type |-> r.op, x |-> r.x, ok |-> ok])
            /\ IF ok \/ ~session THEN UNCHANGED fault
               ELSE FaultFor(IF r.op = "sub" THEN {r.x} ELSE {})
            /\ UNCHANGED session
  BY DEF Answer
<1>. HIDE DEF r, v
<1>4. TimerInv' /\ NothingForgotten' /\ NoOrphans(info)' /\ AttemptsEnd'
  BY <1>1 DEF IInv, TimerInv, NothingForgotten, NoOrphans, NonePending, AttemptsEnd, Listening
<1>5. CASE r.op = "login" /\ LoginAnswer(ok)
  <2>1. [type |-> "login", ok |-> ok] \in Events BY DEF Events
  <2>2. events' \in Seq(Events) /\ (Cut(events) => Cut(events')) /\ (Disc(events) => Disc(events'))
    BY <1>0, <1>5, <2>1, Queued DEF LoginAnswer, Push
  <2>3. served' = served /\ faults' \in 0 .. MaxFaults /\ failed' = failed
    BY <1>0, <1>5 DEF LoginAnswer, Fault, FaultFor, fault
  <2>4. session' \in BOOLEAN BY <1>5 DEF LoginAnswer
  <2>5. TypeOK'
    BY <1>1, <1>2, <2>2, <2>3, <2>4 DEF IInv, TypeOK
  <2>6. LinkInv'
    BY <1>1, <2>2 DEF IInv, LinkInv, Listening
  <2>7. WantedInv'
    <3>1. SUFFICES ASSUME LoggedInFor(wire)', NEW x \in DOMAIN info, x \notin failed, info[x].subscribers # {}
                   PROVE  Covered(batches, v, served, x)
      BY <1>1, <2>3 DEF WantedInv, Kept
    <3>2. LoggedInFor(wire) BY <1>1, <1>2, <1>5, <2>2, <3>1 DEF LoggedInFor, Listening
    <3>3. Covered(batches, wire, served, x) BY <3>1, <3>2 DEF IInv, WantedInv, Kept
    <3>. QED BY <1>2, <1>5, <3>3 DEF Covered
  <2>. QED BY <1>4, <2>5, <2>6, <2>7 DEF IInv
<1>6. CASE /\ r.op # "login" /\ (ok => session)
           /\ served' = IF ~ok THEN served
                        ELSE IF r.op = "sub" THEN served \cup {r.x} ELSE served \ {r.x}
           /\ Push([type |-> r.op, x |-> r.x, ok |-> ok])
           /\ IF ok \/ ~session THEN UNCHANGED fault
              ELSE FaultFor(IF r.op = "sub" THEN {r.x} ELSE {})
           /\ UNCHANGED session
  <2>0. r.op \in {"sub", "unsub"} /\ r.x \in Instruments BY <1>2, <1>6 DEF Reqs
  <2>1. [type |-> r.op, x |-> r.x, ok |-> ok] \in Events BY <2>0 DEF Events
  <2>2. events' \in Seq(Events) /\ (Cut(events) => Cut(events')) /\ (Disc(events) => Disc(events'))
    BY <1>0, <1>6, <2>1, Queued DEF Push
  <2>3. faults' \in 0 .. MaxFaults /\ failed' \subseteq Instruments /\ failed \subseteq failed'
        /\ (r.op = "sub" /\ session /\ ~ok => r.x \in failed')
    BY <1>0, <1>6, <2>0 DEF FaultFor, fault
  <2>4. served' \subseteq Instruments BY <1>0, <1>6, <2>0
  <2>5. TypeOK'
    BY <1>1, <1>2, <1>6, <2>2, <2>3, <2>4 DEF IInv, TypeOK
  <2>6. LinkInv'
    BY <1>1, <1>6, <2>2 DEF IInv, LinkInv, Listening
  <2>7. WantedInv'
    <3>1. SUFFICES ASSUME LoggedInFor(wire)', NEW x \in DOMAIN info, x \notin failed', info[x].subscribers # {}
                   PROVE  Covered(batches, v, served', x)
      BY <1>1 DEF WantedInv, Kept
    <3>2. LoggedInFor(wire) /\ (session \/ HasLogin(v))
      BY <1>1, <1>2, <1>6, <2>2, <3>1 DEF LoggedInFor, Listening
    <3>3. Covered(batches, wire, served, x) BY <2>3, <3>1, <3>2 DEF IInv, WantedInv, Kept
    <3>4. CASE InBatch(batches, x) BY <3>4 DEF Covered
    <3>5. CASE SubLast(wire, x) 
      <4>1. CASE SubLast(v, x) BY <4>1 DEF Covered
      <4>2. CASE r.op = "sub" /\ r.x = x /\ NoUnsub(v, x) /\ ~HasLogin(v)
        <5>1. session BY <3>2, <4>2
        <5>2. ok BY <2>3, <3>1, <4>2, <5>1
        <5>3. x \in served' BY <1>6, <4>2, <5>2
        <5>. QED BY <4>2, <5>3 DEF Covered
      <4>. QED BY <1>2, <3>5, <4>1, <4>2
    <3>6. CASE x \in served /\ NoUnsub(wire, x)
      <4>1. NoUnsub(v, x) /\ (r.op = "unsub" => r.x # x) BY <1>2, <3>6
      <4>2. x \in served' BY <1>6, <2>0, <3>6, <4>1
      <4>. QED BY <4>1, <4>2 DEF Covered
    <3>. QED BY <3>3, <3>4, <3>5, <3>6 DEF Covered
  <2>. QED BY <1>4, <2>5, <2>6, <2>7 DEF IInv
<1>. QED BY <1>3, <1>5, <1>6

-----------------------------------------------------------------------------
\* A step that changes nothing.
LEMMA Stutter ==
  ASSUME IInv, UNCHANGED vars
  PROVE  IInv'
<1>. USE DEF vars, gateway, ctp, bounds, fault
<1>1. TypeOK' BY DEF IInv, TypeOK
<1>2. TimerInv' /\ NothingForgotten' /\ AttemptsEnd' /\ NoOrphans(info)'
  BY DEF IInv, TimerInv, NothingForgotten, AttemptsEnd, NoOrphans, Listening, NonePending
<1>3. LinkInv' /\ WantedInv'
  BY DEF IInv, LinkInv, WantedInv, Listening, LoggedInFor
<1>. QED BY <1>1, <1>2, <1>3 DEF IInv

\* IInv holds in every reachable state.
THEOREM Invariance == Spec => []IInv
<1>1. IInv /\ [Next]_vars => IInv'
  <2>. SUFFICES ASSUME IInv, [Next]_vars PROVE IInv' OBVIOUS
  <2>1. CASE \E r \in SubscribeReqs : handle_subscribe_req(r) BY <2>1, SubscribeStep
  <2>2. CASE handle_disconnect \/ handle_shutdown \/ connect_timeout BY <2>2, DisconnectSteps
  <2>3. CASE handle_connect \/ \E a \in {"Login", "Logout"} : on_sched_timer(a)
    BY <2>3, CommandSteps
  <2>4. CASE apply_config_change BY <2>4, ConfigStep
  <2>5. CASE Exit BY <2>5, ExitStep
  <2>6. CASE login_timeout BY <2>6, LoginTimeoutStep
  <2>7. CASE \E k \in DOMAIN sub_timers : SubTimer(k) BY <2>7, SubTimerStep
  <2>8. CASE dispatch_ctp_event BY <2>8, DispatchStep
  <2>9. CASE OnFrontConnected \/ OnFrontDisconnected \/ OnRspUserLogout BY <2>9, LinkStep
  <2>10. CASE Answer BY <2>10, AnswerStep
  <2>11. CASE UNCHANGED vars BY <2>11, Stutter
  <2>. QED BY <2>1, <2>2, <2>3, <2>4, <2>5, <2>6, <2>7, <2>8, <2>9, <2>10, <2>11 DEF Next
<1>. QED BY IInvInit, <1>1, PTL DEF Spec

\* The chain of MdApi is driven by exactly one armed timer while anything is queued or
\* Pending, and every login or connection under way has its timeout (md_api_subscribe.cpp,
\* md_api.cpp): StructureOK in every reachable state.
THEOREM StructureCorrect == Spec => []StructureOK
<1>1. IInv => StructureOK
  <2>. SUFFICES ASSUME IInv PROVE StructureOK OBVIOUS
  <2>1. TypeOK /\ TimerInv /\ AttemptsEnd /\ active \in BOOLEAN /\ sub_timers \in Seq(Timers)
    BY DEF IInv, TypeOK, Timers
  <2>2. Len(sub_timers) = (IF active THEN 1 ELSE 0) /\ Fresh = DOMAIN sub_timers
    <3>1. CASE active 
      <4>1. DOMAIN sub_timers = {1} /\ Len(sub_timers) = 1 /\ sub_timers[1].fresh = TRUE
        BY <2>1, <3>1 DEF TimerInv
      <4>. QED BY <3>1, <4>1 DEF Fresh
    <3>2. CASE ~active
      <4>1. sub_timers = <<>> /\ Len(<<>>) = 0 /\ DOMAIN <<>> = {} BY <2>1, <3>2 DEF TimerInv
      <4>. QED BY <3>2, <4>1 DEF Fresh
    <3>. QED BY <2>1, <3>1, <3>2
  <2>3. NonePending(info) => check_subscribe_status(info) = {}
    BY DEF NonePending, check_subscribe_status
  <2>. QED BY <2>1, <2>2, <2>3 DEF StructureOK, ChainDrivesPending, TimerInv
<1>. QED BY Invariance, <1>1, PTL

\* What a strategy wants is requested, subscribed or given up, and what is shown as
\* Subscribed is served once everything has settled, whatever answers of older requests,
\* lost links, logouts, re-created APIs and refused sends came in between.
THEOREM SubscriptionsAreKept == Spec => []SubscriptionsKept
<1>1. IInv => SubscriptionsKept
  <2>. SUFFICES ASSUME IInv PROVE SubscriptionsKept OBVIOUS
  <2>1. SubscribedIsServed
    <3>1. SUFFICES ASSUME Settled, NEW x \in DOMAIN info, x \notin failed, info[x].state = "Subscribed"
                   PROVE  x \in served
      BY DEF SubscribedIsServed
    <3>2. Len(<<>>) = 0 /\ ~Cut(<<>>) /\ (\A y : ~SubLast(<<>>, y)) /\ \A y : ~InBatch(<<>>, y)
      BY DEF Cut, SubLast, InBatch
    <3>3. LoggedInFor(wire) BY <3>1, <3>2 DEF Settled, LoggedInFor, IInv, LinkInv
    <3>4. info[x].subscribers # {} BY <3>1 DEF IInv, NoOrphans
    <3>5. Covered(batches, wire, served, x) BY <3>1, <3>3, <3>4 DEF IInv, WantedInv, Kept
    <3>6. batches = <<>> /\ wire = <<>> BY <3>1 DEF Settled, IInv, TimerInv
    <3>. QED BY <3>2, <3>5, <3>6 DEF Covered
  <2>. QED BY <2>1 DEF IInv, SubscriptionsKept
<1>. QED BY Invariance, <1>1, PTL
=============================================================================
