--------------------------- MODULE TdSync_proofs ---------------------------
(***************************************************************************)
(* StructureOK and TradeOnce are invariants of Spec when neither Backlog   *)
(* nor EarlyOrders is switched on.                                         *)
(***************************************************************************)
EXTENDS TdSync, FiniteSetTheorems, SequenceTheorems, WellFoundedInduction, TLAPS

-----------------------------------------------------------------------------
(* Types. *)

Record(kinds) ==
  [k : kinds, oid : Nat, own : BOOLEAN, v : Nat, t : Nat, n : Nat, id : Nat, seq : Nat]

RowKinds == {"ord", "trd", "pos", "acc"}
Rows     == Record(RowKinds)
Tasks    == Record(RowKinds \cup {"del"})
Reports  == Record(RowKinds \cup {"zero"})
Statuses == [k : {"st"}, st : {"LoggingIn", "Ready", "Offline"}]
Frames   == Reports \cup Statuses

Events == [k : {"ord"}, ref : Refs, v : Nat, t : Nat] \cup [k : {"trd"}, ref : Refs, id : Nat]

(* Partial functions by order id. *)
Partial(S) == UNION {[D -> S] : D \in SUBSET Nat}

Sessions ==
  [st : {"none", "conn", "login", "load", "flush", "ready", "off"}, seq : Nat,
   map : Partial(Nat), mine : SUBSET Nat, base : Partial(Record({"ord"})), keys : SUBSET Nat,
   cnt : Partial(Nat), lastO : Seq(Rows), lastT : Seq(Rows), pos : Nat,
   buf : [ord : Seq(Events), trd : Seq(Events)], hold : BOOLEAN, ready : BOOLEAN,
   logged : BOOLEAN]

Counterparty ==
  [log : Seq(Events), v : [Refs -> Nat], t : [Refs -> Nat], trades : Nat, held : BOOLEAN,
   live : SUBSET Own, asked : SUBSET Own]

-----------------------------------------------------------------------------
(* The gateway and the database. *)

TradesIn(s) == {s[i] : i \in {j \in DOMAIN s : s[j].k = "trd"}}

(* No trade is in a sequence twice. *)
Once(s) == \A i, j \in DOMAIN s : s[i].k = "trd" /\ s[j].k = "trd" /\ s[i].id = s[j].id => i = j

(* The trades that the gateway has given a seq: each has its row, or will. *)
Issued == Trades(db) \cup TradesIn(pq)

StoreInv ==
  /\ db \subseteq Rows /\ IsFiniteSet(db)
  /\ pq \in Seq(Tasks)
  /\ CommitsInSeqOrder
  /\ \A r, q \in Issued : r.id = q.id => r = q
  /\ \A r \in Issued : r.seq > 0

(* The latest order and the latest trade: the trade was given a seq. *)
LatestInv(s) ==
  /\ \A i \in DOMAIN s.lastO : i = 1 /\ s.lastO[i].k = "ord"
  /\ \A i \in DOMAIN s.lastT : i = 1 /\ s.lastT[i].k = "trd"
  /\ TradesIn(s.lastT) \subseteq Issued

GatewayInv ==
  /\ g \in Sessions /\ ctp \in Counterparty /\ alloc \in Nat /\ fresh \in Nat
  /\ g.st \in {"login", "load", "flush", "ready", "off"} => g.logged
  /\ g.st = "none" => ~g.logged
  /\ g.st # "load" => g.buf = NoReports
  /\ Len(g.buf.ord) + Len(g.buf.trd) <= g.pos /\ g.pos <= Len(ctp.log)
  /\ g.logged =>
       /\ \A r \in db : r.seq <= g.seq
       /\ \A i \in DOMAIN pq : pq[i].seq <= g.seq
       /\ \A r \in Issued : r.id \in g.keys
       /\ LatestInv(g)

-----------------------------------------------------------------------------
(* The channel. *)

Below(n) == g.logged => n <= g.seq

(* From place p on the channel holds no Ready, and its seqs grow. *)
Orderly(s, p) ==
  \A q \in DOMAIN s : q >= p =>
    /\ s[q].k = "st" => s[q].st # "Ready"
    /\ s[q].k # "st" => /\ Below(s[q].seq)
                        /\ \A r \in DOMAIN s : r > q /\ s[r].k # "st" => s[q].seq < s[r].seq

(* So it is behind a trade that is not committed. *)
Guarded(s) == \A p \in DOMAIN s : s[p].k = "trd" /\ s[p] \notin db => Orderly(s, p)

ChannelInv ==
  /\ ch \in Seq(Frames)
  /\ TradesIn(ch) \subseteq Issued
  /\ Guarded(ch)

-----------------------------------------------------------------------------
(* The strategy's side. *)

Gaps ==
  [active : BOOLEAN, from : Nat, to : Nat, attempts : 0..kGapRetryMax,
   trigger : Seq(Reports), staged : Seq(Reports)]

Contexts ==
  [up : {"closed", "open", "up"}, scan : BOOLEAN, W : Nat, hasW : BOOLEAN, last : Nat,
   hasLast : BOOLEAN, pending : Seq([from : Nat, to : Nat]),
   prev : {"", "LoggingIn", "Ready", "Offline"}, seen : SUBSET Nat, gap : Gaps,
   replay : Seq(Reports), deferred : Seq(Frames)]

ContextType(x) ==
  /\ x \in Contexts /\ Len(x.replay) <= ReplaySlots
  /\ ~x.gap.active => x.gap = NoGap

UserType(u) ==
  /\ u = [ord |-> u.ord, trd |-> u.trd, lost |-> u.lost]
  /\ DOMAIN u.trd \subseteq Nat
  /\ u.lost \subseteq {"exhausted", "overflow", "reset"}

(* Frames that wait in the process, and the trades that came to it. *)
Waiting(x) == x.replay \o x.deferred \o x.gap.trigger \o x.gap.staged

Got(x, u) == TradesIn(Waiting(x)) \cup {r \in Issued : r.id \in DOMAIN u.trd}

(* While a gap is open nothing else waits.  The gap of the first frame is
   taken up in the call that finds it. *)
GapInv(x) ==
  /\ x.pending = <<>>
  /\ x.gap.active => x.hasLast /\ x.gap.to < x.last /\ x.replay = <<>> /\ x.deferred = <<>>

(* What came will not be admitted again, and none of it is in the gap. *)
TradesInv(x, u) ==
  /\ Once(Waiting(x))
  /\ Got(x, u) \subseteq Issued
  /\ \A r \in TradesIn(Waiting(x)) : r.id \notin DOMAIN u.trd
  /\ \A i \in DOMAIN u.trd : u.trd[i] = 1 /\ \E r \in Issued : r.id = i
  /\ \A r \in Got(x, u) : /\ admit_skips(x, r.seq)
                          /\ x.gap.active => ~(x.gap.from <= r.seq /\ r.seq <= x.gap.to)

(* s: the unread frames.  None of them resets the gate. *)
NoReset(x, s) ==
  /\ x.hasLast /\ Below(x.last) /\ Orderly(s, 1)
  /\ \A q \in DOMAIN s : s[q].k # "st" => x.last < s[q].seq

NoResetInv(x, u, s) == (\E r \in Got(x, u) : r \notin db) => NoReset(x, s)

StrategyInv(x, u, s) ==
  /\ ContextType(x) /\ UserType(u) /\ GapInv(x) /\ TradesInv(x, u) /\ NoResetInv(x, u, s)

ScanInv == sdk.scan => sdk.gap.active

IdleInv == sdk.up # "up" => sdk = [NewContext EXCEPT !.up = sdk.up] /\ user = NoUser

IInv ==
  /\ StoreInv /\ GatewayInv /\ ChannelInv /\ StrategyInv(sdk, user, ch) /\ IdleInv /\ ScanInv
  /\ Len(ch) <= MaxChannel + Len(ctp.log) * 3 + 4

-----------------------------------------------------------------------------
(* Lemmas about finite sets of numbers and rows. *)

(* Every set of natural numbers that is not empty has a least element. *)
LEMMA Least ==
    ASSUME NEW S \in SUBSET Nat, S # {}
    PROVE  \E x \in S : \A y \in S : x <= y
<1>1. IsWellFoundedOn(OpToRel(<, Nat), Nat)
  BY NatLessThanWellFounded
<1>2. PICK x \in S : \A y \in S : ~(<<y, x>> \in OpToRel(<, Nat))
  BY <1>1, WFMin
<1>3. \A y \in S : ~(y < x)
  BY <1>2 DEF OpToRel
<1>. QED
  BY <1>3

(* A finite one has a greatest element. *)
LEMMA Greatest ==
    ASSUME NEW S \in SUBSET Nat, IsFiniteSet(S), S # {}
    PROVE  \E x \in S : \A y \in S : y <= x
<1> DEFINE Lacks(T) == IsFiniteSet(T) /\ T # {} /\ ~ \E x \in T : \A y \in T : y <= x
           Bad == {Cardinality(T) : T \in {U \in SUBSET Nat : Lacks(U)}}
<1>1. SUFFICES ASSUME Lacks(S) PROVE FALSE
  OBVIOUS
<1>2. Bad \in SUBSET Nat /\ Bad # {}
  BY <1>1, FS_CardinalityType
<1>3. PICK n \in Bad : \A m \in Bad : n <= m
  <2> HIDE DEF Bad
  <2>. QED  BY <1>2, Least
<1>4. PICK T \in SUBSET Nat : Lacks(T) /\ n = Cardinality(T)
  BY <1>3
<1>5. PICK x \in T : TRUE
  BY <1>4
<1> DEFINE R == T \ {x}
<1>6. IsFiniteSet(R) /\ Cardinality(R) = n - 1 /\ n \in Nat
  BY <1>2, <1>4, <1>5, FS_RemoveElement
<1>7. ~ Lacks(R)
  <2>1. ASSUME Lacks(R) PROVE n - 1 \in Bad
    BY <1>6, <2>1
  <2>2. n \in Nat
    BY <1>6
  <2> HIDE DEF Bad
  <2>. QED  BY <1>3, <2>1, <2>2
<1>8. CASE R = {}
  <2>1. \A y \in T : y <= x
    BY <1>8
  <2>. QED  BY <2>1, <1>4, <1>5
<1>9. CASE R # {}
  <2>1. PICK z \in R : \A y \in R : y <= z
    BY <1>6, <1>7, <1>9
  <2>2. x \in Nat /\ z \in Nat /\ z \in T
    BY <1>4, <1>5
  <2>3. CASE x <= z
    <3>1. \A y \in T : y <= z
      BY <2>1, <2>3
    <3>. QED  BY <3>1, <2>2, <1>4
  <2>4. CASE z <= x
    <3>1. \A y \in T : y <= x
      BY <2>1, <2>2, <2>4
    <3>. QED  BY <3>1, <1>4, <1>5
  <2>. QED  BY <2>2, <2>3, <2>4
<1>. QED
  BY <1>8, <1>9

LEMMA MaxIsGreatest ==
    ASSUME NEW S \in SUBSET Nat, IsFiniteSet(S), S # {}
    PROVE  Max(S) \in S /\ \A y \in S : y <= Max(S)
<1>1. \E x \in S : \A y \in S : x >= y
  BY Greatest
<1>. QED
  BY <1>1 DEF Max

LEMMA MinIsLeast ==
    ASSUME NEW S \in SUBSET Nat, S # {}
    PROVE  Min(S) \in S /\ \A y \in S : Min(S) <= y
<1>1. \E x \in S : \A y \in S : x <= y
  BY Least
<1>. QED
  BY <1>1 DEF Min

LEMMA MaxOfTwo ==
    ASSUME NEW a \in Nat, NEW b \in Nat
    PROVE  Max({a, b}) \in Nat /\ a <= Max({a, b}) /\ b <= Max({a, b})
BY DEF Max

(* The seqs of a finite set of rows. *)
LEMMA SeqsOf ==
    ASSUME NEW S \in SUBSET Rows, IsFiniteSet(S)
    PROVE  IsFiniteSet({r.seq : r \in S}) /\ {r.seq : r \in S} \in SUBSET Nat
<1> DEFINE T == {r.seq : r \in S}
           f == [r \in S |-> r.seq]
<1>1. f \in Surjection(S, T)
  BY DEF Surjection
<1>2. IsFiniteSet(T)
  <2> HIDE DEF f, T
  <2>. QED  BY <1>1, FS_Surjection
<1>. QED
  BY <1>2 DEF Rows, Record

(* The greatest seq of a set of rows. *)
LEMMA MaxSeq ==
    ASSUME NEW d \in SUBSET Rows, IsFiniteSet(d)
    PROVE  query_max_seq(d) \in Nat /\ \A r \in d : r.seq <= query_max_seq(d)
<1> DEFINE T == {r.seq : r \in d}
<1>1. IsFiniteSet(T) /\ T \in SUBSET Nat
  BY SeqsOf
<1>3. \A r \in d : r.seq \in T
  OBVIOUS
<1> HIDE DEF T
<1>4. IsFiniteSet({0} \cup T) /\ {0} \cup T \in SUBSET Nat /\ {0} \cup T # {}
  <2>1. IsFiniteSet({0})
    BY FS_Singleton
  <2>2. IsFiniteSet({0} \cup T)
    BY <1>1, <2>1, FS_Union
  <2>. QED  BY <1>1, <2>2
<1>5. query_max_seq(d) = Max({0} \cup T)
  BY DEF query_max_seq, T
<1>. QED
  BY <1>3, <1>4, <1>5, MaxIsGreatest

(* The rows of a finite set can be put in order. *)
InOrder(S, s) ==
    /\ s \in [1..Cardinality(S) -> S]
    /\ \A i, j \in 1..Cardinality(S) : i < j => s[i] # s[j] /\ s[i].seq <= s[j].seq

LEMMA OrderExists ==
    ASSUME NEW S \in SUBSET Rows, IsFiniteSet(S)
    PROVE  \E s : InOrder(S, s)
<1> DEFINE Lacks(T) == IsFiniteSet(T) /\ ~ \E s : InOrder(T, s)
           Bad == {Cardinality(T) : T \in {U \in SUBSET Rows : Lacks(U)}}
<1>1. SUFFICES ASSUME Lacks(S) PROVE FALSE
  OBVIOUS
<1>2. Bad \in SUBSET Nat /\ Bad # {}
  BY <1>1, FS_CardinalityType
<1>3. PICK n \in Bad : \A m \in Bad : n <= m
  <2> HIDE DEF Bad
  <2>. QED  BY <1>2, Least
<1>4. PICK T \in SUBSET Rows : Lacks(T) /\ n = Cardinality(T)
  BY <1>3
<1>5. n \in Nat
  BY <1>2
<1>6. T # {}
  <2>1. SUFFICES ASSUME T = {} PROVE \E s : InOrder(T, s)
    BY <1>4
  <2>2. Cardinality(T) = 0
    BY <2>1, FS_EmptySet
  <2>3. InOrder(T, [i \in 1..0 |-> 0])
    BY <2>1, <2>2 DEF InOrder
  <2>. QED  BY <2>3
<1>7. PICK m \in T : \A r \in T : r.seq <= m.seq
  <2>1. IsFiniteSet({r.seq : r \in T}) /\ {r.seq : r \in T} \in SUBSET Nat
    BY <1>4, SeqsOf
  <2>2. {r.seq : r \in T} # {}
    BY <1>6
  <2>3. PICK x \in {r.seq : r \in T} : \A y \in {r.seq : r \in T} : y <= x
    <3> DEFINE Q == {r.seq : r \in T}
    <3> HIDE DEF Q
    <3>1. IsFiniteSet(Q) /\ Q \in SUBSET Nat /\ Q # {}
      BY <2>1, <2>2 DEF Q
    <3>2. \E x \in Q : \A y \in Q : y <= x
      BY <3>1, Greatest
    <3>. QED  BY <3>2 DEF Q
  <2>. QED  BY <2>3
<1> DEFINE R == T \ {m}
<1>8. IsFiniteSet(R) /\ Cardinality(R) = n - 1 /\ R \in SUBSET Rows /\ n # 0
  BY <1>4, <1>5, <1>7, FS_RemoveElement, FS_EmptySet
<1>9. PICK t : InOrder(R, t)
  <2>1. ASSUME Lacks(R) PROVE n - 1 \in Bad
    BY <1>8, <2>1
  <2> HIDE DEF Bad
  <2>2. ~ Lacks(R)
    BY <1>3, <1>5, <2>1
  <2>. QED  BY <2>2, <1>8
<1> DEFINE s == [i \in 1..n |-> IF i = n THEN m ELSE t[i]]
<1>10. \A i \in 1..n : i # n => t[i] \in R
  <2>1. t \in [1..(n - 1) -> R]
    BY <1>8, <1>9 DEF InOrder
  <2> HIDE DEF R
  <2>. QED  BY <2>1, <1>5
<1>11. s \in [1..n -> T]
  BY <1>7, <1>10
<1>12. ASSUME NEW i \in 1..n, NEW j \in 1..n, i < j PROVE s[i] # s[j] /\ s[i].seq <= s[j].seq
  <2>1. CASE j = n
    <3>1. s[j] = m /\ s[i] = t[i] /\ t[i] \in R
      BY <2>1, <1>5, <1>10, <1>12
    <3>. QED  BY <3>1, <1>7
  <2>2. CASE j # n
    <3>1. s[j] = t[j] /\ s[i] = t[i] /\ i \in 1..(n - 1) /\ j \in 1..(n - 1)
      BY <2>2, <1>5, <1>12
    <3>. QED  BY <3>1, <1>8, <1>9, <1>12 DEF InOrder
  <2>. QED  BY <2>1, <2>2
<1>13. InOrder(T, s)
  BY <1>4, <1>11, <1>12 DEF InOrder
<1>. QED
  BY <1>13, <1>4

LEMMA Sorted ==
    ASSUME NEW S \in SUBSET Rows, IsFiniteSet(S)
    PROVE  /\ BySeq(S) \in Seq(S)
           /\ \A i, j \in DOMAIN BySeq(S) : BySeq(S)[i] = BySeq(S)[j] => i = j
<1>1. InOrder(S, BySeq(S))
  <2>1. \E s \in [1..Cardinality(S) -> S] :
          \A i, j \in 1..Cardinality(S) : i < j => s[i] # s[j] /\ s[i].seq <= s[j].seq
    BY OrderExists DEF InOrder
  <2>. QED  BY <2>1 DEF InOrder, BySeq
<1>2. Cardinality(S) \in Nat
  BY FS_CardinalityType
<1>3. BySeq(S) \in Seq(S) /\ DOMAIN BySeq(S) = 1..Cardinality(S)
  BY <1>1, <1>2 DEF InOrder
<1>. QED
  BY <1>1, <1>2, <1>3 DEF InOrder

-----------------------------------------------------------------------------
(* Lemmas about sequences of records. *)

LEMMA InSeq ==
    ASSUME NEW S, NEW s \in Seq(S), NEW i \in DOMAIN s
    PROVE  s[i] \in S /\ i \in 1..Len(s) /\ (s[i].k = "trd" => s[i] \in TradesIn(s))
BY DEF TradesIn

LEMMA TradesInSeq ==
    ASSUME NEW S, NEW s \in Seq(S), NEW r \in TradesIn(s)
    PROVE  r \in S /\ r.k = "trd" /\ \E i \in DOMAIN s : s[i] = r
BY DEF TradesIn

LEMMA JoinedTrades ==
    ASSUME NEW S, NEW s \in Seq(S), NEW t \in Seq(S)
    PROVE  /\ s \o t \in Seq(S)
           /\ TradesIn(s \o t) = TradesIn(s) \cup TradesIn(t)
<1>1. /\ s \o t \in Seq(S) /\ Len(s \o t) = Len(s) + Len(t)
      /\ \A i \in 1..(Len(s) + Len(t)) : (s \o t)[i] = IF i <= Len(s) THEN s[i] ELSE t[i - Len(s)]
  BY ConcatProperties
<1>2. ASSUME NEW r \in TradesIn(s \o t) PROVE r \in TradesIn(s) \cup TradesIn(t)
  <2>1. PICK i \in 1..(Len(s) + Len(t)) : r = (s \o t)[i] /\ r.k = "trd"
    BY <1>1, <1>2 DEF TradesIn
  <2>2. CASE i <= Len(s)
    <3>1. r = s[i] /\ i \in DOMAIN s
      BY <1>1, <2>1, <2>2
    <3>. QED  BY <3>1, <2>1 DEF TradesIn
  <2>3. CASE ~(i <= Len(s))
    <3>1. r = t[i - Len(s)] /\ i - Len(s) \in DOMAIN t
      BY <1>1, <2>1, <2>3
    <3>. QED  BY <3>1, <2>1 DEF TradesIn
  <2>. QED  BY <2>2, <2>3
<1>3. ASSUME NEW r \in TradesIn(s) PROVE r \in TradesIn(s \o t)
  <2>1. PICK i \in DOMAIN s : r = s[i] /\ r.k = "trd"
    BY <1>3 DEF TradesIn
  <2>2. i \in 1..(Len(s) + Len(t)) /\ (s \o t)[i] = r
    BY <1>1, <2>1
  <2>. QED  BY <1>1, <2>1, <2>2 DEF TradesIn
<1>4. ASSUME NEW r \in TradesIn(t) PROVE r \in TradesIn(s \o t)
  <2>1. PICK i \in DOMAIN t : r = t[i] /\ r.k = "trd"
    BY <1>4 DEF TradesIn
  <2>2. i + Len(s) \in 1..(Len(s) + Len(t)) /\ (s \o t)[i + Len(s)] = t[i]
    BY <1>1, <2>1
  <2>. QED  BY <1>1, <2>1, <2>2 DEF TradesIn
<1>. QED
  BY <1>1, <1>2, <1>3, <1>4

Apart(s, t) == \A r \in TradesIn(s), q \in TradesIn(t) : r.id # q.id

LEMMA JoinedOnce ==
    ASSUME NEW S, NEW s \in Seq(S), NEW t \in Seq(S)
    PROVE  Once(s \o t) <=> Once(s) /\ Once(t) /\ Apart(s, t)
<1>1. /\ s \o t \in Seq(S) /\ Len(s \o t) = Len(s) + Len(t)
      /\ \A i \in 1..(Len(s) + Len(t)) : (s \o t)[i] = IF i <= Len(s) THEN s[i] ELSE t[i - Len(s)]
  BY ConcatProperties
<1> DEFINE w == s \o t
<1>2. DOMAIN w = 1..(Len(s) + Len(t)) /\ DOMAIN s = 1..Len(s) /\ DOMAIN t = 1..Len(t)
      /\ Len(s) \in Nat /\ Len(t) \in Nat
  BY <1>1
<1>3. /\ \A i \in DOMAIN s : i \in DOMAIN w /\ w[i] = s[i]
      /\ \A i \in DOMAIN t : i + Len(s) \in DOMAIN w /\ w[i + Len(s)] = t[i]
      /\ \A i \in DOMAIN w : i \in DOMAIN s \/ (i - Len(s) \in DOMAIN t /\ w[i] = t[i - Len(s)])
  BY <1>1, <1>2
<1> HIDE DEF w
<1>4. ASSUME Once(w) PROVE Once(s) /\ Once(t) /\ Apart(s, t)
  <2>1. Once(s)
    BY <1>3, <1>4 DEF Once
  <2>2. Once(t)
    <3>1. ASSUME NEW i \in DOMAIN t, NEW j \in DOMAIN t,
                 t[i].k = "trd" /\ t[j].k = "trd" /\ t[i].id = t[j].id
          PROVE  i = j
      <4>1. i + Len(s) = j + Len(s)
        BY <1>3, <1>4, <3>1 DEF Once
      <4>. QED  BY <4>1, <1>2
    <3>. QED  BY <3>1 DEF Once
  <2>3. ASSUME NEW r \in TradesIn(s), NEW q \in TradesIn(t), r.id = q.id PROVE FALSE
    <3>1. PICK i \in DOMAIN s : r = s[i] /\ r.k = "trd"
      BY <2>3 DEF TradesIn
    <3>2. PICK j \in DOMAIN t : q = t[j] /\ q.k = "trd"
      BY <2>3 DEF TradesIn
    <3>3. i = j + Len(s)
      BY <1>3, <1>4, <2>3, <3>1, <3>2 DEF Once
    <3>. QED  BY <3>1, <3>2, <3>3, <1>2
  <2>. QED  BY <2>1, <2>2, <2>3 DEF Apart
<1>5. ASSUME Once(s), Once(t), Apart(s, t) PROVE Once(w)
  <2>1. SUFFICES ASSUME NEW i \in DOMAIN w, NEW j \in DOMAIN w,
                        w[i].k = "trd" /\ w[j].k = "trd" /\ w[i].id = w[j].id
                 PROVE  i = j
    BY DEF Once
  <2>2. \A n \in DOMAIN s : w[n].k = "trd" => w[n] \in TradesIn(s)
    BY <1>3 DEF TradesIn
  <2>3. \A n \in DOMAIN w : n \notin DOMAIN s /\ w[n].k = "trd" => w[n] \in TradesIn(t)
    BY <1>3 DEF TradesIn
  <2>4. CASE i \in DOMAIN s /\ j \in DOMAIN s
    BY <1>3, <1>5, <2>1, <2>4 DEF Once
  <2>5. CASE i \notin DOMAIN s /\ j \notin DOMAIN s
    <3>1. i - Len(s) = j - Len(s)
      BY <1>3, <1>5, <2>1, <2>5 DEF Once
    <3>. QED  BY <3>1, <1>2
  <2>6. CASE (i \in DOMAIN s) # (j \in DOMAIN s)
    BY <1>5, <2>1, <2>2, <2>3, <2>6 DEF Apart
  <2>. QED  BY <2>4, <2>5, <2>6
<1>. QED
  BY <1>4, <1>5 DEF w

LEMMA CutTrades ==
    ASSUME NEW S, NEW s \in Seq(S), NEW m \in 1..(Len(s) + 1), NEW n \in 0..Len(s)
    PROVE  /\ SubSeq(s, m, n) \in Seq(S) /\ Len(SubSeq(s, m, n)) <= Len(s)
           /\ TradesIn(SubSeq(s, m, n)) \subseteq TradesIn(s)
           /\ Once(s) => Once(SubSeq(s, m, n))
           /\ \A i \in DOMAIN SubSeq(s, m, n) :
                 SubSeq(s, m, n)[i] = s[m + i - 1] /\ m + i - 1 \in DOMAIN s
<1> DEFINE w == SubSeq(s, m, n)
<1>1. /\ w \in Seq(S) /\ Len(w) = IF m <= n THEN n - m + 1 ELSE 0
      /\ \A i \in 1..(n - m + 1) : w[i] = s[m + i - 1]
  <2>1. \A i \in m..n : s[i] \in S
    OBVIOUS
  <2>. QED  BY <2>1, SubSeqProperties
<1>2. \A i \in DOMAIN w : w[i] = s[m + i - 1] /\ m + i - 1 \in DOMAIN s /\ i \in Nat
  BY <1>1
<1>3. Len(w) <= Len(s)
  BY <1>1
<1> HIDE DEF w
<1>4. TradesIn(w) \subseteq TradesIn(s)
  BY <1>2 DEF TradesIn
<1>5. ASSUME Once(s) PROVE Once(w)
  <2>1. SUFFICES ASSUME NEW i \in DOMAIN w, NEW j \in DOMAIN w,
                        w[i].k = "trd" /\ w[j].k = "trd" /\ w[i].id = w[j].id
                 PROVE  i = j
    BY DEF Once
  <2>2. m + i - 1 = m + j - 1
    BY <1>2, <1>5, <2>1 DEF Once
  <2>. QED  BY <1>2, <2>2
<1>. QED
  BY <1>1, <1>2, <1>3, <1>4, <1>5 DEF w

LEMMA NoTrades == TradesIn(<<>>) = {} /\ Once(<<>>)
BY DEF TradesIn, Once

LEMMA OneFrame ==
    ASSUME NEW S, NEW f \in S
    PROVE  /\ <<f>> \in Seq(S) /\ Once(<<f>>)
           /\ TradesIn(<<f>>) = IF f.k = "trd" THEN {f} ELSE {}
<1>1. <<f>> \in Seq(S) /\ DOMAIN <<f>> = {1} /\ <<f>>[1] = f
  OBVIOUS
<1>. QED
  BY <1>1 DEF Once, TradesIn

(* The rows of a gap: each trade once. *)
LEMMA RowsOfTable ==
    ASSUME NEW d \in SUBSET Rows, IsFiniteSet(d), NEW table, NEW from \in Nat, NEW to \in Nat,
           \A r, q \in Trades(d) : r.id = q.id => r = q
    PROVE  LET s == db_query_seq_range(d, table, from, to)
           IN  /\ s \in Seq(Rows)
               /\ table # "trd" => TradesIn(s) = {}
               /\ TradesIn(s) \subseteq {r \in Trades(d) : from <= r.seq /\ r.seq <= to}
               /\ Once(s)
<1> DEFINE S == {r \in d : r.k = table /\ from <= r.seq /\ r.seq <= to}
           s == db_query_seq_range(d, table, from, to)
<1>1. IsFiniteSet(S) /\ S \in SUBSET Rows
  BY FS_Subset
<1>2. \A r \in S : r.k = table /\ r \in d /\ from <= r.seq /\ r.seq <= to
  OBVIOUS
<1>3. s = BySeq(S)
  BY DEF db_query_seq_range
<1> HIDE DEF S, s
<1>4. s \in Seq(S) /\ \A i, j \in DOMAIN s : s[i] = s[j] => i = j
  BY <1>1, <1>3, Sorted
<1>5. s \in Seq(Rows)
  BY <1>1, <1>4, SeqMonotonic
<1>6. \A i \in DOMAIN s : s[i] \in S
  BY <1>4
<1>7. TradesIn(s) \subseteq {r \in Trades(d) : from <= r.seq /\ r.seq <= to} /\ (table # "trd" => TradesIn(s) = {})
  BY <1>2, <1>6 DEF TradesIn, Trades
<1>8. Once(s)
  BY <1>2, <1>4, <1>6 DEF Once, Trades
<1>. QED
  BY <1>5, <1>7, <1>8 DEF s

LEMMA JoinedRows ==
    ASSUME NEW a \in Seq(Rows), NEW b \in Seq(Rows), Once(a), Once(b),
           TradesIn(a) = {} \/ TradesIn(b) = {}
    PROVE  /\ a \o b \in Seq(Rows) /\ Once(a \o b)
           /\ TradesIn(a) = {} => TradesIn(a \o b) = TradesIn(b)
           /\ TradesIn(b) = {} => TradesIn(a \o b) = TradesIn(a)
<1>1. Apart(a, b)
  BY DEF Apart
<1>2. a \o b \in Seq(Rows) /\ TradesIn(a \o b) = TradesIn(a) \cup TradesIn(b)
  BY JoinedTrades
<1>3. Once(a \o b)
  BY <1>1, JoinedOnce
<1>. QED
  BY <1>2, <1>3

LEMMA RowsOfGap ==
    ASSUME NEW d \in SUBSET Rows, IsFiniteSet(d), NEW from \in Nat, NEW to \in Nat,
           \A r, q \in Trades(d) : r.id = q.id => r = q
    PROVE  /\ GapRows(d, from, to) \in Seq(Reports) /\ Once(GapRows(d, from, to))
           /\ TradesIn(GapRows(d, from, to)) \subseteq {r \in Trades(d) : from <= r.seq /\ r.seq <= to}
<1> DEFINE a == db_query_seq_range(d, "ord", from, to)
           b == db_query_seq_range(d, "trd", from, to)
           c == db_query_seq_range(d, "pos", from, to)
           e == db_query_seq_range(d, "acc", from, to)
<1>1. a \in Seq(Rows) /\ TradesIn(a) = {} /\ Once(a)
  BY RowsOfTable
<1>2. b \in Seq(Rows) /\ Once(b) /\ TradesIn(b) \subseteq {r \in Trades(d) : from <= r.seq /\ r.seq <= to}
  BY RowsOfTable
<1>3. c \in Seq(Rows) /\ TradesIn(c) = {} /\ Once(c)
  BY RowsOfTable
<1>4. e \in Seq(Rows) /\ TradesIn(e) = {} /\ Once(e)
  BY RowsOfTable
<1>5. GapRows(d, from, to) = ((a \o b) \o c) \o e
  BY DEF GapRows
<1> HIDE DEF a, b, c, e
<1>6. a \o b \in Seq(Rows) /\ TradesIn(a \o b) = TradesIn(b) /\ Once(a \o b)
  BY <1>1, <1>2, JoinedRows, Zenon
<1>7. (a \o b) \o c \in Seq(Rows) /\ TradesIn((a \o b) \o c) = TradesIn(b) /\ Once((a \o b) \o c)
  BY <1>6, <1>3, JoinedRows, Zenon
<1>8. ((a \o b) \o c) \o e \in Seq(Rows) /\ TradesIn(((a \o b) \o c) \o e) = TradesIn(b)
      /\ Once(((a \o b) \o c) \o e)
  BY <1>7, <1>4, JoinedRows, Zenon
<1>9. Rows \subseteq Reports
  BY DEF Rows, Reports, Record
<1>. QED
  BY <1>2, <1>5, <1>8, <1>9, SeqMonotonic

-----------------------------------------------------------------------------
(* Lemmas about the context of a strategy. *)

LEMMA WaitingParts ==
    ASSUME NEW x \in Contexts
    PROVE  /\ TradesIn(Waiting(x)) = TradesIn(x.replay) \cup TradesIn(x.deferred)
                                       \cup TradesIn(x.gap.trigger) \cup TradesIn(x.gap.staged)
           /\ Once(Waiting(x)) <=>
                /\ Once(x.replay) /\ Once(x.deferred) /\ Once(x.gap.trigger) /\ Once(x.gap.staged)
                /\ Apart(x.replay, x.deferred) /\ Apart(x.replay, x.gap.trigger)
                /\ Apart(x.replay, x.gap.staged) /\ Apart(x.deferred, x.gap.trigger)
                /\ Apart(x.deferred, x.gap.staged) /\ Apart(x.gap.trigger, x.gap.staged)
<1> DEFINE a == x.replay  b == x.deferred  c == x.gap.trigger  e == x.gap.staged
<1>1. a \in Seq(Frames) /\ b \in Seq(Frames) /\ c \in Seq(Frames) /\ e \in Seq(Frames)
  <2>1. a \in Seq(Reports) /\ b \in Seq(Frames) /\ c \in Seq(Reports) /\ e \in Seq(Reports)
    BY DEF Contexts, Gaps
  <2>2. Reports \subseteq Frames
    BY DEF Frames
  <2> HIDE DEF a, b, c, e
  <2>. QED  BY <2>1, <2>2, SeqMonotonic
<1>2. Waiting(x) = ((a \o b) \o c) \o e
  BY DEF Waiting
<1> HIDE DEF a, b, c, e
<1> DEFINE ab == a \o b
<1>3. /\ ab \in Seq(Frames) /\ TradesIn(ab) = TradesIn(a) \cup TradesIn(b)
      /\ Once(ab) <=> Once(a) /\ Once(b) /\ Apart(a, b)
  BY <1>1, JoinedTrades, JoinedOnce, Zenon
<1> HIDE DEF ab
<1> DEFINE abc == ab \o c
<1>8. ab \in Seq(Frames)
  BY <1>3
<1>4. /\ abc \in Seq(Frames) /\ TradesIn(abc) = TradesIn(ab) \cup TradesIn(c)
      /\ Once(abc) <=> Once(ab) /\ Once(c) /\ Apart(ab, c)
  BY <1>1, <1>8, JoinedTrades, JoinedOnce, Zenon
<1> HIDE DEF abc
<1>9. abc \in Seq(Frames)
  BY <1>4
<1>5. /\ TradesIn(abc \o e) = TradesIn(abc) \cup TradesIn(e)
      /\ Once(abc \o e) <=> Once(abc) /\ Once(e) /\ Apart(abc, e)
  BY <1>1, <1>9, JoinedTrades, JoinedOnce, Zenon
<1>6. /\ Apart(ab, c) <=> Apart(a, c) /\ Apart(b, c)
      /\ Apart(abc, e) <=> Apart(a, e) /\ Apart(b, e) /\ Apart(c, e)
  BY <1>3, <1>4 DEF Apart
<1>7. /\ TradesIn(Waiting(x)) = TradesIn(a) \cup TradesIn(b) \cup TradesIn(c) \cup TradesIn(e)
      /\ Once(Waiting(x)) <=> /\ Once(a) /\ Once(b) /\ Once(c) /\ Once(e)
                              /\ Apart(a, b) /\ Apart(a, c) /\ Apart(a, e) /\ Apart(b, c)
                              /\ Apart(b, e) /\ Apart(c, e)
  BY <1>2, <1>3, <1>4, <1>5, <1>6 DEF ab, abc
<1>. QED
  BY <1>7 DEF a, b, c, e

(* The same, when one of the two halves is empty. *)
LEMMA WaitingOpen ==
    ASSUME NEW x \in Contexts, x.replay = <<>>, x.deferred = <<>>
    PROVE  /\ TradesIn(Waiting(x)) = TradesIn(x.gap.trigger) \cup TradesIn(x.gap.staged)
           /\ Once(Waiting(x)) <=> Once(x.gap.trigger) /\ Once(x.gap.staged)
                                   /\ Apart(x.gap.trigger, x.gap.staged)
BY WaitingParts, NoTrades DEF Apart

LEMMA WaitingShut ==
    ASSUME NEW x \in Contexts, x.gap = NoGap
    PROVE  /\ TradesIn(Waiting(x)) = TradesIn(x.replay) \cup TradesIn(x.deferred)
           /\ Once(Waiting(x)) <=> Once(x.replay) /\ Once(x.deferred) /\ Apart(x.replay, x.deferred)
<1>1. x.gap.trigger = <<>> /\ x.gap.staged = <<>>
  BY DEF NoGap
<1>. QED
  BY <1>1, WaitingParts, NoTrades DEF Apart

SameGate(x, y) ==
    y.W = x.W /\ y.hasW = x.hasW /\ y.last = x.last /\ y.hasLast = x.hasLast

LEMMA GateFacts ==
    ASSUME NEW x, NEW y, SameGate(x, y)
    PROVE  /\ \A n : admit_skips(y, n) <=> admit_skips(x, n)
           /\ \A s : NoReset(y, s) <=> NoReset(x, s)
BY DEF SameGate, admit_skips, NoReset

(* What may come to the process: a trade that has not come. *)
Fresh(x, u, s, r) ==
    /\ r \in Issued /\ r.id \notin DOMAIN u.trd
    /\ \A q \in TradesIn(Waiting(x)) : q.id # r.id
    /\ admit_skips(x, r.seq)
    /\ r \notin db => NoReset(x, s)

(* The frames that wait change: some go, the trades of N come. *)
LEMMA Regroup ==
    ASSUME StoreInv, NEW x, NEW u, NEW s, StrategyInv(x, u, s), NEW y, NEW N,
           ContextType(y), GapInv(y), SameGate(x, y), Once(Waiting(y)),
           TradesIn(Waiting(y)) \subseteq TradesIn(Waiting(x)) \cup N,
           \A r \in N : Fresh(x, u, s, r),
           y.gap.active => \A r \in Got(x, u) \cup N : ~(y.gap.from <= r.seq /\ r.seq <= y.gap.to)
    PROVE  StrategyInv(y, u, s)
<1>1. UserType(u) /\ TradesInv(x, u) /\ NoResetInv(x, u, s)
  BY DEF StrategyInv
<1>2. Got(y, u) \subseteq Got(x, u) \cup N
  BY DEF Got
<1>3. \A r \in TradesIn(Waiting(y)) : r.id \notin DOMAIN u.trd
  BY <1>1 DEF TradesInv, Fresh
<1>4. \A r \in Got(y, u) : r \in Issued /\ admit_skips(y, r.seq)
  BY <1>1, <1>2, GateFacts DEF TradesInv, Fresh
<1>5. \A r \in Got(y, u) : y.gap.active => ~(y.gap.from <= r.seq /\ r.seq <= y.gap.to)
  BY <1>2
<1>6. TradesInv(y, u)
  BY <1>1, <1>3, <1>4, <1>5 DEF TradesInv
<1>7. NoResetInv(y, u, s)
  BY <1>1, <1>2, GateFacts DEF NoResetInv, Fresh
<1>. QED
  BY <1>1, <1>6, <1>7 DEF StrategyInv

LEMMA RegroupNone ==
    ASSUME StoreInv, NEW x, NEW u, NEW s, StrategyInv(x, u, s), NEW y,
           ContextType(y), GapInv(y), SameGate(x, y), Once(Waiting(y)),
           TradesIn(Waiting(y)) \subseteq TradesIn(Waiting(x)),
           y.gap.active => x.gap.active /\ y.gap.from = x.gap.from /\ y.gap.to = x.gap.to
    PROVE  StrategyInv(y, u, s)
<1> DEFINE N == {r \in Issued : FALSE}
<1>1. N = {}
  OBVIOUS
<1>2. y.gap.active => \A r \in Got(x, u) \cup N : ~(y.gap.from <= r.seq /\ r.seq <= y.gap.to)
  BY <1>1 DEF StrategyInv, TradesInv
<1>3. TradesIn(Waiting(y)) \subseteq TradesIn(Waiting(x)) \cup N /\ \A r \in N : Fresh(x, u, s, r)
  BY <1>1
<1> HIDE DEF N
<1>. QED
  BY <1>2, <1>3, Regroup

(* A frame leaves those that wait for the strategy's hand. *)
LEMMA Hand ==
    ASSUME NEW x, NEW u, NEW s, StrategyInv(x, u, s), NEW y, NEW f \in Frames,
           ContextType(y), GapInv(y), SameGate(x, y), Once(Waiting(y)),
           TradesIn(Waiting(y)) \subseteq TradesIn(Waiting(x)),
           y.gap.active => x.gap.active /\ y.gap.from = x.gap.from /\ y.gap.to = x.gap.to,
           f.k = "trd" => f \in TradesIn(Waiting(x)) /\ \A r \in TradesIn(Waiting(y)) : r.id # f.id,
           StoreInv
    PROVE  StrategyInv(y, Told(u, f), s)
<1> DEFINE v == Told(u, f)
<1>1. UserType(u) /\ TradesInv(x, u) /\ NoResetInv(x, u, s)
  BY DEF StrategyInv
<1>2. CASE f.k # "trd"
  <2>1. v.trd = u.trd /\ UserType(v)
    BY <1>1, <1>2 DEF Told, UserType
  <2> HIDE DEF v
  <2>2. Got(y, v) \subseteq Got(x, u)
    BY <2>1 DEF Got
  <2>3. TradesInv(y, v)
    BY <1>1, <2>1, <2>2, GateFacts DEF TradesInv
  <2>4. NoResetInv(y, v, s)
    BY <1>1, <2>2, GateFacts DEF NoResetInv
  <2>. QED  BY <2>1, <2>3, <2>4 DEF StrategyInv, v
<1>3. CASE f.k = "trd"
  <2>1. f \in Got(x, u) /\ f \in Issued /\ f.id \notin DOMAIN u.trd
    BY <1>1, <1>3 DEF TradesInv, Got
  <2>2. f.id \in Nat
    BY <1>3 DEF Frames, Reports, Record, Statuses
  <2>3. /\ v = [u EXCEPT !.trd = [i \in DOMAIN u.trd \cup {f.id} |->
                                    Count(u.trd, i) + (IF i = f.id THEN 1 ELSE 0)]]
    BY <1>3 DEF Told
  <2>4. /\ v = [ord |-> v.ord, trd |-> v.trd, lost |-> v.lost] /\ v.lost = u.lost
        /\ v.trd = [i \in DOMAIN u.trd \cup {f.id} |->
                                    Count(u.trd, i) + (IF i = f.id THEN 1 ELSE 0)]
    BY <2>3, <1>1 DEF UserType
  <2> HIDE DEF v
  <2>5. DOMAIN v.trd = DOMAIN u.trd \cup {f.id} /\ UserType(v)
    BY <1>1, <2>2, <2>4 DEF UserType
  <2>6. \A i \in DOMAIN v.trd : v.trd[i] = 1
    <3>1. ASSUME NEW i \in DOMAIN u.trd PROVE v.trd[i] = 1
      <4>1. u.trd[i] = 1 /\ i # f.id
        BY <1>1, <2>1 DEF TradesInv
      <4>. QED  BY <4>1, <2>4 DEF Count
    <3>2. v.trd[f.id] = 1
      BY <2>1, <2>4 DEF Count
    <3>. QED  BY <2>5, <3>1, <3>2
  <2>7. Got(y, v) \subseteq Got(x, u)
    <3>1. ASSUME NEW r \in Issued, r.id \in DOMAIN v.trd PROVE r \in Got(x, u)
      <4>1. r.id \in DOMAIN u.trd \/ r = f
        BY <2>1, <2>5, <3>1 DEF StoreInv
      <4>. QED  BY <4>1, <2>1 DEF Got
    <3>. QED  BY <3>1 DEF Got
  <2>8. TradesInv(y, v)
    <3>1. \A r \in TradesIn(Waiting(y)) : r.id \notin DOMAIN v.trd
      BY <1>1, <1>3, <2>5 DEF TradesInv
    <3>2. \A i \in DOMAIN v.trd : \E r \in Issued : r.id = i
      BY <1>1, <2>1, <2>5 DEF TradesInv
    <3>. QED  BY <1>1, <2>6, <2>7, <3>1, <3>2, GateFacts DEF TradesInv
  <2>9. NoResetInv(y, v, s)
    BY <1>1, <2>7, GateFacts DEF NoResetInv
  <2>. QED  BY <2>5, <2>8, <2>9 DEF StrategyInv, v
<1>. QED
  BY <1>2, <1>3

(* A loss is noted. *)
LEMMA Noted ==
    ASSUME NEW x, NEW u, NEW s, StrategyInv(x, u, s),
           NEW L \in SUBSET {"exhausted", "overflow", "reset"}
    PROVE  StrategyInv(x, [u EXCEPT !.lost = @ \cup L], s)
<1> DEFINE v == [u EXCEPT !.lost = @ \cup L]
<1>1. UserType(u) /\ TradesInv(x, u) /\ NoResetInv(x, u, s)
  BY DEF StrategyInv
<1>2. v.trd = u.trd /\ UserType(v)
  BY <1>1 DEF UserType
<1> HIDE DEF v
<1>3. Got(x, v) = Got(x, u)
  BY <1>2 DEF Got
<1>. QED
  BY <1>1, <1>2, <1>3 DEF StrategyInv, TradesInv, NoResetInv, v

-----------------------------------------------------------------------------
(* The gate and the gap. *)

(* The day's trades are known by their ids. *)
LEMMA OneRecord ==
    ASSUME StoreInv, NEW r \in Issued, NEW q \in Issued, r.id = q.id
    PROVE  r = q
BY DEF StoreInv

LEMMA RowFacts ==
    ASSUME StoreInv
    PROVE  /\ \A r, q \in Trades(db) : r.id = q.id => r = q
           /\ Trades(db) \subseteq Issued /\ Trades(db) \subseteq db
           /\ query_max_seq(db) \in Nat /\ \A r \in db : r.seq <= query_max_seq(db)
           /\ \A r \in Trades(db) : r.seq \in Nat /\ r.id \in Nat
<1>1. db \in SUBSET Rows /\ IsFiniteSet(db)
  BY DEF StoreInv
<1>2. query_max_seq(db) \in Nat /\ \A r \in db : r.seq <= query_max_seq(db)
  BY <1>1, MaxSeq
<1>3. Trades(db) \subseteq db
  BY DEF Trades
<1>. QED
  BY <1>1, <1>2, <1>3, OneRecord DEF Issued, Rows, Record

LEMMA IssuedType ==
    ASSUME StoreInv
    PROVE  Issued \subseteq {r \in Rows : r.k = "trd" /\ r.seq \in Nat /\ r.id \in Nat}
<1>1. ASSUME NEW r \in Trades(db) PROVE r \in Rows /\ r.k = "trd" /\ r.seq \in Nat /\ r.id \in Nat
  BY RowFacts DEF StoreInv, Trades
<1>2. ASSUME NEW r \in TradesIn(pq) PROVE r \in Rows /\ r.k = "trd" /\ r.seq \in Nat /\ r.id \in Nat
  <2>1. r \in Tasks /\ r.k = "trd"
    BY TradesInSeq DEF StoreInv
  <2>. QED  BY <2>1 DEF Tasks, Rows, Record, RowKinds
<1>. QED
  BY <1>1, <1>2 DEF Issued

(* A reset, when everything that came is committed. *)
LEMMA ResetKeeps ==
    ASSUME StoreInv, NEW x, NEW u, NEW s, StrategyInv(x, u, s), \A r \in Got(x, u) : r \in db
    PROVE  StrategyInv(reset_account(x, db), u, s) /\ reset_account(x, db).up = x.up
<1> DEFINE y == reset_account(x, db)
<1>1. ContextType(x) /\ UserType(u) /\ GapInv(x) /\ TradesInv(x, u)
  BY DEF StrategyInv
<1>2. x \in Contexts
  BY <1>1 DEF ContextType
<1>3. query_max_seq(db) \in Nat /\ \A r \in db : r.seq <= query_max_seq(db)
  BY RowFacts
<1>4. NoGap \in Gaps /\ NoGap.active = FALSE
  BY RetryAssumption DEF NoGap, Gaps
<1>5. /\ y \in Contexts /\ y.gap = NoGap /\ y.replay = x.replay /\ y.deferred = x.deferred
      /\ y.W = query_max_seq(db) /\ y.hasW = TRUE /\ y.pending = x.pending /\ y.up = x.up
  BY <1>2, <1>3, <1>4 DEF reset_account, Contexts
<1> HIDE DEF y
<1>6. ContextType(y) /\ GapInv(y)
  BY <1>1, <1>4, <1>5 DEF ContextType, GapInv
<1>7. TradesIn(Waiting(y)) \subseteq TradesIn(Waiting(x)) /\ (Once(Waiting(x)) => Once(Waiting(y)))
  <2>1. /\ TradesIn(Waiting(y)) = TradesIn(y.replay) \cup TradesIn(y.deferred)
        /\ Once(Waiting(y)) <=> Once(y.replay) /\ Once(y.deferred) /\ Apart(y.replay, y.deferred)
    BY <1>5, WaitingShut
  <2>2. /\ TradesIn(x.replay) \cup TradesIn(x.deferred) \subseteq TradesIn(Waiting(x))
        /\ Once(Waiting(x)) => Once(x.replay) /\ Once(x.deferred) /\ Apart(x.replay, x.deferred)
    BY <1>2, WaitingParts
  <2>. QED  BY <1>5, <2>1, <2>2
<1>8. Got(y, u) \subseteq Got(x, u)
  BY <1>7 DEF Got
<1>9. \A r \in Got(y, u) : admit_skips(y, r.seq)
  BY <1>3, <1>5, <1>8 DEF admit_skips
<1>10. TradesInv(y, u)
  BY <1>1, <1>4, <1>5, <1>7, <1>8, <1>9 DEF TradesInv
<1>11. NoResetInv(y, u, s)
  BY <1>8 DEF NoResetInv
<1>. QED
  BY <1>1, <1>5, <1>6, <1>10, <1>11 DEF StrategyInv, y

(* The ring takes a beginning of the frames. *)
LEMMA EnqueueFacts ==
    ASSUME NEW x \in Contexts, Len(x.replay) <= ReplaySlots, NEW frames \in Seq(Reports)
    PROVE  \E p \in Seq(Reports) :
             /\ enqueue(x, frames) = [x EXCEPT !.replay = x.replay \o p]
             /\ Len(x.replay \o p) <= ReplaySlots /\ x.replay \o p \in Seq(Reports)
             /\ TradesIn(p) \subseteq TradesIn(frames) /\ (Once(frames) => Once(p))
<1> DEFINE room == ReplaySlots - Len(x.replay)
           n == IF Len(frames) <= room THEN Len(frames) ELSE room
           p == SubSeq(frames, 1, n)
<1>1. x.replay \in Seq(Reports) /\ ReplaySlots \in Nat
  BY RingAssumption DEF Contexts
<1>2. room \in Nat /\ n \in 0..Len(frames) /\ n <= room /\ 1 \in 1..(Len(frames) + 1)
  <2>1. Len(x.replay) \in Nat /\ Len(frames) \in Nat
    BY <1>1
  <2>2. room \in Nat
    BY <1>1, <2>1
  <2> HIDE DEF room
  <2>. QED  BY <2>1, <2>2
<1>3. enqueue(x, frames) = [x EXCEPT !.replay = x.replay \o p]
  BY DEF enqueue
<1> HIDE DEF n
<1>4. p \in Seq(Reports) /\ TradesIn(p) \subseteq TradesIn(frames) /\ (Once(frames) => Once(p))
  BY <1>2, CutTrades
<1>5. Len(p) = n
  BY <1>2
<1> HIDE DEF p
<1>6. x.replay \o p \in Seq(Reports) /\ Len(x.replay \o p) = Len(x.replay) + n
  BY <1>1, <1>4, <1>5, ConcatProperties
<1>7. Len(x.replay) + n <= ReplaySlots
  BY <1>1, <1>2
<1>. QED
  BY <1>3, <1>4, <1>6, <1>7

(* The rows of a gap in which nothing came are news. *)
LEMMA RowsAreFresh ==
    ASSUME StoreInv, NEW x, NEW u, NEW s, StrategyInv(x, u, s),
           NEW from \in Nat, NEW to \in Nat, x.hasLast, to < x.last,
           \A r \in Got(x, u) : ~(from <= r.seq /\ r.seq <= to)
    PROVE  \A r \in TradesIn(GapRows(db, from, to)) :
             Fresh(x, u, s, r) /\ from <= r.seq /\ r.seq <= to /\ r \in db
<1>1. SUFFICES ASSUME NEW r \in TradesIn(GapRows(db, from, to))
               PROVE  Fresh(x, u, s, r) /\ from <= r.seq /\ r.seq <= to /\ r \in db
  OBVIOUS
<1>2. db \in SUBSET Rows /\ IsFiniteSet(db) /\ \A p, q \in Trades(db) : p.id = q.id => p = q
  BY RowFacts DEF StoreInv
<1>3. r \in Trades(db) /\ from <= r.seq /\ r.seq <= to
  BY <1>2, RowsOfGap
<1>4. r \in Issued /\ r \in db /\ r.seq \in Nat /\ r \notin Got(x, u)
  BY <1>3, RowFacts
<1>5. Got(x, u) \subseteq Issued /\ TradesIn(Waiting(x)) \subseteq Got(x, u) /\ x.last \in Nat
  BY DEF StrategyInv, TradesInv, Got, ContextType, Contexts
<1>6. r.id \notin DOMAIN u.trd
  BY <1>4 DEF Got
<1>7. \A q \in TradesIn(Waiting(x)) : q.id # r.id
  BY <1>4, <1>5, OneRecord
<1>8. admit_skips(x, r.seq)
  BY <1>3, <1>4, <1>5 DEF admit_skips
<1>. QED
  BY <1>3, <1>4, <1>6, <1>7, <1>8 DEF Fresh

(* They go to the ring while no gap is open. *)
LEMMA EnqueueRows ==
    ASSUME StoreInv, NEW x, NEW u, NEW s, StrategyInv(x, u, s), ~x.gap.active,
           NEW from \in Nat, NEW to \in Nat, x.hasLast, to < x.last,
           \A r \in Got(x, u) : ~(from <= r.seq /\ r.seq <= to)
    PROVE  LET y == enqueue(x, GapRows(db, from, to))
           IN  /\ StrategyInv(y, u, s) /\ y.up = x.up /\ SameGate(x, y) /\ y.gap = x.gap
               /\ y.deferred = x.deferred
               /\ \A f : Fresh(x, u, s, f) /\ ~(f.seq <= to) => Fresh(y, u, s, f)
<1> DEFINE rows == GapRows(db, from, to)
           y == enqueue(x, rows)
<1>1. ContextType(x) /\ GapInv(x) /\ TradesInv(x, u) /\ x \in Contexts
  BY DEF StrategyInv, ContextType
<1>2. rows \in Seq(Reports) /\ Once(rows)
  BY RowsOfGap, RowFacts DEF StoreInv
<1>3. \A r \in TradesIn(rows) : Fresh(x, u, s, r) /\ from <= r.seq /\ r.seq <= to /\ r \in db
  BY RowsAreFresh
<1> HIDE DEF rows
<1>4. Len(x.replay) <= ReplaySlots
  BY <1>1 DEF ContextType
<1>5. PICK p \in Seq(Reports) :
        /\ y = [x EXCEPT !.replay = x.replay \o p]
        /\ Len(x.replay \o p) <= ReplaySlots /\ x.replay \o p \in Seq(Reports)
        /\ TradesIn(p) \subseteq TradesIn(rows) /\ Once(p)
  BY <1>1, <1>2, <1>4, EnqueueFacts
<1> HIDE DEF y
<1>6. /\ y \in Contexts /\ y.gap = x.gap /\ y.deferred = x.deferred /\ y.up = x.up
      /\ y.replay = x.replay \o p /\ y.pending = x.pending /\ SameGate(x, y)
  BY <1>1, <1>5 DEF Contexts, SameGate
<1>7. x.gap = NoGap /\ NoGap.active = FALSE
  BY <1>1 DEF ContextType, NoGap
<1>8. ContextType(y) /\ GapInv(y)
  BY <1>1, <1>5, <1>6, <1>7 DEF ContextType, GapInv
<1>9. /\ TradesIn(y.replay) = TradesIn(x.replay) \cup TradesIn(p)
      /\ Once(y.replay) <=> Once(x.replay) /\ Once(p) /\ Apart(x.replay, p)
  <2>1. x.replay \in Seq(Reports)
    BY <1>1 DEF Contexts
  <2>. QED  BY <2>1, <1>5, <1>6, JoinedTrades, JoinedOnce
<1>10. /\ TradesIn(Waiting(y)) = TradesIn(y.replay) \cup TradesIn(y.deferred)
       /\ Once(Waiting(y)) <=> Once(y.replay) /\ Once(y.deferred) /\ Apart(y.replay, y.deferred)
  BY <1>6, <1>7, WaitingShut
<1>11. /\ TradesIn(Waiting(x)) = TradesIn(x.replay) \cup TradesIn(x.deferred)
       /\ Once(Waiting(x)) <=> Once(x.replay) /\ Once(x.deferred) /\ Apart(x.replay, x.deferred)
  BY <1>1, <1>7, WaitingShut
<1>12. \A r \in TradesIn(p) : Fresh(x, u, s, r) /\ from <= r.seq /\ r.seq <= to /\ r \in db
  BY <1>3, <1>5
<1>13. TradesIn(Waiting(y)) \subseteq TradesIn(Waiting(x)) \cup TradesIn(p)
  BY <1>6, <1>9, <1>10, <1>11
<1>14. Once(Waiting(y))
  <2>1. Once(Waiting(x))
    BY <1>1 DEF TradesInv
  <2>2. Apart(x.replay, p) /\ Apart(p, x.deferred)
    BY <1>11, <1>12 DEF Apart, Fresh
  <2>3. Once(y.replay)
    BY <1>5, <1>9, <1>11, <2>1, <2>2
  <2>4. Apart(y.replay, y.deferred)
    BY <1>6, <1>9, <1>11, <2>1, <2>2 DEF Apart
  <2>. QED  BY <1>6, <1>10, <1>11, <2>1, <2>3, <2>4
<1>15. StrategyInv(y, u, s)
  <2>1. ~ y.gap.active
    BY <1>6
  <2>. QED  BY <1>6, <1>8, <1>12, <1>13, <1>14, <2>1, Regroup
<1>16. ASSUME NEW f, Fresh(x, u, s, f), ~(f.seq <= to) PROVE Fresh(y, u, s, f)
  <2>1. \A q \in TradesIn(p) : q.id # f.id
    BY <1>12, <1>16, OneRecord DEF Fresh
  <2>2. \A q \in TradesIn(Waiting(y)) : q.id # f.id
    BY <1>13, <1>16, <2>1 DEF Fresh
  <2>. QED  BY <1>6, <1>16, <2>2, GateFacts DEF Fresh
<1>. QED
  BY <1>6, <1>15, <1>16 DEF y, rows

(* A gap is closed: rows go to the ring, then what the gap held back. *)
Closed(x, rows) == [release_held_trigger(enqueue(x, rows)) EXCEPT !.gap = NoGap]

AllFresh(x, u, s, rows) == \A r \in TradesIn(rows) : Fresh(x, u, s, r)

LEMMA CloseGap ==
    ASSUME StoreInv, NEW x, NEW u, NEW s, StrategyInv(x, u, s), x.gap.active,
           NEW rows \in Seq(Reports), Once(rows),
           AllFresh(x, u, s, rows), NEW y, y = Closed(x, rows)
    PROVE  StrategyInv(y, u, s) /\ y.up = x.up /\ SameGate(x, y) /\ y.gap = NoGap
<1> DEFINE held == x.gap.trigger \o x.gap.staged
<1>1. ContextType(x) /\ GapInv(x) /\ TradesInv(x, u) /\ x \in Contexts
  BY DEF StrategyInv, ContextType
<1>2. x.replay = <<>> /\ x.deferred = <<>> /\ x.pending = <<>> /\ Len(x.replay) <= ReplaySlots
  BY <1>1 DEF GapInv, ContextType
<1>3. x.gap.trigger \in Seq(Reports) /\ x.gap.staged \in Seq(Reports)
  BY <1>1 DEF Contexts, Gaps
<1>4. /\ TradesIn(Waiting(x)) = TradesIn(x.gap.trigger) \cup TradesIn(x.gap.staged)
      /\ Once(x.gap.trigger) /\ Once(x.gap.staged) /\ Apart(x.gap.trigger, x.gap.staged)
  BY <1>1, <1>2, WaitingOpen DEF TradesInv
<1>5. held \in Seq(Reports) /\ Once(held) /\ TradesIn(held) = TradesIn(Waiting(x))
  BY <1>3, <1>4, JoinedTrades, JoinedOnce
<1> DEFINE e == enqueue(x, rows)
<1>6. PICK p \in Seq(Reports) :
        /\ e = [x EXCEPT !.replay = x.replay \o p]
        /\ Len(x.replay \o p) <= ReplaySlots /\ x.replay \o p \in Seq(Reports)
        /\ TradesIn(p) \subseteq TradesIn(rows) /\ Once(p)
  BY <1>1, <1>2, EnqueueFacts
<1> HIDE DEF e
<1>7. x.replay \o p = p
  BY <1>2
<1>8. e \in Contexts /\ e.replay = p /\ Len(p) <= ReplaySlots /\ e.gap = x.gap /\ e.deferred = <<>>
      /\ e.pending = <<>> /\ e.up = x.up /\ SameGate(x, e)
  BY <1>1, <1>2, <1>6, <1>7 DEF Contexts, SameGate
<1>9. release_held_trigger(e) = enqueue(e, held)
  BY <1>8 DEF release_held_trigger
<1> HIDE DEF held
<1>10. PICK q \in Seq(Reports) :
        /\ enqueue(e, held) = [e EXCEPT !.replay = e.replay \o q]
        /\ Len(e.replay \o q) <= ReplaySlots /\ e.replay \o q \in Seq(Reports)
        /\ TradesIn(q) \subseteq TradesIn(held) /\ Once(q)
  BY <1>5, <1>8, EnqueueFacts
<1>11. y = [[e EXCEPT !.replay = e.replay \o q] EXCEPT !.gap = NoGap]
  BY <1>9, <1>10 DEF e, Closed
<1>12. NoGap \in Gaps /\ NoGap.active = FALSE
  BY RetryAssumption DEF NoGap, Gaps
<1>13. /\ y \in Contexts /\ y.gap = NoGap /\ y.deferred = <<>> /\ y.up = x.up
       /\ y.replay = p \o q /\ Len(y.replay) <= ReplaySlots /\ y.pending = <<>> /\ SameGate(x, y)
  BY <1>8, <1>10, <1>11, <1>12 DEF Contexts, SameGate
<1>14. ContextType(y) /\ GapInv(y)
  BY <1>12, <1>13 DEF ContextType, GapInv
<1>15. /\ TradesIn(y.replay) = TradesIn(p) \cup TradesIn(q)
       /\ Once(y.replay) <=> Once(p) /\ Once(q) /\ Apart(p, q)
  <2>1. /\ TradesIn(p \o q) = TradesIn(p) \cup TradesIn(q)
        /\ Once(p \o q) <=> Once(p) /\ Once(q) /\ Apart(p, q)
    BY JoinedTrades, JoinedOnce, Zenon
  <2>. QED  BY <1>13, <2>1
<1>16. /\ TradesIn(Waiting(y)) = TradesIn(y.replay) \cup TradesIn(y.deferred)
       /\ Once(Waiting(y)) <=> Once(y.replay) /\ Once(y.deferred) /\ Apart(y.replay, y.deferred)
  BY <1>13, WaitingShut
<1>17. \A r \in TradesIn(p) : Fresh(x, u, s, r)
  BY <1>6 DEF AllFresh
<1>18. Apart(p, q)
  BY <1>5, <1>10, <1>17 DEF Apart, Fresh
<1>19. TradesIn(Waiting(y)) \subseteq TradesIn(Waiting(x)) \cup TradesIn(p) /\ Once(Waiting(y))
  BY <1>5, <1>6, <1>10, <1>13, <1>15, <1>16, <1>18, NoTrades DEF Apart
<1>20. ~ y.gap.active
  BY <1>12, <1>13
<1>. QED
  BY <1>13, <1>14, <1>17, <1>19, <1>20, Regroup

LEMMA DriveKeeps ==
    ASSUME StoreInv, NEW x, NEW u, NEW s, StrategyInv(x, u, s),
           NEW y, y = drive_gap_retry(x, db)
    PROVE  StrategyInv(y, u, s) /\ y.up = x.up /\ (~x.gap.active => y = x)
<1> DEFINE rows == GapRows(db, x.gap.from, x.gap.to)
<1>1. ContextType(x) /\ GapInv(x) /\ TradesInv(x, u) /\ x \in Contexts
  BY DEF StrategyInv, ContextType
<1>2. CASE ~x.gap.active
  BY <1>2 DEF drive_gap_retry
<1>3. CASE x.gap.active /\ gap_covered(db, x.gap.from, x.gap.to)
  <2>1. x.gap.active /\ y = Closed(x, rows)
    BY <1>3 DEF drive_gap_retry, Closed
  <2>2. x.gap.from \in Nat /\ x.gap.to \in Nat
    BY <1>1 DEF Contexts, Gaps
  <2>3. rows \in Seq(Reports) /\ Once(rows)
    BY <2>2, RowsOfGap, RowFacts DEF StoreInv
  <2>4. x.hasLast /\ x.gap.to < x.last
        /\ \A r \in Got(x, u) : ~(x.gap.from <= r.seq /\ r.seq <= x.gap.to)
    BY <1>1, <1>3 DEF GapInv, TradesInv
  <2>5. AllFresh(x, u, s, rows)
    BY <2>2, <2>4, RowsAreFresh DEF AllFresh
  <2> HIDE DEF rows
  <2>6. \A r \in Seq(Reports) : Once(r) /\ AllFresh(x, u, s, r) /\ y = Closed(x, r)
          => StrategyInv(y, u, s) /\ y.up = x.up
    BY <2>1, CloseGap
  <2>7. StrategyInv(y, u, s) /\ y.up = x.up
    BY <2>1, <2>3, <2>5, <2>6
  <2>. QED  BY <1>3, <2>7
<1>4. CASE x.gap.active /\ ~gap_covered(db, x.gap.from, x.gap.to) /\ x.gap.attempts + 1 >= kGapRetryMax
  <2>1. y = [release_held_trigger(x) EXCEPT !.gap = NoGap]
    BY <1>4 DEF drive_gap_retry
  <2>2. enqueue(x, <<>>) = x
    <3>1. x.replay \in Seq(Reports) /\ Len(x.replay) <= ReplaySlots /\ ReplaySlots \in Nat
      BY <1>1, RingAssumption DEF Contexts, ContextType
    <3>2. SubSeq(<<>>, 1, IF Len(<<>>) <= ReplaySlots - Len(x.replay) THEN Len(<<>>)
                          ELSE ReplaySlots - Len(x.replay)) = <<>>
      BY <3>1
    <3>3. enqueue(x, <<>>) = [x EXCEPT !.replay = x.replay \o <<>>]
      BY <3>2 DEF enqueue
    <3>4. x.replay \o <<>> = x.replay
      BY <3>1
    <3>. QED  BY <1>1, <3>3, <3>4 DEF Contexts
  <2>3. x.gap.active /\ y = Closed(x, <<>>)
    BY <1>4, <2>1, <2>2 DEF Closed
  <2>4. <<>> \in Seq(Reports)
    OBVIOUS
  <2>5. Once(<<>>) /\ AllFresh(x, u, s, <<>>)
    BY NoTrades DEF AllFresh
  <2>6. \A r \in Seq(Reports) : Once(r) /\ AllFresh(x, u, s, r) /\ y = Closed(x, r)
          => StrategyInv(y, u, s) /\ y.up = x.up
    BY <2>3, CloseGap
  <2>7. StrategyInv(y, u, s) /\ y.up = x.up
    BY <2>3, <2>4, <2>5, <2>6, Zenon
  <2>. QED  BY <1>4, <2>7
<1>5. CASE x.gap.active /\ ~gap_covered(db, x.gap.from, x.gap.to) /\ ~(x.gap.attempts + 1 >= kGapRetryMax)
  <2>1. y = [x EXCEPT !.gap.attempts = x.gap.attempts + 1]
    BY <1>5 DEF drive_gap_retry
  <2> DEFINE n == x.gap.attempts + 1
             gap == [x.gap EXCEPT !.attempts = n]
  <2>2. x.gap \in Gaps /\ n \in 0..kGapRetryMax
    <3>1. x.gap \in Gaps
      BY <1>1 DEF Contexts
    <3>2. x.gap.attempts \in 0..kGapRetryMax
      BY <3>1 DEF Gaps
    <3>. QED  BY <1>5, <3>1, <3>2, RetryAssumption
  <2> HIDE DEF n
  <2>8. gap \in Gaps
    BY <2>2 DEF Gaps
  <2>9. y = [x EXCEPT !.gap = gap]
    BY <2>1 DEF n
  <2> HIDE DEF gap
  <2>3. /\ y \in Contexts /\ y.gap = gap /\ SameGate(x, y) /\ y.up = x.up
        /\ y.replay = x.replay /\ y.deferred = x.deferred /\ y.pending = x.pending
    BY <1>1, <2>8, <2>9 DEF Contexts, SameGate
  <2>4. /\ y.gap.trigger = x.gap.trigger /\ y.gap.staged = x.gap.staged /\ y.gap.active
        /\ y.gap.from = x.gap.from /\ y.gap.to = x.gap.to
    BY <1>5, <2>2, <2>3 DEF Gaps, gap
  <2>5. Waiting(y) = Waiting(x) /\ ContextType(y) /\ GapInv(y)
    BY <1>1, <1>5, <2>3, <2>4 DEF Waiting, ContextType, GapInv, SameGate
  <2>6. Once(Waiting(y))
    BY <1>1, <2>5 DEF TradesInv
  <2>7. StrategyInv(y, u, s)
    BY <1>5, <2>3, <2>4, <2>5, <2>6, RegroupNone
  <2>. QED  BY <1>5, <2>3, <2>7
<1>. QED
  BY <1>2, <1>3, <1>4, <1>5

LEMMA LossType ==
    ASSUME NEW x, NEW d
    PROVE  RetryLoss(x, d) \subseteq {"exhausted", "overflow", "reset"}
BY DEF RetryLoss

-----------------------------------------------------------------------------
(* What the strategy is handed from the ring. *)

LEMMA OwnFromFacts ==
    ASSUME NEW x \in Contexts
    PROVE  /\ OwnFrom(x) \in 0..Len(x.replay) /\ Len(x.replay) \in Nat
           /\ x.replay = <<>> => OwnFrom(x) = 0
<1> DEFINE I == {i \in 1..Len(x.replay) : is_own_report(x.replay[i])}
<1>1. OwnFrom(x) = IF I # {} THEN Min(I) ELSE 0
  BY DEF OwnFrom, SelectInSeq
<1>2. I \in SUBSET Nat /\ I \subseteq 1..Len(x.replay)
  OBVIOUS
<1> HIDE DEF I
<1>3. I # {} => Min(I) \in I
  BY <1>2, MinIsLeast
<1>4. Len(x.replay) \in Nat
  <2>1. x.replay \in Seq(Reports)
    BY DEF Contexts
  <2>. QED  BY <2>1
<1>5. CASE I = {}
  BY <1>1, <1>4, <1>5
<1>6. CASE I # {}
  <2>1. OwnFrom(x) \in 1..Len(x.replay)
    BY <1>1, <1>2, <1>3, <1>6
  <2>2. x.replay # <<>>
    BY <1>4, <2>1
  <2>. QED  BY <1>4, <2>1, <2>2
<1>. QED
  BY <1>5, <1>6

LEMMA PopKeeps ==
    ASSUME NEW x, NEW u, NEW s, StrategyInv(x, u, s), NEW y, y = Popped(x), StoreInv
    PROVE  /\ ContextType(y) /\ GapInv(y) /\ SameGate(x, y) /\ Once(Waiting(y)) /\ y.up = x.up
           /\ TradesIn(Waiting(y)) \subseteq TradesIn(Waiting(x)) /\ y.gap = x.gap
           /\ y.deferred = x.deferred /\ (OwnFrom(x) = 0 => y.replay = <<>>)
           /\ StrategyInv(y, u, s)
           /\ OwnFrom(x) > 0 => StrategyInv(y, Told(u, x.replay[OwnFrom(x)]), s)
<1>1. ContextType(x) /\ GapInv(x) /\ TradesInv(x, u) /\ x \in Contexts
  BY DEF StrategyInv, ContextType
<1> DEFINE n == OwnFrom(x)
           w == IF n = 0 THEN <<>> ELSE SubSeq(x.replay, n + 1, Len(x.replay))
<1>2. n \in 0..Len(x.replay) /\ Len(x.replay) \in Nat /\ (x.replay = <<>> => n = 0)
  BY <1>1, OwnFromFacts
<1>3. y = [x EXCEPT !.replay = w]
  BY DEF Popped
<1>4. x.replay \in Seq(Reports) /\ Len(x.replay) <= ReplaySlots /\ ReplaySlots \in Nat
  BY <1>1, RingAssumption DEF Contexts, ContextType
<1> HIDE DEF n
<1>5. w \in Seq(Reports) /\ Len(w) <= Len(x.replay) /\ TradesIn(w) \subseteq TradesIn(x.replay)
      /\ (Once(x.replay) => Once(w)) /\ (n = 0 => w = <<>>)
      /\ \A i \in DOMAIN w : w[i] = x.replay[n + i] /\ n + i \in DOMAIN x.replay /\ i >= 1
  <2>1. CASE n = 0
    BY <2>1, <1>2, NoTrades
  <2>2. CASE n # 0
    <3>1. n + 1 \in 1..(Len(x.replay) + 1) /\ Len(x.replay) \in 0..Len(x.replay)
      BY <1>2, <2>2
    <3>2. /\ w \in Seq(Reports) /\ Len(w) <= Len(x.replay) /\ TradesIn(w) \subseteq TradesIn(x.replay)
          /\ (Once(x.replay) => Once(w))
          /\ \A i \in DOMAIN w : w[i] = x.replay[(n + 1) + i - 1] /\ (n + 1) + i - 1 \in DOMAIN x.replay
      BY <1>4, <2>2, <3>1, CutTrades
    <3>3. \A i \in DOMAIN w : i \in Nat /\ i >= 1 /\ (n + 1) + i - 1 = n + i
      BY <1>2, <3>2
    <3>. QED  BY <2>2, <3>2, <3>3
  <2>. QED  BY <2>1, <2>2
<1> HIDE DEF w
<1>6. /\ y \in Contexts /\ y.replay = w /\ y.gap = x.gap /\ y.deferred = x.deferred
      /\ y.up = x.up /\ y.pending = x.pending /\ SameGate(x, y)
  BY <1>1, <1>3, <1>5 DEF Contexts, SameGate
<1>12. Len(w) <= ReplaySlots
  <2>1. Len(w) \in Nat
    BY <1>5
  <2>. QED  BY <1>2, <1>4, <1>5, <2>1
<1>7. ContextType(y) /\ GapInv(y)
  BY <1>1, <1>2, <1>5, <1>6, <1>12 DEF ContextType, GapInv, SameGate
<1>8. TradesIn(Waiting(y)) \subseteq TradesIn(Waiting(x)) /\ Once(Waiting(y))
  <2>1. Once(Waiting(x))
    BY <1>1 DEF TradesInv
  <2> DEFINE d == x.deferred  c == x.gap.trigger  e == x.gap.staged
  <2>2. /\ TradesIn(Waiting(x)) = TradesIn(x.replay) \cup TradesIn(d) \cup TradesIn(c) \cup TradesIn(e)
        /\ Once(x.replay) /\ Once(d) /\ Once(c) /\ Once(e)
        /\ Apart(x.replay, d) /\ Apart(x.replay, c) /\ Apart(x.replay, e) /\ Apart(d, c)
        /\ Apart(d, e) /\ Apart(c, e)
    BY <1>1, <2>1, WaitingParts
  <2>3. /\ TradesIn(Waiting(y)) = TradesIn(w) \cup TradesIn(d) \cup TradesIn(c) \cup TradesIn(e)
        /\ Once(w) /\ Once(d) /\ Once(c) /\ Once(e)
           /\ Apart(w, d) /\ Apart(w, c) /\ Apart(w, e) /\ Apart(d, c)
           /\ Apart(d, e) /\ Apart(c, e)
           => Once(Waiting(y))
    BY <1>6, WaitingParts
  <2> HIDE DEF c, d, e
  <2>4. Apart(w, d) /\ Apart(w, c) /\ Apart(w, e)
    BY <1>5, <2>2 DEF Apart
  <2>5. TradesIn(Waiting(y)) \subseteq TradesIn(Waiting(x))
    BY <1>5, <2>2, <2>3
  <2>. QED  BY <1>5, <2>2, <2>3, <2>4, <2>5
<1>10. StrategyInv(y, u, s)
  BY <1>6, <1>7, <1>8, RegroupNone
<1>11. ASSUME n > 0 PROVE StrategyInv(y, Told(u, x.replay[n]), s)
  <2> DEFINE f == x.replay[n]
  <2>1. n \in DOMAIN x.replay /\ f \in Reports /\ f \in Frames
    BY <1>2, <1>4, <1>11 DEF Frames
  <2>2. x.gap = NoGap
    <3>1. ~ x.gap.active
      BY <1>1, <1>2, <1>11 DEF GapInv
    <3>. QED  BY <1>1, <3>1 DEF ContextType
  <2>3. /\ TradesIn(Waiting(y)) = TradesIn(w) \cup TradesIn(x.deferred)
        /\ TradesIn(Waiting(x)) = TradesIn(x.replay) \cup TradesIn(x.deferred)
        /\ Once(x.replay) /\ Apart(x.replay, x.deferred)
    BY <1>1, <1>6, <2>2, WaitingShut DEF TradesInv
  <2>4. ASSUME f.k = "trd" PROVE f \in TradesIn(Waiting(x)) /\ \A r \in TradesIn(Waiting(y)) : r.id # f.id
    <3>1. f \in TradesIn(x.replay)
      BY <2>1, <2>4 DEF TradesIn
    <3>2. ASSUME NEW r \in TradesIn(w), r.id = f.id PROVE FALSE
      <4>1. PICK i \in DOMAIN w : r = w[i] /\ r.k = "trd"
        BY <3>2 DEF TradesIn
      <4>2. n + i = n /\ i >= 1
        BY <1>5, <2>1, <2>3, <2>4, <3>2, <4>1 DEF Once
      <4>3. i \in Nat
        BY <1>5, <4>1
      <4>. QED  BY <4>2, <4>3, <1>2
    <3>3. \A r \in TradesIn(x.deferred) : r.id # f.id
      BY <2>3, <3>1 DEF Apart
    <3>. QED  BY <2>3, <3>1, <3>2, <3>3
  <2>5. y.gap.active => x.gap.active /\ y.gap.from = x.gap.from /\ y.gap.to = x.gap.to
    BY <1>6
  <2> HIDE DEF f
  <2>6. StrategyInv(y, Told(u, f), s)
    BY <1>6, <1>7, <1>8, <2>1, <2>4, <2>5, Hand
  <2>. QED  BY <2>6 DEF f
<1>. QED
  BY <1>5, <1>6, <1>7, <1>8, <1>10, <1>11 DEF n

-----------------------------------------------------------------------------
(* A frame leaves the channel. *)

LEMMA TailFacts ==
    ASSUME NEW s \in Seq(Frames), s # <<>>
    PROVE  /\ Head(s) = s[1] /\ 1 \in DOMAIN s /\ Head(s) \in Frames /\ Tail(s) \in Seq(Frames)
           /\ \A q \in DOMAIN Tail(s) :
                q \in Nat /\ q >= 1 /\ q + 1 \in DOMAIN s /\ Tail(s)[q] = s[q + 1]
           /\ Len(Tail(s)) = Len(s) - 1
<1>1. Len(s) \in Nat /\ Len(s) >= 1 /\ DOMAIN s = 1..Len(s)
  BY EmptySeq
<1>2. Head(s) = s[1] /\ 1 \in DOMAIN s /\ s[1] \in Frames
  BY <1>1
<1>3. Tail(s) \in Seq(Frames) /\ Len(Tail(s)) = Len(s) - 1
      /\ \A q \in 1..Len(Tail(s)) : Tail(s)[q] = s[q + 1]
  BY HeadTailProperties
<1>4. DOMAIN Tail(s) = 1..Len(Tail(s))
  BY <1>3
<1>. QED
  BY <1>1, <1>2, <1>3, <1>4

LEMMA TailOrderly ==
    ASSUME NEW s \in Seq(Frames), s # <<>>, NEW p \in Nat, p >= 1, Orderly(s, p)
    PROVE  Orderly(Tail(s), p)
<1> DEFINE t == Tail(s)
<1>1. \A q \in DOMAIN t : q \in Nat /\ q >= 1 /\ q + 1 \in DOMAIN s /\ t[q] = s[q + 1]
  BY TailFacts
<1> HIDE DEF t
<1>2. SUFFICES ASSUME NEW q \in DOMAIN t, q >= p
               PROVE  /\ t[q].k = "st" => t[q].st # "Ready"
                      /\ t[q].k # "st" => /\ Below(t[q].seq)
                                          /\ \A r \in DOMAIN t : r > q /\ t[r].k # "st" => t[q].seq < t[r].seq
  BY DEF Orderly, t
<1>3. q + 1 \in DOMAIN s /\ q + 1 >= p /\ t[q] = s[q + 1] /\ q \in Nat
  BY <1>1, <1>2
<1>4. \A r \in DOMAIN t : r > q => r + 1 > q + 1 /\ r + 1 \in DOMAIN s /\ t[r] = s[r + 1]
  BY <1>1, <1>3
<1>. QED
  BY <1>3, <1>4 DEF Orderly

LEMMA TailGuarded ==
    ASSUME NEW s \in Seq(Frames), s # <<>>, Guarded(s)
    PROVE  Guarded(Tail(s))
<1> DEFINE t == Tail(s)
<1>1. \A q \in DOMAIN t : q \in Nat /\ q >= 1 /\ q + 1 \in DOMAIN s /\ t[q] = s[q + 1]
  BY TailFacts
<1> HIDE DEF t
<1>2. SUFFICES ASSUME NEW p \in DOMAIN t, t[p].k = "trd", t[p] \notin db
               PROVE  Orderly(t, p)
  BY DEF Guarded, t
<1>3. p \in Nat /\ Orderly(s, p + 1)
  BY <1>1, <1>2 DEF Guarded
<1>4. SUFFICES ASSUME NEW q \in DOMAIN t, q >= p
               PROVE  /\ t[q].k = "st" => t[q].st # "Ready"
                      /\ t[q].k # "st" => /\ Below(t[q].seq)
                                          /\ \A r \in DOMAIN t : r > q /\ t[r].k # "st" => t[q].seq < t[r].seq
  BY DEF Orderly
<1>5. q + 1 \in DOMAIN s /\ q + 1 >= p + 1 /\ t[q] = s[q + 1] /\ q \in Nat
  BY <1>1, <1>3, <1>4
<1>6. \A r \in DOMAIN t : r > q => r + 1 > q + 1 /\ r + 1 \in DOMAIN s /\ t[r] = s[r + 1]
  BY <1>1, <1>5
<1>. QED
  BY <1>3, <1>5, <1>6 DEF Orderly

LEMMA TailNoReset ==
    ASSUME NEW s \in Seq(Frames), s # <<>>, NEW x, NoReset(x, s)
    PROVE  NoReset(x, Tail(s))
<1>1. Orderly(Tail(s), 1)
  BY TailOrderly DEF NoReset
<1>2. \A q \in DOMAIN Tail(s) : Tail(s)[q].k # "st" => x.last < Tail(s)[q].seq
  BY TailFacts DEF NoReset
<1>. QED
  BY <1>1, <1>2 DEF NoReset

LEMMA TailKeeps ==
    ASSUME NEW s \in Seq(Frames), s # <<>>, NEW x, NEW u, StrategyInv(x, u, s)
    PROVE  StrategyInv(x, u, Tail(s))
BY TailNoReset DEF StrategyInv, NoResetInv

(* What the head of an orderly channel says of the rest. *)
LEMMA HeadFacts ==
    ASSUME NEW s \in Seq(Frames), s # <<>>, Orderly(s, 1)
    PROVE  /\ Head(s).k = "st" => Head(s).st # "Ready"
           /\ Head(s).k # "st" =>
                /\ Below(Head(s).seq)
                /\ \A q \in DOMAIN Tail(s) : Tail(s)[q].k # "st" => Head(s).seq < Tail(s)[q].seq
<1>1. Head(s) = s[1] /\ 1 \in DOMAIN s
  BY TailFacts
<1>2. \A q \in DOMAIN Tail(s) : q + 1 \in DOMAIN s /\ q + 1 > 1 /\ Tail(s)[q] = s[q + 1]
  BY TailFacts
<1>. QED
  BY <1>1, <1>2 DEF Orderly

LEMMA FrameKinds ==
    ASSUME NEW f \in Frames
    PROVE  /\ f.k = "st" => f.st \in {"LoggingIn", "Ready", "Offline"}
           /\ f.k # "st" => f \in Reports /\ f.seq \in Nat
           /\ f.k = "trd" => f.id \in Nat /\ f.own \in BOOLEAN
BY DEF Frames, Reports, Statuses, Record, RowKinds

-----------------------------------------------------------------------------
(* Fields of the context that the invariant hardly looks at. *)

MinorChange(x, y) ==
    /\ y.up \in {"open", "up"} /\ y.scan \in BOOLEAN
    /\ y.prev \in {"", "LoggingIn", "Ready", "Offline"} /\ y.seen \in SUBSET Nat
    /\ y = [x EXCEPT !.up = y.up, !.scan = y.scan, !.prev = y.prev, !.seen = y.seen]

LEMMA MinorFields ==
    ASSUME StoreInv, NEW x, NEW u, NEW s, StrategyInv(x, u, s), NEW y, MinorChange(x, y)
    PROVE  /\ StrategyInv(y, u, s) /\ SameGate(x, y) /\ y.gap = x.gap /\ y.replay = x.replay
           /\ y.deferred = x.deferred /\ Waiting(y) = Waiting(x) /\ Popped(y).gap = Popped(x).gap
           /\ \A f : Fresh(x, u, s, f) => Fresh(y, u, s, f)
<1>1. ContextType(x) /\ GapInv(x) /\ TradesInv(x, u) /\ x \in Contexts
  BY DEF StrategyInv, ContextType
<1>2. /\ y \in Contexts /\ y.gap = x.gap /\ y.replay = x.replay /\ y.deferred = x.deferred
      /\ y.pending = x.pending /\ SameGate(x, y)
  BY <1>1 DEF Contexts, SameGate, MinorChange
<1>3. Waiting(y) = Waiting(x) /\ ContextType(y) /\ GapInv(y)
  BY <1>1, <1>2 DEF Waiting, ContextType, GapInv, SameGate
<1>4. StrategyInv(y, u, s)
  <2>1. Once(Waiting(y)) /\ TradesIn(Waiting(y)) \subseteq TradesIn(Waiting(x))
    BY <1>1, <1>3 DEF TradesInv
  <2>2. y.gap.active => x.gap.active /\ y.gap.from = x.gap.from /\ y.gap.to = x.gap.to
    BY <1>2
  <2>. QED  BY <1>2, <1>3, <2>1, <2>2, RegroupNone
<1>5. \A f : Fresh(x, u, s, f) => Fresh(y, u, s, f)
  BY <1>2, <1>3, GateFacts DEF Fresh
<1>6. Popped(y).gap = Popped(x).gap
  BY <1>1, <1>2 DEF Popped, Contexts
<1>. QED
  BY <1>2, <1>3, <1>4, <1>5, <1>6

-----------------------------------------------------------------------------
(* A frame goes through the gate. *)

(* f came and is not in the process: it can be handed on or kept. *)
News(x, u, s, f) == f.k = "trd" => Fresh(x, u, s, f)

(* The gate takes the frame f; a gap that it shows is not looked at here. *)
Taken(y, f) == [y EXCEPT !.last = f.seq, !.hasLast = TRUE]

LEMMA TakenKeeps ==
    ASSUME StoreInv, NEW s \in Seq(Frames), s # <<>>, TradesIn(s) \subseteq Issued, Guarded(s),
           NEW y, NEW u, StrategyInv(y, u, s), NEW f, f = Head(s), f.k # "st",
           ~admit_skips(y, f.seq), NEW b, b = Taken(y, f)
    PROVE  /\ StrategyInv(b, u, Tail(s)) /\ News(b, u, Tail(s), f)
           /\ b.last = f.seq /\ b.hasLast /\ b.gap = y.gap /\ b.up = y.up /\ b.pending = <<>>
           /\ b.replay = y.replay /\ b.deferred = y.deferred /\ Waiting(b) = Waiting(y)
           /\ y.gap.active => ~(y.gap.from <= f.seq /\ f.seq <= y.gap.to)
<1>1. ContextType(y) /\ GapInv(y) /\ TradesInv(y, u) /\ UserType(u) /\ NoResetInv(y, u, s) /\ y \in Contexts
  BY DEF StrategyInv, ContextType
<1>2. f \in Reports /\ f.seq \in Nat /\ f = s[1] /\ 1 \in DOMAIN s /\ Tail(s) \in Seq(Frames)
  BY TailFacts, FrameKinds
<1>3. /\ b \in Contexts /\ b.gap = y.gap /\ b.replay = y.replay /\ b.deferred = y.deferred
      /\ b.pending = y.pending /\ b.last = f.seq /\ b.hasLast = TRUE /\ b.W = y.W /\ b.hasW = y.hasW
      /\ b.up = y.up
  BY <1>1, <1>2 DEF Taken, Contexts
<1>4. y.last \in Nat /\ y.W \in Nat /\ y.hasLast \in BOOLEAN /\ y.hasW \in BOOLEAN
      /\ y.gap.to \in Nat /\ y.gap.from \in Nat
  BY <1>1 DEF Contexts, Gaps
<1>5. (y.hasLast => y.last < f.seq) /\ (y.hasW => y.W < f.seq)
  BY <1>2, <1>4 DEF admit_skips
<1>6. Waiting(b) = Waiting(y) /\ Got(b, u) = Got(y, u)
  BY <1>3 DEF Waiting, Got
<1>7. ContextType(b) /\ GapInv(b)
  BY <1>1, <1>2, <1>3, <1>4, <1>5 DEF ContextType, GapInv
<1>8. \A r \in Got(y, u) : admit_skips(y, r.seq) /\ r \in Issued
  BY <1>1 DEF TradesInv
<1>9. \A r \in Issued : r.seq \in Nat
  BY IssuedType
<1>10. \A r \in Got(b, u) : admit_skips(b, r.seq)
  BY <1>2, <1>3, <1>4, <1>5, <1>6, <1>8, <1>9 DEF admit_skips
<1>11. TradesInv(b, u)
  BY <1>1, <1>3, <1>6, <1>10 DEF TradesInv
<1>12. Orderly(s, 1) => NoReset(b, Tail(s))
  <2>1. SUFFICES ASSUME Orderly(s, 1) PROVE NoReset(b, Tail(s))
    OBVIOUS
  <2>2. Orderly(Tail(s), 1)
    BY <2>1, TailOrderly
  <2>3. Below(f.seq) /\ \A q \in DOMAIN Tail(s) : Tail(s)[q].k # "st" => f.seq < Tail(s)[q].seq
    BY <2>1, HeadFacts
  <2>. QED  BY <1>3, <2>2, <2>3 DEF NoReset
<1>13. NoResetInv(b, u, Tail(s))
  BY <1>1, <1>6, <1>12 DEF NoResetInv, NoReset
<1>14. StrategyInv(b, u, Tail(s))
  BY <1>1, <1>7, <1>11, <1>13 DEF StrategyInv
<1>15. ASSUME f.k = "trd" PROVE Fresh(b, u, Tail(s), f)
  <2>1. f \in Issued
    BY <1>2, <1>15 DEF TradesIn
  <2>2. f \notin Got(y, u)
    BY <1>8
  <2>3. f.id \notin DOMAIN u.trd
    BY <2>1, <2>2 DEF Got
  <2>4. \A q \in TradesIn(Waiting(b)) : q.id # f.id
    <3>1. TradesIn(Waiting(b)) \subseteq Got(y, u)
      BY <1>6 DEF Got
    <3>. QED  BY <1>8, <2>1, <2>2, <3>1, OneRecord
  <2>5. admit_skips(b, f.seq)
    BY <1>2, <1>3 DEF admit_skips
  <2>6. f \notin db => NoReset(b, Tail(s))
    BY <1>2, <1>12, <1>15 DEF Guarded
  <2>. QED  BY <2>1, <2>3, <2>4, <2>5, <2>6 DEF Fresh
<1>16. y.gap.active => ~(y.gap.from <= f.seq /\ f.seq <= y.gap.to)
  BY <1>1, <1>2, <1>4, <1>5 DEF GapInv
<1>17. b.pending = <<>>
  BY <1>1, <1>3 DEF GapInv
<1>. QED
  BY <1>3, <1>6, <1>14, <1>15, <1>16, <1>17 DEF News

(* What dispatch_frame makes of a frame. *)
Handled(h, u, s, f, up) ==
    /\ h = [x |-> h.x, pass |-> h.pass, lost |-> h.lost]
    /\ StrategyInv(h.x, u, s) /\ h.x.deferred = <<>> /\ h.x.up = up
    /\ h.lost \in SUBSET {"exhausted", "overflow", "reset"}
    /\ h.pass => News(h.x, u, s, f)
    /\ h.pass /\ f.k # "st" => ~h.x.gap.active

(* A gap is open: the frame is staged, and an attempt is made. *)
LEMMA StageKeeps ==
    ASSUME StoreInv, NEW b, NEW u, NEW s, StrategyInv(b, u, s), b.gap.active,
           NEW f \in Reports, News(b, u, s, f), ~(b.gap.from <= f.seq /\ f.seq <= b.gap.to),
           NEW y, y = stage(b, f)
    PROVE  StrategyInv(y, u, s) /\ y.up = b.up /\ y.deferred = b.deferred
<1>1. CASE ~(Len(b.gap.staged) < kMaxStaged)
  BY <1>1 DEF stage
<1>2. CASE Len(b.gap.staged) < kMaxStaged
  <2>1. ContextType(b) /\ GapInv(b) /\ TradesInv(b, u) /\ b \in Contexts
    BY DEF StrategyInv, ContextType
  <2> DEFINE t == Append(b.gap.staged, f)
             gap == [b.gap EXCEPT !.staged = t]
  <2>2. b.gap \in Gaps
    BY <2>1 DEF Contexts
  <2>3. b.gap.staged \in Seq(Reports) /\ b.gap.trigger \in Seq(Reports)
    BY <2>2 DEF Gaps
  <2>4. t = b.gap.staged \o <<f>> /\ t \in Seq(Reports)
    BY <2>3
  <2>5. y = [b EXCEPT !.gap = gap]
    BY <1>2 DEF stage
  <2> HIDE DEF t
  <2>6. gap \in Gaps /\ gap.staged = t /\ gap.trigger = b.gap.trigger /\ gap.active = b.gap.active
        /\ gap.from = b.gap.from /\ gap.to = b.gap.to
    BY <2>2, <2>4 DEF Gaps
  <2> HIDE DEF gap
  <2>7. /\ y \in Contexts /\ y.gap = gap /\ SameGate(b, y) /\ y.up = b.up
        /\ y.replay = b.replay /\ y.deferred = b.deferred /\ y.pending = b.pending
    BY <2>1, <2>5, <2>6 DEF Contexts, SameGate
  <2>8. ContextType(y) /\ GapInv(y) /\ y.replay = <<>> /\ y.deferred = <<>>
    BY <2>1, <2>6, <2>7 DEF ContextType, GapInv, SameGate
  <2>9. /\ TradesIn(Waiting(b)) = TradesIn(b.gap.trigger) \cup TradesIn(b.gap.staged)
        /\ Once(b.gap.trigger) /\ Once(b.gap.staged) /\ Apart(b.gap.trigger, b.gap.staged)
    <3>1. Once(Waiting(b))
      BY <2>1 DEF TradesInv
    <3>. QED  BY <2>1, <2>7, <2>8, <3>1, WaitingOpen
  <2>10. /\ TradesIn(Waiting(y)) = TradesIn(y.gap.trigger) \cup TradesIn(y.gap.staged)
         /\ Once(Waiting(y)) <=> Once(y.gap.trigger) /\ Once(y.gap.staged)
                                   /\ Apart(y.gap.trigger, y.gap.staged)
    BY <2>7, <2>8, WaitingOpen
  <2> DEFINE N == TradesIn(<<f>>)
  <2>11. <<f>> \in Seq(Reports) /\ Once(<<f>>) /\ N = IF f.k = "trd" THEN {f} ELSE {}
    BY OneFrame
  <2>12. \A r \in N : Fresh(b, u, s, r) /\ r = f
    BY <2>11 DEF News
  <2>13. TradesIn(t) = TradesIn(b.gap.staged) \cup N
         /\ (Once(t) <=> Once(b.gap.staged) /\ Once(<<f>>) /\ Apart(b.gap.staged, <<f>>))
    <3>1. PICK p, q : p = b.gap.staged /\ q = <<f>>
      OBVIOUS
    <3>2. p \in Seq(Reports) /\ q \in Seq(Reports) /\ t = p \o q
      BY <2>3, <2>4, <2>11, <3>1
    <3>3. TradesIn(t) = TradesIn(p) \cup TradesIn(q)
      BY <3>2, JoinedTrades
    <3>4. Once(t) <=> Once(p) /\ Once(q) /\ Apart(p, q)
      BY <3>2, JoinedOnce
    <3>. QED  BY <3>1, <3>3, <3>4
  <2>14. Apart(b.gap.staged, <<f>>) /\ \A r \in TradesIn(b.gap.trigger), q \in N : r.id # q.id
    BY <2>9, <2>12 DEF Apart, Fresh
  <2> HIDE DEF N
  <2>15. TradesIn(Waiting(y)) \subseteq TradesIn(Waiting(b)) \cup N /\ Once(Waiting(y))
    BY <2>6, <2>7, <2>9, <2>10, <2>11, <2>13, <2>14 DEF Apart
  <2>16. \A r \in Got(b, u) \cup N : ~(y.gap.from <= r.seq /\ r.seq <= y.gap.to)
    BY <2>1, <2>6, <2>7, <2>12 DEF TradesInv
  <2>17. StrategyInv(y, u, s)
    BY <2>7, <2>8, <2>12, <2>15, <2>16, Regroup
  <2>. QED  BY <2>7, <2>17
<1>. QED
  BY <1>1, <1>2

(* The gap that the first frame shows. *)
Opened(b, p, f) ==
    [b EXCEPT !.gap = [active |-> TRUE, from |-> p.from, to |-> p.to, attempts |-> 1,
                       trigger |-> <<f>>, staged |-> <<>>]]

LEMMA OpenKeeps ==
    ASSUME StoreInv, NEW b, NEW u, NEW s, StrategyInv(b, u, s), ~b.gap.active, b.hasLast,
           b.replay = <<>>, b.deferred = <<>>,
           NEW f \in Reports, News(b, u, s, f), NEW p \in [from : Nat, to : Nat],
           p.to < b.last, ~(f.seq <= p.to),
           \A r \in Got(b, u) : ~(p.from <= r.seq /\ r.seq <= p.to),
           NEW y, y = Opened(b, p, f)
    PROVE  StrategyInv(y, u, s) /\ y.up = b.up /\ y.deferred = <<>>
<1>1. ContextType(b) /\ GapInv(b) /\ TradesInv(b, u) /\ b \in Contexts
  BY DEF StrategyInv, ContextType
<1> DEFINE gap == [active |-> TRUE, from |-> p.from, to |-> p.to, attempts |-> 1,
                   trigger |-> <<f>>, staged |-> <<>>]
<1>2. gap \in Gaps
  <2>1. <<f>> \in Seq(Reports) /\ <<>> \in Seq(Reports) /\ 1 \in 0..kGapRetryMax
    BY RetryAssumption
  <2>. QED  BY <2>1 DEF Gaps
<1>3. gap.staged = <<>> /\ gap.trigger = <<f>> /\ gap.active = TRUE /\ gap.from = p.from /\ gap.to = p.to
  OBVIOUS
<1>4. y = [b EXCEPT !.gap = gap]
  BY DEF Opened
<1> HIDE DEF gap
<1>5. /\ y \in Contexts /\ y.gap = gap /\ SameGate(b, y) /\ y.up = b.up
      /\ y.replay = <<>> /\ y.deferred = <<>> /\ y.pending = <<>>
  BY <1>1, <1>2, <1>4 DEF Contexts, SameGate, GapInv
<1>6. ContextType(y) /\ GapInv(y)
  BY <1>1, <1>3, <1>5 DEF ContextType, GapInv, SameGate
<1> DEFINE N == TradesIn(<<f>>)
<1>7. <<f>> \in Seq(Reports) /\ Once(<<f>>) /\ N = IF f.k = "trd" THEN {f} ELSE {}
  BY OneFrame
<1>8. \A r \in N : Fresh(b, u, s, r) /\ r = f
  BY <1>7 DEF News
<1>9. TradesIn(Waiting(y)) = N \cup {} /\ Once(Waiting(y))
  BY <1>3, <1>5, <1>7, NoTrades, WaitingOpen DEF Apart
<1>10. \A r \in Got(b, u) \cup N : ~(y.gap.from <= r.seq /\ r.seq <= y.gap.to)
  BY <1>3, <1>5, <1>8
<1> HIDE DEF N
<1>11. StrategyInv(y, u, s)
  BY <1>5, <1>6, <1>8, <1>9, <1>10, Regroup
<1>. QED
  BY <1>5, <1>11

LEMMA HandleKeeps ==
    ASSUME StoreInv, NEW s \in Seq(Frames), s # <<>>, TradesIn(s) \subseteq Issued, Guarded(s),
           NEW y, NEW u, StrategyInv(y, u, s), y.replay = <<>>, y.deferred = <<>>,
           NEW f, f = Head(s), f.k # "st", ~admit_skips(y, f.seq),
           NEW h, h = handle_gap(admit(y, f.seq), db, f)
    PROVE  Handled(h, u, Tail(s), f, y.up)
<1> DEFINE b == Taken(y, f)
           a == admit(y, f.seq)
           t == Tail(s)
           p == [from |-> y.W + 1, to |-> f.seq - 1]
           first == ~y.hasLast /\ y.hasW /\ f.seq > y.W + 1
<1>1. /\ StrategyInv(b, u, t) /\ News(b, u, t, f)
      /\ b.last = f.seq /\ b.hasLast /\ b.gap = y.gap /\ b.up = y.up /\ b.pending = <<>>
      /\ b.replay = <<>> /\ b.deferred = <<>> /\ Waiting(b) = Waiting(y)
      /\ y.gap.active => ~(y.gap.from <= f.seq /\ f.seq <= y.gap.to)
  BY TakenKeeps
<1>2. ContextType(y) /\ GapInv(y) /\ TradesInv(y, u) /\ y \in Contexts /\ y.pending = <<>>
  BY DEF StrategyInv, ContextType, GapInv
<1>3. f \in Reports /\ f.seq \in Nat /\ y.W \in Nat /\ y.last \in Nat
  BY <1>2, TailFacts, FrameKinds DEF Contexts
<1>4. ~first => a = b
  BY DEF admit, Taken
<1>5. first => a = [b EXCEPT !.pending = <<p>>]
  BY <1>2 DEF admit, Taken, Contexts
<1>6. b \in Contexts /\ b.gap \in Gaps /\ (b.gap.active => y.hasLast)
  BY <1>1, <1>2 DEF StrategyInv, ContextType, Contexts, GapInv
<1> HIDE DEF b, a, t
<1>7. CASE b.gap.active
  <2>1. a = b
    BY <1>4, <1>6, <1>7
  <2> DEFINE z == stage(b, f)
  <2>2. StrategyInv(z, u, t) /\ z.up = b.up /\ z.deferred = b.deferred
    BY <1>1, <1>3, <1>7, StageKeeps
  <2> HIDE DEF z
  <2> DEFINE e == drive_gap_retry(z, db)
  <2>3. StrategyInv(e, u, t) /\ e.up = z.up
    BY <2>2, DriveKeeps
  <2>4. e.deferred = z.deferred
    BY <2>2 DEF drive_gap_retry, release_held_trigger, enqueue, StrategyInv, ContextType, Contexts
  <2>5. /\ h.x = e /\ h.pass = FALSE /\ h = [x |-> h.x, pass |-> h.pass, lost |-> h.lost]
        /\ h.lost = RetryLoss(z, db) \cup (IF Len(b.gap.staged) < kMaxStaged THEN {} ELSE {"overflow"})
    BY <1>7, <2>1 DEF handle_gap, a, e, z
  <2> HIDE DEF e
  <2>6. h.lost \in SUBSET {"exhausted", "overflow", "reset"}
    BY <2>5, LossType
  <2>. QED  BY <1>1, <2>2, <2>3, <2>4, <2>5, <2>6 DEF Handled, t
<1>8. CASE ~b.gap.active /\ ~first
  <2>1. h = [x |-> b, pass |-> TRUE, lost |-> {}]
    BY <1>1, <1>4, <1>8 DEF handle_gap, a
  <2>. QED  BY <1>1, <1>8, <2>1 DEF Handled, t
<1>9. CASE ~b.gap.active /\ first
  <2>1. a.pending = <<p>> /\ a.gap = b.gap /\ [a EXCEPT !.pending = <<>>] = b /\ a.replay = b.replay
    BY <1>1, <1>5, <1>6, <1>9, ZenonT(60) DEF Contexts
  <2>2. p \in [from : Nat, to : Nat] /\ p.from = y.W + 1 /\ p.to = f.seq - 1 /\ p.to < b.last
        /\ ~(f.seq <= p.to)
    BY <1>1, <1>3, <1>9
  <2>3. \A r \in Got(b, u) : ~(p.from <= r.seq /\ r.seq <= p.to)
    <3>1. Got(b, u) = Got(y, u)
      BY <1>1 DEF Got
    <3>2. \A r \in Got(y, u) : admit_skips(y, r.seq) /\ r.seq \in Nat
      BY <1>2, IssuedType DEF TradesInv
    <3>3. \A r \in Got(y, u) : r.seq <= y.W
      BY <1>9, <3>2 DEF admit_skips
    <3>. QED  BY <1>3, <2>2, <3>1, <3>2, <3>3
  <2> HIDE DEF p
  <2>6. h = handle_gap(a, db, f) /\ ~a.gap.active /\ a.pending # <<>> /\ a.pending[1] = p
    BY <1>9, <2>1 DEF a
  <2>4. CASE ~gap_covered(db, p.from, p.to)
    <3>1. h = [x |-> Opened(b, p, f), pass |-> FALSE, lost |-> {}]
      BY <2>1, <2>4, <2>6 DEF handle_gap, Opened
    <3> DEFINE z == Opened(b, p, f)
    <3>2. StrategyInv(z, u, t) /\ z.up = b.up /\ z.deferred = <<>>
      BY <1>1, <1>3, <1>9, <2>2, <2>3, OpenKeeps
    <3> HIDE DEF z
    <3>. QED  BY <1>1, <3>1, <3>2 DEF Handled, t, z
  <2>5. CASE gap_covered(db, p.from, p.to)
    <3> DEFINE rows == GapRows(db, p.from, p.to)
               z == enqueue(b, rows)
    <3>5. h = [x |-> z, pass |-> Fits(a, rows), lost |-> IF Fits(a, rows) THEN {} ELSE {"overflow"}]
      BY <2>1, <2>5, <2>6 DEF handle_gap
    <3>1. /\ h.x = z /\ h = [x |-> h.x, pass |-> h.pass, lost |-> h.lost]
          /\ h.lost \in SUBSET {"exhausted", "overflow", "reset"}
      BY <3>5
    <3>2. p.from \in Nat /\ p.to \in Nat
      BY <2>2
    <3>3. /\ StrategyInv(z, u, t) /\ z.up = b.up /\ z.gap = b.gap /\ z.deferred = b.deferred
          /\ \A r : Fresh(b, u, t, r) /\ ~(r.seq <= p.to) => Fresh(z, u, t, r)
      BY <1>1, <1>9, <2>2, <2>3, <3>2, EnqueueRows
    <3> HIDE DEF z
    <3>4. News(z, u, t, f)
      BY <1>1, <2>2, <3>3 DEF News
    <3>. QED  BY <1>1, <1>9, <3>1, <3>3, <3>4 DEF Handled, t
  <2>. QED  BY <2>4, <2>5
<1>. QED
  BY <1>7, <1>8, <1>9

LEMMA IngestKeeps ==
    ASSUME StoreInv, NEW s \in Seq(Frames), s # <<>>, TradesIn(s) \subseteq Issued, Guarded(s),
           NEW x, NEW u, StrategyInv(x, u, s), x.replay = <<>>, x.deferred = <<>>,
           NEW f, f = Head(s), f.k # "st",
           NEW h, h = ingest_td_frame(x, db, f, Tail(s))
    PROVE  Handled(h, u, Tail(s), f, x.up)
<1> DEFINE back == detect_reset(x, f.seq)
           y == IF back THEN reset_account(x, db) ELSE x
           skipped == IF back /\ (SkippedByReset(db, Tail(s)) \/ x.gap.active) THEN {"reset"} ELSE {}
           hg == handle_gap(admit(y, f.seq), db, f)
<1>1. f = s[1] /\ 1 \in DOMAIN s /\ f.seq \in Nat /\ x \in Contexts /\ x.last \in Nat
  BY TailFacts, FrameKinds DEF StrategyInv, ContextType, Contexts
<1>2. StrategyInv(y, u, s) /\ y.up = x.up /\ y.replay = <<>> /\ y.deferred = <<>>
  <2>1. CASE ~back
    BY <2>1
  <2>2. CASE back
    <3>1. x.hasLast /\ f.seq < x.last
      BY <2>2 DEF detect_reset
    <3>2. ~NoReset(x, s)
      BY <1>1, <3>1 DEF NoReset
    <3>3. \A r \in Got(x, u) : r \in db
      BY <3>2 DEF StrategyInv, NoResetInv
    <3>4. y = reset_account(x, db)
      BY <2>2
    <3>5. StrategyInv(reset_account(x, db), u, s) /\ reset_account(x, db).up = x.up
      BY <3>3, ResetKeeps
    <3>6. reset_account(x, db).replay = <<>> /\ reset_account(x, db).deferred = <<>>
      BY <1>1 DEF reset_account, Contexts
    <3> HIDE DEF y
    <3>. QED  BY <3>4, <3>5, <3>6
  <2>. QED  BY <2>1, <2>2
<1>3. skipped \in SUBSET {"exhausted", "overflow", "reset"}
  OBVIOUS
<1>4. h = IF admit_skips(y, f.seq)
          THEN [x |-> admit(y, f.seq), pass |-> FALSE, lost |-> skipped]
          ELSE [hg EXCEPT !.lost = @ \cup skipped]
  BY DEF ingest_td_frame
<1> HIDE DEF y, skipped, back
<1>5. y \in Contexts /\ y.pending = <<>>
  BY <1>2 DEF StrategyInv, ContextType, GapInv
<1>6. CASE admit_skips(y, f.seq)
  <2>1. admit(y, f.seq) = y
    <3>1. y.W \in Nat /\ y.hasW \in BOOLEAN /\ y.hasLast \in BOOLEAN
      BY <1>5 DEF Contexts
    <3>2. ~(~y.hasLast /\ y.hasW /\ f.seq > y.W + 1)
      BY <1>1, <1>6, <3>1 DEF admit_skips
    <3>. QED  BY <1>6, <3>2 DEF admit
  <2>2. h = [x |-> y, pass |-> FALSE, lost |-> skipped]
    BY <1>4, <1>6, <2>1
  <2>3. StrategyInv(y, u, Tail(s))
    BY <1>2, TailKeeps
  <2>. QED  BY <1>2, <1>3, <2>2, <2>3 DEF Handled
<1>7. CASE ~admit_skips(y, f.seq)
  <2>1. Handled(hg, u, Tail(s), f, y.up)
    BY <1>2, <1>7, HandleKeeps
  <2> HIDE DEF hg
  <2>2. h = [hg EXCEPT !.lost = hg.lost \cup skipped]
    BY <1>4, <1>7
  <2>3. hg = [x |-> hg.x, pass |-> hg.pass, lost |-> hg.lost] /\ hg.lost \in SUBSET {"exhausted", "overflow", "reset"}
    BY <2>1 DEF Handled
  <2>4. h = [x |-> hg.x, pass |-> hg.pass, lost |-> hg.lost \cup skipped]
    BY <2>2, <2>3
  <2>5. hg.lost \cup skipped \in SUBSET {"exhausted", "overflow", "reset"}
    BY <1>3, <2>3
  <2>. QED  BY <1>2, <2>1, <2>4, <2>5 DEF Handled
<1>. QED
  BY <1>6, <1>7

LEMMA StatusKeeps ==
    ASSUME StoreInv, NEW s \in Seq(Frames), s # <<>>,
           NEW x, NEW u, StrategyInv(x, u, s), x.replay = <<>>, x.deferred = <<>>, x.up = "up",
           NEW f, f = Head(s), f.k = "st",
           NEW h, h = dispatch_frame(x, db, f, Tail(s))
    PROVE  Handled(h, u, Tail(s), f, x.up)
<1> DEFINE z == [x EXCEPT !.prev = f.st]
           y == on_account_status_gate_reset(x, db, f)
<1>1. /\ h.x = y /\ h = [x |-> h.x, pass |-> h.pass, lost |-> h.lost]
      /\ h.lost \in SUBSET {"exhausted", "overflow", "reset"}
  <2>1. h = [x |-> y, pass |-> TRUE,
             lost |-> IF x.prev = "Offline" /\ f.st = "Ready" /\ SkippedByReset(db, Tail(s))
                      THEN {"reset"} ELSE {}]
    BY DEF dispatch_frame
  <2>. QED  BY <2>1
<1>2. f.st \in {"LoggingIn", "Ready", "Offline"} /\ x \in Contexts /\ f = s[1] /\ 1 \in DOMAIN s
  BY TailFacts, FrameKinds DEF StrategyInv, ContextType
<1>3. z \in Contexts /\ z.up = x.up /\ z.scan = x.scan /\ z.seen = x.seen /\ z.prev = f.st
      /\ z.replay = <<>> /\ z.deferred = <<>> /\ z.scan \in BOOLEAN /\ z.seen \in SUBSET Nat
  BY <1>2 DEF Contexts
<1>4. MinorChange(x, z)
  BY <1>2, <1>3 DEF Contexts, MinorChange
<1> HIDE DEF z
<1>5. StrategyInv(z, u, s) /\ Waiting(z) = Waiting(x)
  BY <1>2, <1>3, <1>4, MinorFields
<1>6. y = IF x.prev = "Offline" /\ f.st = "Ready" THEN reset_account(z, db) ELSE z
  BY DEF on_account_status_gate_reset, z
<1> HIDE DEF y
<1>7. StrategyInv(y, u, s) /\ y.up = x.up /\ y.deferred = <<>>
  <2>1. CASE ~(x.prev = "Offline" /\ f.st = "Ready")
    BY <1>3, <1>5, <1>6, <2>1
  <2>2. CASE x.prev = "Offline" /\ f.st = "Ready"
    <3>1. ~NoReset(z, s)
      BY <1>2, <2>2 DEF NoReset, Orderly
    <3>2. \A r \in Got(z, u) : r \in db
      BY <1>5, <3>1 DEF StrategyInv, NoResetInv
    <3>3. StrategyInv(reset_account(z, db), u, s) /\ reset_account(z, db).up = z.up
      BY <1>5, <3>2, ResetKeeps
    <3>4. reset_account(z, db).deferred = <<>>
      BY <1>3 DEF reset_account, Contexts
    <3>. QED  BY <1>3, <1>6, <2>2, <3>3, <3>4
  <2>. QED  BY <2>1, <2>2
<1>8. StrategyInv(y, u, Tail(s))
  BY <1>7, TailKeeps
<1>. QED
  BY <1>1, <1>7, <1>8 DEF Handled, News

LEMMA DispatchKeeps ==
    ASSUME StoreInv, NEW s \in Seq(Frames), s # <<>>, TradesIn(s) \subseteq Issued, Guarded(s),
           NEW x, NEW u, StrategyInv(x, u, s), x.replay = <<>>, x.deferred = <<>>, x.up = "up",
           NEW f, f = Head(s),
           NEW h, h = dispatch_frame(x, db, f, Tail(s))
    PROVE  Handled(h, u, Tail(s), f, "up")
<1>1. CASE f.k = "st"
  BY <1>1, StatusKeeps
<1>2. CASE f.k # "st"
  <2> DEFINE r == ingest_td_frame(x, db, f, Tail(s))
             q == [r EXCEPT !.pass = r.pass /\ is_own_report(f)]
  <2>1. Handled(r, u, Tail(s), f, "up")
    BY <1>2, IngestKeeps
  <2>2. h = admit_trade(q, f)
    BY <1>2 DEF dispatch_frame
  <2> HIDE DEF r
  <2>3. r = [x |-> r.x, pass |-> r.pass, lost |-> r.lost] /\ r.lost \in SUBSET {"exhausted", "overflow", "reset"}
    BY <2>1 DEF Handled
  <2>4. q = [x |-> r.x, pass |-> r.pass /\ is_own_report(f), lost |-> r.lost]
    BY <2>3
  <2>5. q = [x |-> q.x, pass |-> q.pass, lost |-> q.lost] /\ q.x = r.x /\ (q.pass => r.pass) /\ q.lost = r.lost
    BY <2>4
  <2> HIDE DEF q
  <2>6. Handled(q, u, Tail(s), f, "up")
    BY <2>1, <2>5 DEF Handled
  <2>7. CASE ~q.pass \/ f.k # "trd"
    BY <2>2, <2>6, <2>7 DEF admit_trade
  <2>8. CASE q.pass /\ f.k = "trd"
    <3> DEFINE y == [q.x EXCEPT !.seen = q.x.seen \cup {f.id}]
    <3>1. h = [[q EXCEPT !.pass = f.id \notin q.x.seen] EXCEPT !.x = y]
      <4>1. h = [q EXCEPT !.pass = f.id \notin q.x.seen, !.x.seen = @ \cup {f.id}]
        BY <2>2, <2>8 DEF admit_trade
      <4>. QED  BY <4>1, <2>5
    <3>2. h = [x |-> y, pass |-> f.id \notin q.x.seen, lost |-> q.lost]
      BY <2>5, <3>1
    <3>3. q.x \in Contexts /\ f.id \in Nat /\ StrategyInv(q.x, u, Tail(s)) /\ q.x.deferred = <<>> /\ q.x.up = "up"
      BY <2>6, <2>8, TailFacts, FrameKinds DEF Handled, StrategyInv, ContextType
    <3>4. /\ y.up = q.x.up /\ y.scan = q.x.scan /\ y.prev = q.x.prev /\ y.seen = q.x.seen \cup {f.id}
          /\ MinorChange(q.x, y)
      BY <3>3 DEF Contexts, MinorChange
    <3> HIDE DEF y
    <3>5. /\ StrategyInv(y, u, Tail(s)) /\ y.gap = q.x.gap /\ y.deferred = q.x.deferred
          /\ \A e : Fresh(q.x, u, Tail(s), e) => Fresh(y, u, Tail(s), e)
      BY <3>3, <3>4, MinorFields
    <3>6. /\ h.x = y /\ h.lost = q.lost /\ h = [x |-> h.x, pass |-> h.pass, lost |-> h.lost]
          /\ q.lost \in SUBSET {"exhausted", "overflow", "reset"}
      BY <2>6, <3>2 DEF Handled
    <3>7. News(y, u, Tail(s), f) /\ ~y.gap.active
      BY <2>6, <2>8, <3>5 DEF Handled, News
    <3>. QED  BY <3>3, <3>4, <3>5, <3>6, <3>7 DEF Handled
  <2>. QED  BY <2>7, <2>8
<1>. QED
  BY <1>1, <1>2

-----------------------------------------------------------------------------
(* What dispatch_frame has let pass is handed on or deferred. *)

LEMMA HandledNoted ==
    ASSUME NEW h, NEW u, NEW s, NEW f, NEW up, Handled(h, u, s, f, up),
           NEW v, v = [u EXCEPT !.lost = @ \cup h.lost]
    PROVE  Handled(h, v, s, f, up)
<1>1. StrategyInv(h.x, v, s)
  BY Noted DEF Handled
<1>2. v.trd = u.trd
  BY DEF Handled, StrategyInv, UserType
<1>. QED
  BY <1>1, <1>2 DEF Handled, News, Fresh

LEMMA DeferKeeps ==
    ASSUME StoreInv, NEW x, NEW u, NEW s, StrategyInv(x, u, s), ~x.gap.active, x.deferred = <<>>,
           NEW f \in Frames, News(x, u, s, f), NEW y, y = [x EXCEPT !.deferred = <<f>>]
    PROVE  StrategyInv(y, u, s) /\ y.replay = x.replay /\ y.up = x.up /\ y.scan = x.scan /\ y \in Contexts
           /\ y.deferred = <<f>>
<1>1. ContextType(x) /\ GapInv(x) /\ TradesInv(x, u) /\ x \in Contexts /\ x.gap = NoGap /\ NoGap.active = FALSE
  BY DEF StrategyInv, ContextType, NoGap
<1> DEFINE N == TradesIn(<<f>>)
<1>2. <<f>> \in Seq(Frames) /\ Once(<<f>>) /\ N = IF f.k = "trd" THEN {f} ELSE {}
  BY OneFrame
<1>3. /\ y \in Contexts /\ y.gap = NoGap /\ y.replay = x.replay /\ y.deferred = <<f>>
      /\ y.pending = x.pending /\ y.up = x.up /\ y.scan = x.scan /\ SameGate(x, y)
  BY <1>1, <1>2 DEF Contexts, SameGate
<1>4. ContextType(y) /\ GapInv(y) /\ ~y.gap.active
  BY <1>1, <1>3 DEF ContextType, GapInv
<1>5. \A r \in N : Fresh(x, u, s, r)
  BY <1>2 DEF News
<1>6. TradesIn(Waiting(x)) = TradesIn(x.replay) \cup TradesIn(x.deferred) /\ Once(x.replay)
  BY <1>1, WaitingShut DEF TradesInv
<1>7. /\ TradesIn(Waiting(y)) = TradesIn(y.replay) \cup TradesIn(y.deferred)
      /\ Once(Waiting(y)) <=> Once(y.replay) /\ Once(y.deferred) /\ Apart(y.replay, y.deferred)
  BY <1>3, WaitingShut
<1>8. Apart(x.replay, <<f>>)
  BY <1>5, <1>6 DEF Apart, Fresh
<1> HIDE DEF N
<1>9. TradesIn(Waiting(y)) \subseteq TradesIn(Waiting(x)) \cup N /\ Once(Waiting(y))
  BY <1>2, <1>3, <1>6, <1>7, <1>8 DEF N
<1>10. StrategyInv(y, u, s)
  BY <1>3, <1>4, <1>5, <1>9, Regroup
<1>. QED
  BY <1>3, <1>10

LEMMA PassKeeps ==
    ASSUME StoreInv, NEW h, NEW u, NEW s, NEW f \in Frames, Handled(h, u, s, f, "up"),
           OwnFrom(h.x) = 0, h.pass, NEW y, y = Popped(h.x)
    PROVE  StrategyInv(y, Told(u, f), s) /\ y.up = "up"
<1>1. StrategyInv(h.x, u, s) /\ h.x \in Contexts /\ h.x.deferred = <<>> /\ h.x.up = "up"
  BY DEF Handled, StrategyInv, ContextType
<1>2. CASE f.k # "trd"
  <2>1. /\ ContextType(y) /\ GapInv(y) /\ SameGate(h.x, y) /\ Once(Waiting(y)) /\ y.up = "up"
        /\ TradesIn(Waiting(y)) \subseteq TradesIn(Waiting(h.x)) /\ y.gap = h.x.gap
    BY <1>1, PopKeeps
  <2>. QED  BY <1>1, <1>2, <2>1, Hand
<1>3. CASE f.k = "trd"
  <2> DEFINE w == [h.x EXCEPT !.deferred = <<f>>]
  <2>1. ~h.x.gap.active /\ News(h.x, u, s, f) /\ Fresh(h.x, u, s, f)
    BY <1>3 DEF Handled, News
  <2>2. StrategyInv(w, u, s) /\ w.replay = h.x.replay /\ w \in Contexts /\ w.deferred = <<f>>
    BY <1>1, <2>1, DeferKeeps
  <2>3. w.gap = h.x.gap /\ SameGate(w, h.x) /\ h.x.gap = NoGap
    BY <1>1, <2>1 DEF Contexts, SameGate, StrategyInv, ContextType
  <2> HIDE DEF w
  <2>4. /\ ContextType(y) /\ GapInv(y) /\ SameGate(h.x, y) /\ Once(Waiting(y)) /\ y.up = "up"
        /\ TradesIn(Waiting(y)) \subseteq TradesIn(Waiting(h.x)) /\ y.gap = h.x.gap
    BY <1>1, PopKeeps
  <2>5. TradesIn(Waiting(h.x)) = TradesIn(h.x.replay) \cup TradesIn(h.x.deferred)
        /\ TradesIn(Waiting(w)) = TradesIn(w.replay) \cup TradesIn(w.deferred)
    BY <1>1, <2>2, <2>3, WaitingShut
  <2>6. TradesIn(w.deferred) = {f}
    BY <1>3, <2>2, OneFrame
  <2>7. TradesIn(Waiting(y)) \subseteq TradesIn(Waiting(w)) /\ f \in TradesIn(Waiting(w))
        /\ \A r \in TradesIn(Waiting(y)) : r.id # f.id
    BY <1>1, <2>1, <2>2, <2>4, <2>5, <2>6, NoTrades DEF Fresh
  <2>8. SameGate(w, y) /\ ~y.gap.active
    BY <2>1, <2>3, <2>4 DEF SameGate
  <2>9. StrategyInv(y, Told(u, f), s)
    BY <2>2, <2>4, <2>7, <2>8, Hand
  <2>. QED  BY <2>4, <2>9
<1>. QED
  BY <1>2, <1>3

Ringed(h, f) == [[Popped(h.x) EXCEPT !.scan = FALSE] EXCEPT !.deferred = IF h.pass THEN <<f>> ELSE @]

LEMMA RingKeeps ==
    ASSUME StoreInv, NEW h, NEW u, NEW s, NEW f \in Frames, Handled(h, u, s, f, "up"),
           OwnFrom(h.x) > 0, NEW y, y = Ringed(h, f)
    PROVE  StrategyInv(y, Told(u, h.x.replay[OwnFrom(h.x)]), s) /\ y.up = "up" /\ y.scan = FALSE
<1> DEFINE x == h.x
           v == Told(u, x.replay[OwnFrom(x)])
           w == IF h.pass THEN [x EXCEPT !.deferred = <<f>>] ELSE x
<1>1. StrategyInv(x, u, s) /\ x \in Contexts /\ x.deferred = <<>> /\ x.up = "up"
  BY DEF Handled, StrategyInv, ContextType
<1>2. ~x.gap.active
  BY <1>1, OwnFromFacts DEF StrategyInv, GapInv
<1>3. h.pass => News(x, u, s, f)
  BY DEF Handled
<1> HIDE DEF x
<1>4. StrategyInv(w, u, s) /\ w.replay = x.replay /\ w \in Contexts /\ w.up = "up" /\ w.scan = x.scan
  <2>1. CASE h.pass
    BY <1>1, <1>2, <1>3, <2>1, DeferKeeps
  <2>2. CASE ~h.pass
    BY <1>1, <2>2
  <2>. QED  BY <2>1, <2>2
<1>5. OwnFrom(w) = OwnFrom(x) /\ OwnFrom(x) > 0
  BY <1>4 DEF OwnFrom, x
<1> DEFINE z == Popped(w)
<1>6. StrategyInv(z, v, s) /\ z.up = "up"
  <2>1. StrategyInv(z, Told(u, w.replay[OwnFrom(w)]), s) /\ z.up = w.up
    BY <1>4, <1>5, PopKeeps
  <2>. QED  BY <1>4, <1>5, <2>1
<1>7. y = [z EXCEPT !.scan = FALSE]
  <2> DEFINE p == IF OwnFrom(x) = 0 THEN <<>> ELSE SubSeq(x.replay, OwnFrom(x) + 1, Len(x.replay))
  <2>1. Popped(x) = [x EXCEPT !.replay = p]
    BY DEF Popped
  <2>2. z = [w EXCEPT !.replay = p]
    BY <1>4, <1>5 DEF Popped
  <2>3. y = [[Popped(x) EXCEPT !.scan = FALSE] EXCEPT !.deferred = IF h.pass THEN <<f>> ELSE @]
    BY DEF x, Ringed
  <2> HIDE DEF z, p
  <2>4. CASE h.pass
    <3>1. w = [x EXCEPT !.deferred = <<f>>]
      BY <2>4
    <3> HIDE DEF w
    <3>. QED  BY <1>1, <2>1, <2>2, <2>3, <2>4, <3>1 DEF Contexts
  <2>5. CASE ~h.pass
    <3>1. w = x
      BY <2>5
    <3> HIDE DEF w
    <3>. QED  BY <1>1, <2>1, <2>2, <2>3, <2>5, <3>1 DEF Contexts
  <2>. QED  BY <2>4, <2>5
<1> HIDE DEF z, w, v
<1>8. z \in Contexts
  BY <1>6 DEF StrategyInv, ContextType
<1>9. y.scan = FALSE /\ y.up = "up" /\ MinorChange(z, y)
  BY <1>6, <1>7, <1>8 DEF Contexts, MinorChange
<1>. QED
  BY <1>6, <1>9, MinorFields DEF v, x

-----------------------------------------------------------------------------
(* The steps of the SDK. *)

LEMMA SdkStep ==
    ASSUME IInv, GatewayUnchanged, db' = db, ch' \in Seq(Frames), TradesIn(ch') \subseteq Issued,
           Guarded(ch'), Len(ch') <= Len(ch), StrategyInv(sdk', user', ch'),
           sdk'.up # "up" => sdk' = [NewContext EXCEPT !.up = sdk'.up] /\ user' = NoUser,
           sdk'.scan => sdk'.gap.active
    PROVE  IInv'
<1>1. db' = db /\ ctp' = ctp /\ g' = g /\ alloc' = alloc /\ fresh' = fresh /\ pq' = pq /\ fwd' = fwd
  BY DEF GatewayUnchanged
<1>2. Issued' = Issued
  BY <1>1 DEF Issued
<1>3. StoreInv'
  BY <1>1, <1>2 DEF IInv, StoreInv, CommitsInSeqOrder
<1>4. GatewayInv'
  BY <1>1, <1>2 DEF IInv, GatewayInv, LatestInv
<1>5. ChannelInv'
  <2>1. Guarded(ch)'
    BY <1>1 DEF Guarded, Orderly, Below
  <2>. QED  BY <1>2, <2>1 DEF ChannelInv
<1>6. StrategyInv(sdk, user, ch)'
  <2>1. ContextType(sdk)' /\ UserType(user)' /\ GapInv(sdk)'
    BY DEF StrategyInv, ContextType, UserType, GapInv
  <2>2. Got(sdk, user)' = Got(sdk', user')
    BY <1>2 DEF Got
  <2>3. TradesInv(sdk, user)'
    <3>1. TradesInv(sdk', user')
      BY DEF StrategyInv
    <3>. QED  BY <1>2, <2>2, <3>1 DEF TradesInv
  <2>4. NoReset(sdk, ch)' <=> NoReset(sdk', ch')
    BY <1>1 DEF NoReset, Orderly, Below
  <2>5. NoResetInv(sdk, user, ch)'
    <3>1. NoResetInv(sdk', user', ch')
      BY DEF StrategyInv
    <3>. QED  BY <1>1, <2>2, <2>4, <3>1 DEF NoResetInv
  <2>. QED  BY <2>1, <2>3, <2>5 DEF StrategyInv
<1>7. IdleInv' /\ ScanInv'
  BY DEF IdleInv, ScanInv
<1>8. (Len(ch) <= MaxChannel + Len(ctp.log) * 3 + 4)'
  <2>1. Len(ch) \in Nat /\ Len(ch') \in Nat /\ Len(ctp.log) \in Nat /\ MaxChannel \in Nat
    BY BoundsAssumption DEF IInv, ChannelInv, GatewayInv, Counterparty
  <2>2. Len(ch) <= MaxChannel + Len(ctp.log) * 3 + 4
    BY DEF IInv
  <2> DEFINE n == Len(ctp.log) * 3
  <2>3. n \in Nat
    BY <2>1
  <2>4. Len(ch') <= MaxChannel + n + 4
    <3> HIDE DEF n
    <3>. QED  BY <2>1, <2>2, <2>3 DEF n
  <2>. QED  BY <1>1, <2>4
<1>. QED
  BY <1>3, <1>4, <1>5, <1>6, <1>7, <1>8 DEF IInv

LEMMA NextEventReturnKeeps ==
    ASSUME IInv, NextEventReturn, GatewayUnchanged
    PROVE  IInv'
<1>1. StoreInv /\ ChannelInv /\ StrategyInv(sdk, user, ch) /\ sdk \in Contexts /\ Len(ch) \in Nat
  BY DEF IInv, StrategyInv, ContextType, ChannelInv
<1>2. sdk'.up = "up" /\ sdk'.scan = FALSE /\ MinorChange(sdk, sdk') /\ ch' = ch /\ user' = user /\ db' = db
  BY <1>1 DEF NextEventReturn, Contexts, MinorChange
<1>3. StrategyInv(sdk', user', ch')
  BY <1>1, <1>2, MinorFields
<1>. QED
  BY <1>1, <1>2, <1>3, SdkStep DEF ChannelInv

LEMMA NextEventEntryKeeps ==
    ASSUME IInv, NextEventEntry, GatewayUnchanged
    PROVE  IInv'
<1>1. StoreInv /\ ChannelInv /\ StrategyInv(sdk, user, ch) /\ sdk \in Contexts /\ Len(ch) \in Nat
  BY DEF IInv, StrategyInv, ContextType, ChannelInv
<1>2. sdk.up = "up" /\ ~sdk.scan /\ db' = db /\ ch' = ch
  BY DEF NextEventEntry
<1>3. PICK x : x = drive_gap_retry(sdk, db)
  OBVIOUS
<1>4. PICK u : u = [user EXCEPT !.lost = @ \cup RetryLoss(sdk, db)]
  OBVIOUS
<1>5. \/ OwnFrom(x) > 0 /\ sdk' = Popped(x) /\ user' = Told(u, x.replay[OwnFrom(x)])
      \/ /\ ~(OwnFrom(x) > 0) /\ x.deferred # <<>>
         /\ sdk' = [Popped(x) EXCEPT !.deferred = <<>>] /\ user' = Told(u, x.deferred[1])
      \/ ~(OwnFrom(x) > 0) /\ sdk' = [Popped(x) EXCEPT !.scan = x.gap.active] /\ user' = u
  BY <1>3, <1>4 DEF NextEventEntry
<1>6. StrategyInv(x, user, ch) /\ x.up = "up"
  BY <1>1, <1>2, <1>3, DriveKeeps
<1>7. x.scan = sdk.scan
  BY <1>1, <1>3 DEF drive_gap_retry, release_held_trigger, enqueue, Contexts
<1>8. StrategyInv(x, u, ch) /\ x \in Contexts
  BY <1>4, <1>6, Noted, LossType DEF StrategyInv, ContextType
<1>9. PICK y : y = Popped(x)
  OBVIOUS
<1>10. /\ ContextType(y) /\ GapInv(y) /\ SameGate(x, y) /\ Once(Waiting(y)) /\ y.up = "up"
       /\ TradesIn(Waiting(y)) \subseteq TradesIn(Waiting(x)) /\ y.gap = x.gap
       /\ y.deferred = x.deferred /\ (OwnFrom(x) = 0 => y.replay = <<>>)
       /\ StrategyInv(y, u, ch)
       /\ OwnFrom(x) > 0 => StrategyInv(y, Told(u, x.replay[OwnFrom(x)]), ch)
  BY <1>1, <1>6, <1>8, <1>9, PopKeeps
<1>11. y.scan = FALSE /\ y \in Contexts
  BY <1>2, <1>7, <1>8, <1>9, <1>10 DEF Popped, Contexts, ContextType
<1>12. OwnFrom(x) \in Nat
  BY <1>8, OwnFromFacts
<1>13. CASE OwnFrom(x) > 0 /\ sdk' = Popped(x) /\ user' = Told(u, x.replay[OwnFrom(x)])
  BY <1>1, <1>2, <1>9, <1>10, <1>11, <1>13, SdkStep DEF ChannelInv
<1>14. CASE /\ ~(OwnFrom(x) > 0) /\ x.deferred # <<>>
            /\ sdk' = [Popped(x) EXCEPT !.deferred = <<>>] /\ user' = Told(u, x.deferred[1])
  <2>1. PICK z : z = [y EXCEPT !.deferred = <<>>]
    OBVIOUS
  <2>2. y.replay = <<>>
    BY <1>10, <1>12, <1>14
  <2>12. <<>> \in Seq(Frames)
    OBVIOUS
  <2>13. /\ z \in Contexts /\ z.replay = <<>> /\ z.deferred = <<>> /\ z.gap = y.gap /\ z.up = y.up
         /\ z.pending = y.pending /\ z.scan = FALSE /\ SameGate(y, z)
    BY <1>11, <2>1, <2>2, <2>12 DEF Contexts, SameGate
  <2>3. /\ z \in Contexts /\ z.replay = <<>> /\ z.deferred = <<>> /\ z.gap = y.gap /\ z.up = y.up
        /\ z.pending = y.pending /\ z.scan = FALSE /\ SameGate(x, z)
    BY <1>10, <2>13 DEF SameGate
  <2>4. x.gap = NoGap /\ NoGap.active = FALSE
    BY <1>8, <1>14 DEF StrategyInv, GapInv, ContextType, NoGap
  <2>5. ContextType(z) /\ GapInv(z)
    <3>1. Len(z.replay) <= ReplaySlots
      BY <2>3, RingAssumption
    <3>2. z.gap = NoGap /\ ~z.gap.active /\ z.pending = <<>>
      BY <1>10, <2>3, <2>4 DEF GapInv
    <3>. QED  BY <2>3, <3>1, <3>2 DEF ContextType, GapInv
  <2>6. TradesIn(Waiting(z)) = {} /\ Once(Waiting(z))
    BY <1>10, <2>3, <2>4, WaitingShut, NoTrades DEF Apart
  <2>7. x.deferred \in Seq(Frames) /\ 1 \in DOMAIN x.deferred
    <3>1. x.deferred \in Seq(Frames)
      BY <1>8 DEF Contexts
    <3>. QED  BY <1>14, <3>1, EmptySeq
  <2>8. PICK f : f = x.deferred[1]
    OBVIOUS
  <2>9. f \in Frames /\ (f.k = "trd" => f \in TradesIn(x.deferred))
    BY <2>7, <2>8, InSeq
  <2>10. TradesIn(x.deferred) \subseteq TradesIn(Waiting(x))
    BY <1>8, <2>4, WaitingShut
  <2>11. StrategyInv(z, Told(u, f), ch)
    BY <1>1, <1>8, <2>3, <2>4, <1>10, <2>5, <2>6, <2>9, <2>10, Hand
  <2>. QED  BY <1>1, <1>2, <1>9, <1>10, <1>14, <2>1, <2>3, <2>8, <2>11, SdkStep DEF ChannelInv
<1>15. CASE ~(OwnFrom(x) > 0) /\ sdk' = [Popped(x) EXCEPT !.scan = x.gap.active] /\ user' = u
  <2>1. PICK z : z = [y EXCEPT !.scan = x.gap.active]
    OBVIOUS
  <2>2. x.gap.active \in BOOLEAN
    BY <1>8 DEF Contexts, Gaps
  <2>3. z.up = "up" /\ z.scan = x.gap.active /\ MinorChange(y, z)
    BY <1>10, <1>11, <2>1, <2>2 DEF Contexts, MinorChange
  <2>4. StrategyInv(z, u, ch) /\ z.gap = x.gap
    BY <1>1, <1>10, <2>3, MinorFields
  <2>. QED  BY <1>1, <1>2, <1>9, <1>15, <2>1, <2>3, <2>4, SdkStep DEF ChannelInv
<1>. QED
  BY <1>5, <1>13, <1>14, <1>15

LEMMA NextEventFrameKeeps ==
    ASSUME IInv, NextEventFrame, GatewayUnchanged
    PROVE  IInv'
<1>1. StoreInv /\ ChannelInv /\ StrategyInv(sdk, user, ch) /\ sdk \in Contexts /\ Len(ch) \in Nat
  BY DEF IInv, StrategyInv, ContextType, ChannelInv
<1>2. sdk.up = "up" /\ (sdk.scan \/ ~Pending(sdk)) /\ ch # <<>> /\ db' = db /\ ch' = Tail(ch)
  BY DEF NextEventFrame
<1>3. sdk.replay = <<>> /\ sdk.deferred = <<>>
  BY <1>1, <1>2 DEF IInv, ScanInv, StrategyInv, GapInv, Pending
<1>4. ch \in Seq(Frames) /\ TradesIn(ch) \subseteq Issued /\ Guarded(ch)
  BY <1>1 DEF ChannelInv
<1>5. PICK t, f, h : t = Tail(ch) /\ f = Head(ch) /\ h = dispatch_frame(sdk, db, f, t)
  OBVIOUS
<1>6. PICK u : u = [user EXCEPT !.lost = @ \cup h.lost]
  OBVIOUS
<1>7. \/ /\ OwnFrom(h.x) > 0 /\ user' = Told(u, h.x.replay[OwnFrom(h.x)])
         /\ sdk' = [[Popped(h.x) EXCEPT !.scan = FALSE] EXCEPT !.deferred = IF h.pass THEN <<f>> ELSE @]
      \/ ~(OwnFrom(h.x) > 0) /\ h.pass /\ sdk' = [Popped(h.x) EXCEPT !.scan = FALSE] /\ user' = Told(u, f)
      \/ /\ ~(OwnFrom(h.x) > 0) /\ user' = u
         /\ sdk' = [[Popped(h.x) EXCEPT !.scan = FALSE] EXCEPT !.scan = [Popped(h.x) EXCEPT !.scan = FALSE].gap.active]
  BY <1>5, <1>6 DEF NextEventFrame
<1>8. Handled(h, user, t, f, "up")
  BY <1>1, <1>2, <1>3, <1>4, <1>5, DispatchKeeps
<1>9. Handled(h, u, t, f, "up") /\ StrategyInv(h.x, u, t) /\ h.x \in Contexts /\ h.x.up = "up"
  <2>1. Handled(h, u, t, f, "up")
    BY <1>6, <1>8, HandledNoted
  <2>. QED  BY <2>1 DEF Handled, StrategyInv, ContextType
<1>10. /\ f \in Frames /\ t \in Seq(Frames) /\ Len(t) = Len(ch) - 1 /\ Len(t) <= Len(ch)
       /\ Guarded(t) /\ TradesIn(t) \subseteq Issued
  <2>1. \A q \in DOMAIN Tail(ch) : q + 1 \in DOMAIN ch /\ Tail(ch)[q] = ch[q + 1]
    BY <1>2, <1>4, TailFacts
  <2>2. TradesIn(Tail(ch)) \subseteq TradesIn(ch)
    BY <2>1 DEF TradesIn
  <2>. QED  BY <1>1, <1>2, <1>4, <1>5, <2>2, TailFacts, TailGuarded
<1>11. PICK y : y = Popped(h.x)
  OBVIOUS
<1>12. StrategyInv(y, u, t) /\ y.gap = h.x.gap /\ y.up = "up" /\ y \in Contexts
  BY <1>1, <1>9, <1>11, PopKeeps, ZenonT(60) DEF StrategyInv, ContextType
<1>13. OwnFrom(h.x) \in Nat
  BY <1>9, OwnFromFacts
<1>14. CASE /\ OwnFrom(h.x) > 0 /\ user' = Told(u, h.x.replay[OwnFrom(h.x)])
            /\ sdk' = [[Popped(h.x) EXCEPT !.scan = FALSE] EXCEPT !.deferred = IF h.pass THEN <<f>> ELSE @]
  <2>1. PICK z : z = Ringed(h, f)
    OBVIOUS
  <2>2. StrategyInv(z, Told(u, h.x.replay[OwnFrom(h.x)]), t) /\ z.up = "up" /\ z.scan = FALSE
    BY <1>1, <1>9, <1>10, <1>14, <2>1, RingKeeps
  <2>3. sdk' = z
    BY <1>14, <2>1 DEF Ringed
  <2>. QED  BY <1>2, <1>5, <1>10, <1>14, <2>2, <2>3, SdkStep
<1>15. CASE ~(OwnFrom(h.x) > 0) /\ h.pass /\ sdk' = [Popped(h.x) EXCEPT !.scan = FALSE] /\ user' = Told(u, f)
  <2>1. OwnFrom(h.x) = 0
    BY <1>13, <1>15
  <2>2. StrategyInv(y, Told(u, f), t)
    BY <1>1, <1>9, <1>10, <1>11, <1>15, <2>1, PassKeeps
  <2>3. PICK z : z = [y EXCEPT !.scan = FALSE]
    OBVIOUS
  <2>4. z.up = "up" /\ z.scan = FALSE /\ MinorChange(y, z)
    BY <1>12, <2>3 DEF Contexts, MinorChange
  <2>5. StrategyInv(z, Told(u, f), t)
    BY <1>1, <2>2, <2>4, MinorFields
  <2>. QED  BY <1>2, <1>5, <1>10, <1>11, <1>15, <2>3, <2>4, <2>5, SdkStep
<1>16. CASE /\ ~(OwnFrom(h.x) > 0) /\ user' = u
            /\ sdk' = [[Popped(h.x) EXCEPT !.scan = FALSE] EXCEPT !.scan = [Popped(h.x) EXCEPT !.scan = FALSE].gap.active]
  <2>1. PICK z : z = [[y EXCEPT !.scan = FALSE] EXCEPT !.scan = [y EXCEPT !.scan = FALSE].gap.active]
    OBVIOUS
  <2>2. y.gap.active \in BOOLEAN
    BY <1>12 DEF Contexts, Gaps
  <2>3. z.up = "up" /\ z.scan = y.gap.active /\ MinorChange(y, z)
    BY <1>12, <2>1, <2>2 DEF Contexts, MinorChange
  <2>4. StrategyInv(z, u, t) /\ z.gap = y.gap
    BY <1>1, <1>12, <2>3, MinorFields
  <2>. QED  BY <1>2, <1>5, <1>10, <1>11, <1>16, <2>1, <2>3, <2>4, SdkStep
<1>. QED
  BY <1>7, <1>14, <1>15, <1>16

(* A context without frames. *)
EmptyContext(y) ==
    /\ y \in Contexts /\ y.gap = NoGap /\ y.replay = <<>> /\ y.deferred = <<>> /\ y.pending = <<>>
    /\ y.scan = FALSE

LEMMA NewContextEmpty ==
    /\ EmptyContext(NewContext) /\ NewContext.up = "closed"
    /\ NewContext = [NewContext EXCEPT !.up = "closed"]
<1>1. NoGap \in Gaps /\ <<>> \in Seq([from : Nat, to : Nat]) /\ <<>> \in Seq(Reports) /\ <<>> \in Seq(Frames)
  <2>1. NoGap \in Gaps
    BY RetryAssumption DEF NoGap, Gaps
  <2>. QED  BY <2>1
<1>2. NewContext \in Contexts
  <2> HIDE DEF NoGap
  <2>. QED  BY <1>1 DEF NewContext, Contexts
<1>3. /\ NewContext.gap = NoGap /\ NewContext.replay = <<>> /\ NewContext.deferred = <<>>
      /\ NewContext.pending = <<>> /\ NewContext.scan = FALSE /\ NewContext.up = "closed"
  BY DEF NewContext
<1>4. NewContext = [NewContext EXCEPT !.up = "closed"]
  BY <1>2, <1>3 DEF Contexts
<1>. QED
  BY <1>2, <1>3, <1>4 DEF EmptyContext

LEMMA OpenContextEmpty ==
    ASSUME NEW x, x = [NewContext EXCEPT !.up = "open"]
    PROVE  EmptyContext(x) /\ x.up = "open"
BY NewContextEmpty DEF EmptyContext, Contexts

LEMMA LoadedContextEmpty ==
    ASSUME StoreInv, NEW x, EmptyContext(x), NEW y, y = [set_watermark(x, db) EXCEPT !.up = "up"]
    PROVE  /\ EmptyContext(y) /\ y.W = query_max_seq(db) /\ y.hasW = (query_max_seq(db) > 0)
           /\ y.up = "up"
<1>1. query_max_seq(db) \in Nat
  BY RowFacts
<1> DEFINE b == (query_max_seq(db) > 0)
<1>2. b \in BOOLEAN /\ y = [[x EXCEPT !.W = query_max_seq(db), !.hasW = b] EXCEPT !.up = "up"]
  BY DEF set_watermark
<1> HIDE DEF b
<1>3. EmptyContext(y) /\ y.W = query_max_seq(db) /\ y.hasW = b /\ y.up = "up"
  BY <1>1, <1>2 DEF EmptyContext, Contexts
<1>. QED
  BY <1>3 DEF b

(* The trades that the strategy knows are committed, and the gate skips them. *)
KnowsCommitted(y, u) ==
    /\ \A i \in DOMAIN u.trd : u.trd[i] = 1 /\ \E r \in Issued : r.id = i
    /\ \A r \in Issued : r.id \in DOMAIN u.trd => r \in db /\ admit_skips(y, r.seq)

LEMMA NewContextKeeps ==
    ASSUME StoreInv, NEW y, EmptyContext(y), NEW u, UserType(u), NEW s, KnowsCommitted(y, u)
    PROVE  StrategyInv(y, u, s)
<1>1. NoGap.active = FALSE
  BY DEF NoGap
<1>4. y \in Contexts /\ y.gap = NoGap /\ y.replay = <<>> /\ y.deferred = <<>> /\ y.pending = <<>>
  BY DEF EmptyContext
<1>5. ContextType(y) /\ GapInv(y)
  <2>1. Len(y.replay) <= ReplaySlots
    BY <1>4, RingAssumption
  <2>. QED  BY <1>1, <1>4, <2>1 DEF ContextType, GapInv
<1>6. TradesIn(Waiting(y)) = {} /\ Once(Waiting(y))
  BY <1>4, WaitingShut, NoTrades DEF Apart
<1>7. TradesInv(y, u)
  BY <1>1, <1>4, <1>6 DEF TradesInv, Got, KnowsCommitted
<1>8. NoResetInv(y, u, s)
  BY <1>6 DEF NoResetInv, Got, KnowsCommitted
<1>. QED
  BY <1>5, <1>7, <1>8 DEF StrategyInv

LEMMA NoUserFacts == UserType(NoUser) /\ \A y : KnowsCommitted(y, NoUser)
<1>1. NoUser.trd = <<>> /\ NoUser.lost = {} /\ NoUser = [ord |-> NoUser.ord, trd |-> NoUser.trd, lost |-> NoUser.lost]
  BY DEF NoUser
<1>2. DOMAIN NoUser.trd = {}
  BY <1>1
<1>. QED
  BY <1>1, <1>2 DEF UserType, KnowsCommitted

LEMMA SnapshotFacts ==
    ASSUME StoreInv
    PROVE  /\ UserType(Snapshot(db))
           /\ \A i \in DOMAIN Snapshot(db).trd :
                Snapshot(db).trd[i] = 1 /\ \E r \in Trades(db) : r.id = i
<1> DEFINE mine == {q \in {r \in db : r.own} : q.k = "trd"}
           ids == {r.id : r \in mine}
<1>1. Snapshot(db).trd = [i \in ids |-> 1] /\ Snapshot(db).lost = {}
      /\ Snapshot(db) = [ord |-> Snapshot(db).ord, trd |-> Snapshot(db).trd, lost |-> Snapshot(db).lost]
  BY DEF Snapshot
<1>2. mine \subseteq Trades(db)
  BY DEF Trades
<1> HIDE DEF mine
<1>3. \A i \in ids : \E r \in Trades(db) : r.id = i /\ i \in Nat
  BY <1>2, RowFacts
<1> HIDE DEF ids
<1>. QED
  BY <1>1, <1>3 DEF UserType

LEMMA OpenReaderKeeps ==
    ASSUME IInv, OpenReader, GatewayUnchanged
    PROVE  IInv'
<1>1. StoreInv /\ ChannelInv /\ sdk.up = "closed" /\ user = NoUser /\ Len(ch) \in Nat
  BY DEF IInv, OpenReader, IdleInv, ChannelInv
<1>2. PICK x : x = [NewContext EXCEPT !.up = "open"]
  OBVIOUS
<1>3. sdk' = x /\ ch' = <<>> /\ db' = db /\ user' = NoUser
  BY <1>1, <1>2 DEF OpenReader
<1>4. StrategyInv(x, NoUser, <<>>) /\ x.scan = FALSE /\ x.up = "open"
  BY <1>1, <1>2, OpenContextEmpty, NewContextKeeps, NoUserFacts DEF EmptyContext
<1>5. <<>> \in Seq(Frames) /\ TradesIn(<<>>) = {} /\ Guarded(<<>>) /\ Len(<<>>) <= Len(ch)
  BY <1>1, NoTrades DEF Guarded
<1>. QED
  BY <1>2, <1>3, <1>4, <1>5, SdkStep

LEMMA ReleaseKeeps ==
    ASSUME IInv, dz_release, GatewayUnchanged
    PROVE  IInv'
<1>1. StoreInv /\ ChannelInv /\ Len(ch) \in Nat
  BY DEF IInv, ChannelInv
<1>2. sdk' = NewContext /\ ch' = <<>> /\ db' = db /\ user' = NoUser
  BY DEF dz_release
<1>3. NewContext = [NewContext EXCEPT !.up = "closed"] /\ NewContext.up = "closed" /\ EmptyContext(NewContext)
  BY NewContextEmpty
<1>4. StrategyInv(NewContext, NoUser, <<>>) /\ NewContext.scan = FALSE
  BY <1>1, <1>3, NewContextKeeps, NoUserFacts DEF EmptyContext
<1>5. <<>> \in Seq(Frames) /\ TradesIn(<<>>) = {} /\ Guarded(<<>>) /\ Len(<<>>) <= Len(ch)
  BY <1>1, NoTrades DEF Guarded
<1>. QED
  BY <1>2, <1>3, <1>4, <1>5, SdkStep

LEMMA LoadWatermarksKeeps ==
    ASSUME IInv, load_all_watermarks, GatewayUnchanged
    PROVE  IInv'
<1>1. StoreInv /\ ChannelInv /\ sdk = [NewContext EXCEPT !.up = "open"] /\ Len(ch) \in Nat
  <2>1. sdk.up = "open" /\ sdk.up # "up"
    BY DEF load_all_watermarks
  <2>. QED  BY <2>1 DEF IInv, IdleInv, ChannelInv
<1>2. PICK x, y, u : x = sdk /\ y = [set_watermark(x, db) EXCEPT !.up = "up"] /\ u = Snapshot(db)
  OBVIOUS
<1>3. sdk' = y /\ user' = u /\ db' = db /\ ch' = ch
  BY <1>2 DEF load_all_watermarks
<1>4. /\ UserType(u)
      /\ \A i \in DOMAIN u.trd : u.trd[i] = 1 /\ \E r \in Trades(db) : r.id = i
  BY <1>1, <1>2, SnapshotFacts
<1>5. \A i \in DOMAIN u.trd : u.trd[i] = 1 /\ \E r \in Issued : r.id = i
  BY <1>1, <1>4, RowFacts
<1>6. EmptyContext(y) /\ y.W = query_max_seq(db) /\ y.hasW = (query_max_seq(db) > 0) /\ y.up = "up"
  BY <1>1, <1>2, OpenContextEmpty, LoadedContextEmpty
<1>7. ASSUME NEW r \in Issued, r.id \in DOMAIN u.trd PROVE r \in db /\ admit_skips(y, r.seq)
  <2>1. PICK q \in Trades(db) : q.id = r.id
    BY <1>4, <1>7
  <2>2. q = r
    BY <1>1, <2>1, RowFacts, OneRecord
  <2>3. r \in db /\ r.seq <= query_max_seq(db) /\ r.seq \in Nat /\ r.seq > 0 /\ query_max_seq(db) \in Nat
    BY <1>1, <2>1, <2>2, RowFacts DEF StoreInv
  <2>4. query_max_seq(db) > 0
    BY <2>3
  <2>. QED  BY <1>6, <2>3, <2>4 DEF admit_skips
<1>9. KnowsCommitted(y, u)
  BY <1>5, <1>7 DEF KnowsCommitted
<1>8. StrategyInv(y, u, ch) /\ y.scan = FALSE
  BY <1>1, <1>4, <1>6, <1>9, NewContextKeeps DEF EmptyContext
<1>. QED
  BY <1>1, <1>3, <1>6, <1>8, SdkStep DEF ChannelInv

-----------------------------------------------------------------------------
(* The gateway's handlers. *)

LEMMA PartialFacts ==
    ASSUME NEW S, NEW f \in Partial(S)
    PROVE  /\ DOMAIN f \subseteq Nat /\ \A o \in DOMAIN f : f[o] \in S
           /\ \A o \in Nat : \A v \in S : Put(f, o, v) \in Partial(S)
<1>1. PICK D \in SUBSET Nat : f \in [D -> S]
  BY DEF Partial
<1>2. ASSUME NEW o \in Nat, NEW v \in S PROVE Put(f, o, v) \in Partial(S)
  <2>1. D \cup {o} \in SUBSET Nat /\ DOMAIN f = D
    BY <1>1
  <2>2. Put(f, o, v) \in [D \cup {o} -> S]
    BY <1>1, <2>1 DEF Put
  <2>. QED  BY <2>1, <2>2 DEF Partial
<1>. QED
  BY <1>1, <1>2

LEMMA EmptyPartial == \A S : <<>> \in Partial(S)
<1>1. ASSUME NEW S PROVE <<>> \in Partial(S)
  <2>1. <<>> \in [{} -> S] /\ {} \in SUBSET Nat
    OBVIOUS
  <2>. QED  BY <2>1 DEF Partial
<1>. QED
  BY <1>1

LEMMA RefsFacts ==
    Refs \subseteq Nat /\ Max(Refs) \in Nat /\ \A r \in Refs : r > 0
<1>1. Refs \in SUBSET Nat /\ IsFiniteSet(Refs) /\ Refs # {}
  BY OrdersAssumption DEF Refs
<1>2. \A r \in Refs : r > 0
  BY OrdersAssumption DEF Refs
<1>3. Max(Refs) \in Refs
  BY <1>1, MaxIsGreatest
<1>. QED
  BY <1>1, <1>2, <1>3

(* A handler's work. *)
Works == [g : Sessions, out : Seq(Reports), tasks : Seq(Tasks), fresh : Nat]

Work(s, o, t, m) == [g |-> s, out |-> o, tasks |-> t, fresh |-> m]

LEMMA WorkIs ==
    ASSUME NEW s, NEW o, NEW t, NEW m, NEW x, x = Work(s, o, t, m)
    PROVE  x.g = s /\ x.out = o /\ x.tasks = t /\ x.fresh = m
BY DEF Work

LEMMA SetSession ==
    ASSUME NEW s, NEW o, NEW t, NEW m, NEW x, x = Work(s, o, t, m), NEW u
    PROVE  [x EXCEPT !.g = u] = Work(u, o, t, m)
BY DEF Work

LEMMA SetOut ==
    ASSUME NEW s, NEW o, NEW t, NEW m, NEW x, x = Work(s, o, t, m), NEW u
    PROVE  [x EXCEPT !.out = u] = Work(s, u, t, m)
BY DEF Work

LEMMA SetTasks ==
    ASSUME NEW s, NEW o, NEW t, NEW m, NEW x, x = Work(s, o, t, m), NEW u
    PROVE  [x EXCEPT !.tasks = u] = Work(s, o, u, m)
BY DEF Work

LEMMA SetFresh ==
    ASSUME NEW s, NEW o, NEW t, NEW m, NEW x, x = Work(s, o, t, m), NEW u
    PROVE  [x EXCEPT !.fresh = u] = Work(s, o, t, u)
BY DEF Work

(* Seqs beyond those of the session before the step, in order. *)
Beyond(s, top) ==
  /\ \A i \in DOMAIN s : s[i].k # "del" => g.seq < s[i].seq
  /\ \A i \in DOMAIN s : s[i].seq <= top
  /\ \A i, j \in DOMAIN s : i < j /\ s[i].k # "del" /\ s[j].k # "del" => s[i].seq < s[j].seq

(* What a step of the gateway sends: at most n reports, each trade for the first time. *)
Emission(x, n) ==
  /\ x \in Works /\ Len(x.out) <= n
  /\ g.seq <= x.g.seq /\ x.g.logged = g.logged /\ g.keys \subseteq x.g.keys
  /\ Beyond(x.out, x.g.seq) /\ Beyond(x.tasks, x.g.seq)
  /\ TradesIn(x.out) \subseteq TradesIn(x.tasks) /\ Once(x.tasks)
  /\ \A r \in TradesIn(x.tasks) : r.id \in x.g.keys /\ r.id \notin g.keys
  /\ \A i \in DOMAIN x.g.lastO : i = 1 /\ x.g.lastO[i].k = "ord"
  /\ \A i \in DOMAIN x.g.lastT : i = 1 /\ x.g.lastT[i].k = "trd"
  /\ TradesIn(x.g.lastT) \subseteq TradesIn(g.lastT) \cup TradesIn(x.tasks)

Quiet(x, y) == y.g.pos = x.g.pos /\ y.g.buf = x.g.buf

LEMMA WorkFields ==
    ASSUME NEW x \in Works
    PROVE  /\ x = Work(x.g, x.out, x.tasks, x.fresh)
           /\ x.g \in Sessions /\ x.out \in Seq(Reports) /\ x.tasks \in Seq(Tasks) /\ x.fresh \in Nat
           /\ x.g.seq \in Nat /\ x.g.keys \in SUBSET Nat /\ x.g.mine \in SUBSET Nat
           /\ x.g.lastT \in Seq(Rows) /\ x.g.lastO \in Seq(Rows)
           /\ x.g.map \in Partial(Nat) /\ x.g.cnt \in Partial(Nat) /\ x.g.base \in Partial(Record({"ord"}))
           /\ x.g.hold \in BOOLEAN /\ x.g.ready \in BOOLEAN /\ x.g.logged \in BOOLEAN
           /\ x.g.pos \in Nat /\ x.g.buf \in [ord : Seq(Events), trd : Seq(Events)]
BY DEF Works, Sessions, Work

LEMMA StartFacts ==
    ASSUME g \in Sessions, fresh \in Nat, LatestInv(g)
    PROVE  Emission(X0, 0)
<1>1. X0.g = g /\ X0.out = <<>> /\ X0.tasks = <<>> /\ X0.fresh = fresh /\ X0 \in Works
  BY DEF X0, Works
<1>2. <<>> \in Seq(Reports) /\ Len(<<>>) <= 0 /\ Once(<<>>) /\ TradesIn(<<>>) = {}
  BY NoTrades
<1>3. Beyond(<<>>, g.seq)
  BY DEF Beyond
<1>4. g.seq \in Nat
  BY DEF Sessions
<1>. QED
  BY <1>1, <1>2, <1>3, <1>4 DEF Emission, LatestInv

(* The session changes, nothing is sent. *)
LEMMA SilentKeeps ==
    ASSUME NEW x, NEW n, Emission(x, n), NEW s \in Sessions, NEW m \in Nat,
           s.seq = x.g.seq, s.logged = x.g.logged, s.keys = x.g.keys,
           s.lastO = x.g.lastO, s.lastT = x.g.lastT,
           NEW y, y = Work(s, x.out, x.tasks, m)
    PROVE  Emission(y, n)
<1>1. y \in Works /\ y.g = s /\ y.out = x.out /\ y.tasks = x.tasks
  BY DEF Emission, Works, Work
<1>. QED
  BY <1>1 DEF Emission

(* A record without a new trade, or with one, goes to the channel and the queue. *)
LEMMA AppendBeyond ==
    ASSUME NEW S, NEW q \in Seq(S), NEW top \in Nat, \A i \in DOMAIN q : q[i].seq \in Nat,
           g.seq \in Nat, g.seq <= top, Beyond(q, top), NEW r \in S, r.seq = top + 1
    PROVE  Beyond(Append(q, r), top + 1)
<1> DEFINE p == Append(q, r)
           m == Len(q) + 1
<1>1. /\ DOMAIN p = 1..m /\ DOMAIN q = 1..Len(q) /\ Len(q) \in Nat /\ p[m] = r
      /\ \A i \in 1..Len(q) : p[i] = q[i]
  OBVIOUS
<1> HIDE DEF p
<1>2. \A i \in DOMAIN p : i \in DOMAIN q \/ i = m
  BY <1>1
<1>3. \A i \in DOMAIN q : p[i] = q[i] /\ i < m /\ ~(m < i)
  BY <1>1
<1>4. \A i \in DOMAIN p : p[i].k # "del" => g.seq < p[i].seq
  BY <1>1, <1>2, <1>3 DEF Beyond
<1>5. \A i \in DOMAIN p : p[i].seq <= top + 1
  BY <1>1, <1>2, <1>3 DEF Beyond
<1>6. ASSUME NEW i \in DOMAIN p, NEW j \in DOMAIN p, i < j, p[i].k # "del", p[j].k # "del"
      PROVE p[i].seq < p[j].seq
  <2>1. i \in DOMAIN q
    BY <1>1, <1>2, <1>6
  <2>2. CASE j \in DOMAIN q
    BY <1>3, <1>6, <2>1, <2>2 DEF Beyond
  <2>3. CASE j = m
    <3>1. q[i].seq <= top /\ q[i].seq \in Nat
      BY <2>1 DEF Beyond
    <3>. QED  BY <1>1, <1>3, <2>1, <2>3, <3>1
  <2>. QED  BY <1>2, <2>2, <2>3
<1>. QED
  BY <1>4, <1>5, <1>6 DEF Beyond, p

LEMMA AppendIs ==
    ASSUME NEW S, NEW q \in Seq(S), NEW r \in S
    PROVE  /\ Append(q, r) = q \o <<r>> /\ Append(q, r) \in Seq(S) /\ Len(Append(q, r)) = Len(q) + 1
           /\ TradesIn(Append(q, r)) = TradesIn(q) \cup TradesIn(<<r>>)
           /\ Once(Append(q, r)) <=> Once(q) /\ Once(<<r>>) /\ Apart(q, <<r>>)
<1>1. Append(q, r) = q \o <<r>> /\ <<r>> \in Seq(S) /\ Append(q, r) \in Seq(S)
      /\ Len(Append(q, r)) = Len(q) + 1
  OBVIOUS
<1>2. TradesIn(q \o <<r>>) = TradesIn(q) \cup TradesIn(<<r>>)
  BY <1>1, JoinedTrades
<1>3. Once(q \o <<r>>) <=> Once(q) /\ Once(<<r>>) /\ Apart(q, <<r>>)
  BY <1>1, JoinedOnce
<1>. QED
  BY <1>1, <1>2, <1>3

(* What the session is when the record r has been given the next seq. *)
Records(x, s, r) ==
  /\ s \in Sessions /\ r \in Rows /\ s.seq = x.g.seq + 1 /\ r.seq = x.g.seq + 1
  /\ s.logged = x.g.logged
  /\ r.k = "trd" => r.id \notin x.g.keys
  /\ s.keys = IF r.k = "trd" THEN x.g.keys \cup {r.id} ELSE x.g.keys
  /\ s.lastO = x.g.lastO \/ (s.lastO = <<r>> /\ r.k = "ord")
  /\ s.lastT = x.g.lastT \/ (s.lastT = <<r>> /\ r.k = "trd")

LEMMA EmitKeeps ==
    ASSUME g \in Sessions, NEW x, NEW n \in Nat, Emission(x, n), NEW s, NEW r, Records(x, s, r),
           NEW m \in Nat,
           NEW y, y = Work(s, Append(x.out, r), Append(x.tasks, r), m)
    PROVE  Emission(y, n + 1)
<1>1. x \in Works /\ x.out \in Seq(Reports) /\ x.tasks \in Seq(Tasks) /\ x.g.seq \in Nat /\ g.seq \in Nat
      /\ Len(x.out) <= n /\ Len(x.out) \in Nat /\ x.g.lastT \in Seq(Rows)
  BY WorkFields DEF Emission, Sessions
<1>2. r \in Reports /\ r \in Tasks /\ r \in Rows /\ s \in Sessions /\ r.id \in Nat
  BY DEF Records, Rows, Reports, Tasks, Record
<1>3. /\ y \in Works /\ y.g = s /\ y.out = Append(x.out, r) /\ y.tasks = Append(x.tasks, r)
      /\ Len(y.out) <= n + 1
  BY <1>1, <1>2 DEF Works, Work
<1>5. s.seq = x.g.seq + 1 /\ g.seq <= s.seq /\ g.seq <= x.g.seq
  BY <1>1, <1>2 DEF Records, Emission
<1>6. Beyond(y.out, s.seq)
  <2>1. \A i \in DOMAIN x.out : x.out[i].seq \in Nat
    <3>1. \A i \in DOMAIN x.out : x.out[i] \in Reports
      BY <1>1, InSeq
    <3>. QED  BY <3>1 DEF Reports, Record
  <2>2. Beyond(x.out, x.g.seq) /\ r.seq = x.g.seq + 1
    BY DEF Emission, Records
  <2>3. Beyond(Append(x.out, r), x.g.seq + 1)
    BY <1>1, <1>2, <1>5, <2>1, <2>2, AppendBeyond
  <2>. QED  BY <1>3, <1>5, <2>3
<1>7. Beyond(y.tasks, s.seq)
  <2>1. \A i \in DOMAIN x.tasks : x.tasks[i].seq \in Nat
    <3>1. \A i \in DOMAIN x.tasks : x.tasks[i] \in Tasks
      BY <1>1, InSeq
    <3>. QED  BY <3>1 DEF Tasks, Record
  <2>2. Beyond(x.tasks, x.g.seq) /\ r.seq = x.g.seq + 1
    BY DEF Emission, Records
  <2>3. Beyond(Append(x.tasks, r), x.g.seq + 1)
    BY <1>1, <1>2, <1>5, <2>1, <2>2, AppendBeyond
  <2>. QED  BY <1>3, <1>5, <2>3
<1> DEFINE N == TradesIn(<<r>>)
<1>8. <<r>> \in Seq(Reports) /\ <<r>> \in Seq(Tasks) /\ Once(<<r>>) /\ N = IF r.k = "trd" THEN {r} ELSE {}
  BY <1>2, OneFrame
<1>9. TradesIn(y.out) = TradesIn(x.out) \cup N
  BY <1>1, <1>2, <1>3, AppendIs
<1>10. /\ TradesIn(y.tasks) = TradesIn(x.tasks) \cup N
       /\ Once(y.tasks) <=> Once(x.tasks) /\ Once(<<r>>) /\ Apart(x.tasks, <<r>>)
  BY <1>1, <1>2, <1>3, AppendIs
<1>11. \A q \in N : q = r /\ r.k = "trd" /\ q.id \notin x.g.keys /\ q.id \in s.keys
  BY <1>8 DEF Records
<1>12. x.g.keys \subseteq s.keys
  BY DEF Records
<1>13. Apart(x.tasks, <<r>>)
  BY <1>11 DEF Apart, Emission
<1>14. \A q \in TradesIn(y.tasks) : q.id \in s.keys /\ q.id \notin g.keys
  BY <1>10, <1>11, <1>12 DEF Emission
<1>15. /\ \A i \in DOMAIN s.lastO : i = 1 /\ s.lastO[i].k = "ord"
       /\ \A i \in DOMAIN s.lastT : i = 1 /\ s.lastT[i].k = "trd"
  BY DEF Records, Emission
<1>16. TradesIn(s.lastT) \subseteq TradesIn(g.lastT) \cup TradesIn(y.tasks)
  <2>1. CASE s.lastT = x.g.lastT
    BY <1>10, <2>1 DEF Emission
  <2>2. CASE s.lastT = <<r>>
    BY <1>10, <2>2
  <2>. QED  BY <2>1, <2>2 DEF Records
<1> HIDE DEF N
<1>. QED
  BY <1>3, <1>5, <1>6, <1>7, <1>8, <1>9, <1>10, <1>12, <1>13, <1>14, <1>15, <1>16 DEF Emission, Records

-----------------------------------------------------------------------------
(* Each handler keeps Emission. *)

LEMMA EmitIs ==
    ASSUME NEW s, NEW o, NEW t, NEW m, NEW z, z = Work(s, o, t, m), NEW r, NEW u, u = [s EXCEPT !.seq = r.seq]
    PROVE  Emit(z, r) = Work(u, Append(o, r), Append(t, r), m)
<1>1. z.g = s /\ z.out = o /\ z.tasks = t /\ z.fresh = m
  BY WorkIs
<1>2. PICK a : a = [z EXCEPT !.g = [z.g EXCEPT !.seq = r.seq]]
  OBVIOUS
<1>3. PICK p : p = Append(o, r)
  OBVIOUS
<1>4. PICK q : q = Append(t, r)
  OBVIOUS
<1>5. a = Work(u, o, t, m)
  <2>1. a = [z EXCEPT !.g = u]
    BY <1>1, <1>2
  <2>. QED  BY <2>1, SetSession
<1>6. a.out = o /\ a.tasks = t
  BY <1>5, WorkIs
<1>7. PICK b : b = [a EXCEPT !.out = p]
  OBVIOUS
<1>8. b = Work(u, p, t, m)
  BY <1>5, <1>7, SetOut
<1>9. b.tasks = t
  BY <1>8, WorkIs
<1>10. [b EXCEPT !.tasks = q] = Work(u, p, q, m)
  BY <1>8, SetTasks
<1>11. Emit(z, r) = [b EXCEPT !.tasks = q]
  BY <1>2, <1>3, <1>4, <1>6, <1>7, <1>9 DEF Emit
<1>. QED
  BY <1>3, <1>4, <1>10, <1>11

LEMMA EmitOf ==
    \A s, o, t, m, r : Emit(Work(s, o, t, m), r) = Work([s EXCEPT !.seq = r.seq], Append(o, r), Append(t, r), m)
<1>1. SUFFICES ASSUME NEW s, NEW o, NEW t, NEW m, NEW r
               PROVE  Emit(Work(s, o, t, m), r) = Work([s EXCEPT !.seq = r.seq], Append(o, r), Append(t, r), m)
  OBVIOUS
<1>2. PICK z, u : z = Work(s, o, t, m) /\ u = [s EXCEPT !.seq = r.seq]
  OBVIOUS
<1>3. Emit(z, r) = Work(u, Append(o, r), Append(t, r), m)
  BY <1>2, EmitIs
<1>. QED
  BY <1>2, <1>3

LEMMA SessionOf == \A s, o, t, m : Work(s, o, t, m).g = s
BY DEF Work

LEMMA WithSession ==
    ASSUME NEW x \in Works, NEW u
    PROVE  [x EXCEPT !.g = u] = Work(u, x.out, x.tasks, x.fresh)
<1>1. x = Work(x.g, x.out, x.tasks, x.fresh)
  BY WorkFields
<1>2. PICK a, b, c, d : a = x.g /\ b = x.out /\ c = x.tasks /\ d = x.fresh
  OBVIOUS
<1>3. x = Work(a, b, c, d)
  BY <1>1, <1>2
<1>4. [x EXCEPT !.g = u] = Work(u, b, c, d)
  BY <1>3, SetSession
<1>. QED
  BY <1>2, <1>4

LEMMA AcceptOrder ==
    ASSUME g \in Sessions, NEW x, NEW n \in Nat, Emission(x, n),
           NEW r \in Record({"ord"}), r.seq = x.g.seq + 1, NEW y, y = accept_order(x, r)
    PROVE  Emission(y, n + 1) /\ Quiet(x, y) /\ y.g.cnt = x.g.cnt /\ y.g.map = x.g.map
<1> DEFINE b == Put(x.g.base, r.oid, r)
           p == [[x.g EXCEPT !.base = b] EXCEPT !.lastO = <<r>>]
           z == Work(p, x.out, x.tasks, x.fresh)
           s == [p EXCEPT !.seq = r.seq]
<1>1. x \in Works /\ x.fresh \in Nat /\ x.g \in Sessions /\ x.g.base \in Partial(Record({"ord"})) /\ x.g.seq \in Nat
      /\ x = Work(x.g, x.out, x.tasks, x.fresh)
  BY WorkFields DEF Emission
<1>2. r.oid \in Nat /\ r.k = "ord" /\ r \in Rows /\ r.seq \in Nat
  BY DEF Record, Rows, RowKinds
<1>3. b \in Partial(Record({"ord"}))
  BY <1>1, <1>2, PartialFacts
<1>4. y = Emit(Work(p, x.out, x.tasks, x.fresh), r)
  <2> HIDE DEF b
  <2>2. PICK a : a = [x EXCEPT !.g = [x.g EXCEPT !.base = b]]
    OBVIOUS
  <2>3. a = Work([x.g EXCEPT !.base = b], x.out, x.tasks, x.fresh)
    BY <1>1, <2>2, WithSession
  <2>5. a.g = [x.g EXCEPT !.base = b]
    BY <2>3, SessionOf
  <2>6. PICK c, d, e, h : c = a.g /\ d = x.out /\ e = x.tasks /\ h = x.fresh
    OBVIOUS
  <2>7. a = Work(c, d, e, h)
    BY <2>3, <2>5, <2>6
  <2>8. [a EXCEPT !.g = p] = Work(p, d, e, h)
    BY <2>7, SetSession
  <2>4. [a EXCEPT !.g = [a.g EXCEPT !.lastO = <<r>>]] = z
    BY <2>5, <2>6, <2>8
  <2>1. [x EXCEPT !.g.base = b, !.g.lastO = <<r>>] = z
    BY <2>2, <2>4
  <2>. QED  BY <2>1 DEF accept_order, b
<1>5. <<r>> \in Seq(Rows)
  BY <1>2
<1> HIDE DEF b
<1>6. /\ s \in Sessions /\ s.seq = r.seq /\ s.lastO = <<r>> /\ s.lastT = x.g.lastT /\ s.keys = x.g.keys
      /\ s.logged = x.g.logged /\ s.pos = x.g.pos /\ s.buf = x.g.buf /\ s.cnt = x.g.cnt /\ s.map = x.g.map
  BY <1>1, <1>2, <1>3, <1>5 DEF Sessions
<1>7. y = Work(s, Append(x.out, r), Append(x.tasks, r), x.fresh)
  <2> HIDE DEF p
  <2>. QED  BY <1>4, EmitOf
<1> HIDE DEF s
<1>8. Records(x, s, r)
  BY <1>2, <1>6 DEF Records
<1>9. Emission(y, n + 1)
  BY <1>1, <1>7, <1>8, EmitKeeps
<1>11. y.g = s
  BY <1>7, SessionOf
<1>. QED
  BY <1>6, <1>9, <1>11 DEF Quiet

LEMMA AcceptTrade ==
    ASSUME g \in Sessions, NEW x, NEW n \in Nat, Emission(x, n),
           NEW r \in Record({"trd"}), r.seq = x.g.seq + 1, r.id \notin x.g.keys,
           NEW y, y = accept_trade(x, r)
    PROVE  Emission(y, n + 1) /\ Quiet(x, y)
<1> DEFINE b == x.g.keys \cup {r.id}
           p == [[x.g EXCEPT !.keys = b] EXCEPT !.lastT = <<r>>]
           z == Work(p, x.out, x.tasks, x.fresh)
           s == [p EXCEPT !.seq = r.seq]
<1>1. x \in Works /\ x.fresh \in Nat /\ x.g \in Sessions /\ x.g.keys \in SUBSET Nat /\ x.g.seq \in Nat
      /\ x = Work(x.g, x.out, x.tasks, x.fresh)
  BY WorkFields DEF Emission
<1>2. r.id \in Nat /\ r.k = "trd" /\ r \in Rows /\ r.seq \in Nat
  BY DEF Record, Rows, RowKinds
<1>3. b \in SUBSET Nat
  BY <1>1, <1>2
<1>4. y = Emit(Work(p, x.out, x.tasks, x.fresh), r)
  <2> HIDE DEF b
  <2>2. PICK a : a = [x EXCEPT !.g = [x.g EXCEPT !.keys = b]]
    OBVIOUS
  <2>3. a = Work([x.g EXCEPT !.keys = b], x.out, x.tasks, x.fresh)
    BY <1>1, <2>2, WithSession
  <2>5. a.g = [x.g EXCEPT !.keys = b]
    BY <2>3, SessionOf
  <2>6. PICK c, d, e, h : c = a.g /\ d = x.out /\ e = x.tasks /\ h = x.fresh
    OBVIOUS
  <2>7. a = Work(c, d, e, h)
    BY <2>3, <2>5, <2>6
  <2>8. [a EXCEPT !.g = p] = Work(p, d, e, h)
    BY <2>7, SetSession
  <2>4. [a EXCEPT !.g = [a.g EXCEPT !.lastT = <<r>>]] = z
    BY <2>5, <2>6, <2>8
  <2>1. [x EXCEPT !.g.keys = b, !.g.lastT = <<r>>] = z
    BY <2>2, <2>4
  <2>. QED  BY <2>1 DEF accept_trade, b
<1>5. <<r>> \in Seq(Rows)
  BY <1>2
<1>10. b = x.g.keys \cup {r.id}
  OBVIOUS
<1> HIDE DEF b
<1>6. /\ s \in Sessions /\ s.seq = r.seq /\ s.lastT = <<r>> /\ s.lastO = x.g.lastO /\ s.keys = b
      /\ s.logged = x.g.logged /\ s.pos = x.g.pos /\ s.buf = x.g.buf
  BY <1>1, <1>2, <1>3, <1>5 DEF Sessions
<1>7. y = Work(s, Append(x.out, r), Append(x.tasks, r), x.fresh)
  <2> HIDE DEF p
  <2>. QED  BY <1>4, EmitOf
<1> HIDE DEF s
<1>8. Records(x, s, r)
  BY <1>2, <1>6, <1>10 DEF Records
<1>9. Emission(y, n + 1)
  BY <1>1, <1>7, <1>8, EmitKeeps
<1>11. y.g = s
  BY <1>7, SessionOf
<1>. QED
  BY <1>6, <1>9, <1>11 DEF Quiet

LEMMA PushPosition ==
    ASSUME g \in Sessions, NEW x, NEW n \in Nat, Emission(x, n), NEW y, y = push_position(x)
    PROVE  Emission(y, n + 1) /\ Quiet(x, y)
<1> DEFINE p == [x.g EXCEPT !.hold = TRUE]
           z == Work(p, x.out, x.tasks, x.fresh)
           r == PositionRec(x.g.seq + 1)
           s == [p EXCEPT !.seq = r.seq]
<1>1. x \in Works /\ x.fresh \in Nat /\ x.g \in Sessions /\ x.g.seq \in Nat
      /\ x = Work(x.g, x.out, x.tasks, x.fresh)
  BY WorkFields DEF Emission
<1>2. r.k = "pos" /\ r \in Rows /\ r.seq \in Nat /\ r.seq = x.g.seq + 1
  BY <1>1 DEF Record, Rows, RowKinds, PositionRec
<1>4. y = Emit(Work(p, x.out, x.tasks, x.fresh), r)
  <2> HIDE DEF r
  <2>1. [x EXCEPT !.g.hold = TRUE] = z
    BY <1>1, WithSession
  <2>. QED  BY <2>1 DEF push_position, Seq1, r
<1> HIDE DEF r
<1>6. /\ s \in Sessions /\ s.seq = r.seq /\ s.lastT = x.g.lastT /\ s.lastO = x.g.lastO /\ s.keys = x.g.keys
      /\ s.logged = x.g.logged /\ s.pos = x.g.pos /\ s.buf = x.g.buf
  BY <1>1, <1>2 DEF Sessions
<1>7. y = Work(s, Append(x.out, r), Append(x.tasks, r), x.fresh)
  <2> HIDE DEF p
  <2>. QED  BY <1>4, EmitOf
<1> HIDE DEF s
<1>8. Records(x, s, r)
  BY <1>2, <1>6 DEF Records
<1>9. Emission(y, n + 1)
  BY <1>1, <1>7, <1>8, EmitKeeps
<1>11. y.g = s
  BY <1>7, SessionOf
<1>. QED
  BY <1>6, <1>9, <1>11 DEF Quiet

LEMMA PushAccount ==
    ASSUME g \in Sessions, NEW x, NEW n \in Nat, Emission(x, n), NEW y, y = push_account(x)
    PROVE  Emission(y, n + 1) /\ Quiet(x, y)
<1> DEFINE r == AccountRec(x.g.seq + 1)
           s == [x.g EXCEPT !.seq = r.seq]
<1>1. x \in Works /\ x.fresh \in Nat /\ x.g \in Sessions /\ x.g.seq \in Nat
      /\ x = Work(x.g, x.out, x.tasks, x.fresh)
  BY WorkFields DEF Emission
<1>2. r.k = "acc" /\ r \in Rows /\ r.seq \in Nat /\ r.seq = x.g.seq + 1
  BY <1>1 DEF Record, Rows, RowKinds, AccountRec
<1>4. y = Emit(Work(x.g, x.out, x.tasks, x.fresh), r)
  BY <1>1 DEF push_account, Seq1
<1> HIDE DEF r
<1>6. /\ s \in Sessions /\ s.seq = r.seq /\ s.lastT = x.g.lastT /\ s.lastO = x.g.lastO /\ s.keys = x.g.keys
      /\ s.logged = x.g.logged /\ s.pos = x.g.pos /\ s.buf = x.g.buf
  BY <1>1, <1>2 DEF Sessions
<1>7. y = Work(s, Append(x.out, r), Append(x.tasks, r), x.fresh)
  BY <1>4, EmitOf
<1> HIDE DEF s
<1>8. Records(x, s, r)
  BY <1>2, <1>6 DEF Records
<1>9. Emission(y, n + 1)
  BY <1>1, <1>7, <1>8, EmitKeeps
<1>11. y.g = s
  BY <1>7, SessionOf
<1>. QED
  BY <1>6, <1>9, <1>11 DEF Quiet

LEMMA FreshWork ==
    ASSUME NEW x \in Works, NEW u, NEW y,
           y = [[x EXCEPT !.g = u] EXCEPT !.fresh = [x EXCEPT !.g = u].fresh + 1]
    PROVE  y = Work(u, x.out, x.tasks, x.fresh + 1) /\ y.g = u
<1>1. PICK a : a = [x EXCEPT !.g = u]
  OBVIOUS
<1>2. PICK b, c, d : b = x.out /\ c = x.tasks /\ d = x.fresh
  OBVIOUS
<1>3. a = Work(u, b, c, d)
  BY <1>1, <1>2, WithSession
<1>4. a.fresh = d
  BY <1>3, WorkIs
<1>6. PICK m : m = d + 1
  OBVIOUS
<1>5. y = Work(u, b, c, m)
  <2>1. y = [a EXCEPT !.fresh = m]
    BY <1>1, <1>4, <1>6
  <2>2. [a EXCEPT !.fresh = m] = Work(u, b, c, m)
    BY <1>3, SetFresh
  <2>. QED  BY <2>1, <2>2
<1>7. y.g = u
  BY <1>5, WorkIs
<1>. QED
  BY <1>2, <1>5, <1>6, <1>7

(* An order that is not known gets an id. *)
WithId(x, ref, oid) == [x EXCEPT !.g.map = Put(@, ref, oid), !.fresh = @ + 1]

LEMMA NewOrderId ==
    ASSUME g \in Sessions, NEW x, NEW n \in Nat, Emission(x, n), NEW ref \in Nat, NEW oid \in Nat,
           NEW y, y = WithId(x, ref, oid)
    PROVE  Emission(y, n) /\ Quiet(x, y) /\ y.g.seq = x.g.seq
<1> DEFINE s == [x.g EXCEPT !.map = Put(x.g.map, ref, oid)]
<1>1. x \in Works /\ x.g \in Sessions /\ x.fresh \in Nat /\ x.g.map \in Partial(Nat)
  BY WorkFields DEF Emission
<1>2. Put(x.g.map, ref, oid) \in Partial(Nat)
  BY <1>1, PartialFacts
<1>3. /\ s \in Sessions /\ s.seq = x.g.seq /\ s.logged = x.g.logged /\ s.keys = x.g.keys
      /\ s.lastO = x.g.lastO /\ s.lastT = x.g.lastT /\ s.pos = x.g.pos /\ s.buf = x.g.buf
  BY <1>1, <1>2 DEF Sessions
<1>4. y = [[x EXCEPT !.g = s] EXCEPT !.fresh = [x EXCEPT !.g = s].fresh + 1]
  BY DEF WithId
<1> HIDE DEF s
<1>5. y = Work(s, x.out, x.tasks, x.fresh + 1) /\ y.g = s
  BY <1>1, <1>4, FreshWork
<1>6. y.g = s
  BY <1>5
<1>7. x.fresh + 1 \in Nat
  BY <1>1
<1>8. Emission(y, n)
  BY <1>3, <1>5, <1>7, SilentKeeps
<1>. QED
  BY <1>3, <1>6, <1>8 DEF Quiet

LEMMA EmissionMore ==
    ASSUME NEW x, NEW n \in Nat, NEW m \in Nat, n <= m, Emission(x, n)
    PROVE  Emission(x, m)
<1>1. Len(x.out) \in Nat /\ Len(x.out) <= n
  BY WorkFields DEF Emission
<1>2. Len(x.out) <= m
  BY <1>1
<1>. QED
  BY <1>2 DEF Emission

OrderEvents == [k : {"ord"}, ref : Refs, v : Nat, t : Nat]
TradeEvents == [k : {"trd"}, ref : Refs, id : Nat]

OidOf(x, e) == IF Has(x.g.map, e.ref) THEN x.g.map[e.ref] ELSE Max(Refs) + 1 + x.fresh
Known(x, e) == IF Has(x.g.map, e.ref) THEN x ELSE WithId(x, e.ref, OidOf(x, e))
Counted(x, oid) == IF Has(x.g.cnt, oid) THEN x.g.cnt[oid]
                   ELSE IF Has(x.g.base, oid) THEN x.g.base[oid].n ELSE 0
OrderOf(x, e) ==
  LET z == Known(x, e)
      oid == OidOf(x, e)
  IN  OrderRec(oid, oid \in z.g.mine, e.v, e.t, Counted(x, oid), Seq1(z))

LEMMA RtnOrderIs ==
    ASSUME NEW x, NEW e
    PROVE  on_rtn_order(x, e) = IF check_order_skips(Known(x, e).g, OidOf(x, e), e) THEN Known(x, e)
                                ELSE accept_order(Known(x, e), OrderOf(x, e))
BY DEF on_rtn_order, OidOf, Known, Counted, OrderOf, WithId

LEMMA OnRtnOrder ==
    ASSUME g \in Sessions, NEW x, NEW n \in Nat, Emission(x, n), NEW e \in OrderEvents,
           NEW y, y = on_rtn_order(x, e)
    PROVE  Emission(y, n + 1) /\ Quiet(x, y)
<1>1. x \in Works /\ x.g \in Sessions /\ x.fresh \in Nat /\ x.g.map \in Partial(Nat) /\ x.g.seq \in Nat
      /\ x.g.cnt \in Partial(Nat) /\ x.g.base \in Partial(Record({"ord"})) /\ x.g.mine \in SUBSET Nat
  BY WorkFields DEF Emission
<1>2. e.ref \in Nat /\ e.v \in Nat /\ e.t \in Nat /\ e.ref \in Refs /\ Max(Refs) \in Nat
  BY RefsFacts DEF OrderEvents
<1>3. PICK oid : oid = OidOf(x, e)
  OBVIOUS
<1>4. oid \in Nat
  <2>1. CASE Has(x.g.map, e.ref)
    BY <1>1, <1>3, <2>1, PartialFacts DEF Has, OidOf
  <2>2. CASE ~Has(x.g.map, e.ref)
    BY <1>1, <1>2, <1>3, <2>2 DEF OidOf
  <2>. QED  BY <2>1, <2>2
<1>5. PICK z : z = Known(x, e)
  OBVIOUS
<1>6. Emission(z, n) /\ Quiet(x, z) /\ z.g.seq = x.g.seq
  <2>1. CASE Has(x.g.map, e.ref)
    BY <1>5, <2>1 DEF Quiet, Known
  <2>2. CASE ~Has(x.g.map, e.ref)
    <3>1. PICK ref : ref = e.ref
      OBVIOUS
    <3>2. z = WithId(x, ref, oid) /\ ref \in Nat
      BY <1>2, <1>3, <1>5, <2>2, <3>1 DEF Known
    <3>3. \A r, o \in Nat : LET w == WithId(x, r, o) IN Emission(w, n) /\ Quiet(x, w) /\ w.g.seq = x.g.seq
      BY NewOrderId
    <3>. QED  BY <1>4, <3>2, <3>3
  <2>. QED  BY <2>1, <2>2
<1>7. PICK c : c = Counted(x, oid)
  OBVIOUS
<1>8. c \in Nat
  <2>1. CASE Has(x.g.cnt, oid)
    BY <1>1, <1>7, <2>1, PartialFacts DEF Has, Counted
  <2>2. CASE ~Has(x.g.cnt, oid) /\ Has(x.g.base, oid)
    <3>1. x.g.base[oid] \in Record({"ord"})
      BY <1>1, <2>2, PartialFacts DEF Has
    <3>. QED  BY <1>7, <2>2, <3>1 DEF Record, Counted
  <2>3. CASE ~Has(x.g.cnt, oid) /\ ~Has(x.g.base, oid)
    BY <1>7, <2>3 DEF Counted
  <2>. QED  BY <2>1, <2>2, <2>3
<1>9. PICK r : r = OrderOf(x, e)
  OBVIOUS
<1>11. r \in Record({"ord"}) /\ r.seq = z.g.seq + 1
  <2>1. z.g.seq + 1 \in Nat /\ (oid \in z.g.mine) \in BOOLEAN
    BY <1>1, <1>6
  <2>2. r = OrderRec(oid, oid \in z.g.mine, e.v, e.t, c, z.g.seq + 1)
    BY <1>3, <1>5, <1>7, <1>9 DEF OrderOf, Seq1
  <2>. QED  BY <1>2, <1>4, <1>8, <2>1, <2>2 DEF OrderRec, Record
<1>12. y = IF check_order_skips(z.g, oid, e) THEN z ELSE accept_order(z, r)
  BY <1>3, <1>5, <1>9, RtnOrderIs
<1>13. PICK w : w = accept_order(z, r)
  OBVIOUS
<1>14. Emission(w, n + 1) /\ Quiet(z, w)
  BY <1>6, <1>11, <1>13, AcceptOrder
<1>15. Emission(z, n + 1)
  BY <1>6, EmissionMore
<1>. QED
  BY <1>6, <1>12, <1>13, <1>14, <1>15 DEF Quiet

LEMMA RefreshOrderAvg ==
    ASSUME g \in Sessions, NEW x, NEW n \in Nat, Emission(x, n), NEW oid \in Nat, Has(x.g.cnt, oid),
           NEW y, y = refresh_order_avg(x, oid)
    PROVE  Emission(y, n + 1) /\ Quiet(x, y)
<1>1. x \in Works /\ x.g \in Sessions /\ x.g.seq \in Nat
      /\ x.g.cnt \in Partial(Nat) /\ x.g.base \in Partial(Record({"ord"}))
  BY WorkFields DEF Emission
<1>2. CASE ~Has(x.g.base, oid) \/ x.g.base[oid].n = x.g.cnt[oid]
  <2>1. y = x
    BY <1>2 DEF refresh_order_avg
  <2>. QED  BY <2>1, EmissionMore DEF Quiet
<1>3. CASE ~(~Has(x.g.base, oid) \/ x.g.base[oid].n = x.g.cnt[oid])
  <2>1. x.g.base[oid] \in Record({"ord"}) /\ x.g.cnt[oid] \in Nat
    BY <1>1, <1>3, PartialFacts DEF Has
  <2>2. PICK r : r = [x.g.base[oid] EXCEPT !.n = x.g.cnt[oid], !.seq = x.g.seq + 1]
    OBVIOUS
  <2>3. r \in Record({"ord"}) /\ r.seq = x.g.seq + 1
    <3>1. PICK q : q = [x.g.base[oid] EXCEPT !.n = x.g.cnt[oid]]
      OBVIOUS
    <3>2. q \in Record({"ord"})
      BY <2>1, <3>1 DEF Record
    <3>3. r = [q EXCEPT !.seq = x.g.seq + 1] /\ x.g.seq + 1 \in Nat
      BY <1>1, <2>2, <3>1
    <3>. QED  BY <3>2, <3>3 DEF Record
  <2>4. y = accept_order(x, r)
    BY <1>3, <2>2 DEF refresh_order_avg, Seq1
  <2>. QED  BY <2>3, <2>4, AcceptOrder
<1>. QED
  BY <1>2, <1>3

(* A trade counts for its order. *)
WithTrade(y, oid) == [y EXCEPT !.g.cnt = Put(@, oid, (IF Has(@, oid) THEN @[oid] ELSE 0) + 1)]

LEMMA CountTrade ==
    ASSUME g \in Sessions, NEW x, NEW n \in Nat, Emission(x, n), NEW oid \in Nat,
           NEW y, y = WithTrade(x, oid)
    PROVE  Emission(y, n) /\ Quiet(x, y) /\ Has(y.g.cnt, oid)
<1>1. x \in Works /\ x.g \in Sessions /\ x.fresh \in Nat /\ x.g.cnt \in Partial(Nat)
  BY WorkFields DEF Emission
<1> DEFINE v == (IF Has(x.g.cnt, oid) THEN x.g.cnt[oid] ELSE 0) + 1
           c == Put(x.g.cnt, oid, v)
           s == [x.g EXCEPT !.cnt = c]
<1>2. v \in Nat
  <2>1. Has(x.g.cnt, oid) => x.g.cnt[oid] \in Nat
    BY <1>1, PartialFacts DEF Has
  <2>. QED  BY <2>1
<1> HIDE DEF v
<1>3. c \in Partial(Nat) /\ Has(c, oid)
  <2>1. oid \in DOMAIN c
    BY DEF Put
  <2>. QED  BY <1>1, <1>2, <2>1, PartialFacts DEF Has
<1> HIDE DEF c
<1>4. /\ s \in Sessions /\ s.seq = x.g.seq /\ s.logged = x.g.logged /\ s.keys = x.g.keys
      /\ s.lastO = x.g.lastO /\ s.lastT = x.g.lastT /\ s.pos = x.g.pos /\ s.buf = x.g.buf /\ s.cnt = c
  BY <1>1, <1>3 DEF Sessions
<1>5. y = [x EXCEPT !.g = s]
  BY DEF WithTrade, c, v
<1> HIDE DEF s
<1>6. y = Work(s, x.out, x.tasks, x.fresh)
  BY <1>1, <1>5, WithSession
<1>7. y.g = s
  BY <1>6, SessionOf
<1>8. Emission(y, n)
  BY <1>1, <1>4, <1>6, SilentKeeps
<1>. QED
  BY <1>3, <1>4, <1>7, <1>8 DEF Quiet

TradeOid(x, e) == IF Has(x.g.map, e.ref) THEN x.g.map[e.ref] ELSE 0
TradeOf(x, e) == TradeRec(TradeOid(x, e), TradeOid(x, e) \in x.g.mine, e.id, Seq1(x))
AfterTrade(x, e) == refresh_order_avg(WithTrade(accept_trade(x, TradeOf(x, e)), TradeOid(x, e)), TradeOid(x, e))

LEMMA RtnTradeIs ==
    ASSUME NEW x, NEW e, NEW replaying
    PROVE  on_rtn_trade(x, e, replaying) =
             IF check_trade_skips(x.g, e.id) THEN x
             ELSE IF x.g.ready /\ ~replaying THEN push_position(AfterTrade(x, e)) ELSE AfterTrade(x, e)
BY DEF on_rtn_trade, TradeOid, TradeOf, AfterTrade, WithTrade

LEMMA OnRtnTrade ==
    ASSUME g \in Sessions, NEW x, NEW n \in Nat, Emission(x, n), NEW e \in TradeEvents,
           NEW replaying \in BOOLEAN, NEW y, y = on_rtn_trade(x, e, replaying)
    PROVE  Emission(y, n + 3) /\ Quiet(x, y) /\ (replaying => Emission(y, n + 2))
<1>1. x \in Works /\ x.g \in Sessions /\ x.g.map \in Partial(Nat) /\ x.g.seq \in Nat /\ x.g.mine \in SUBSET Nat
  BY WorkFields DEF Emission
<1>2. e.id \in Nat
  BY DEF TradeEvents
<1>3. PICK oid : oid = TradeOid(x, e)
  OBVIOUS
<1>4. oid \in Nat
  <2>1. Has(x.g.map, e.ref) => x.g.map[e.ref] \in Nat
    BY <1>1, PartialFacts DEF Has
  <2>. QED  BY <1>3, <2>1 DEF TradeOid
<1>5. n + 1 \in Nat /\ n + 2 \in Nat /\ n + 3 \in Nat /\ n <= n + 2 /\ n <= n + 3 /\ n + 2 <= n + 3
      /\ n + 1 + 1 = n + 2 /\ n + 2 + 1 = n + 3
  OBVIOUS
<1>6. CASE check_trade_skips(x.g, e.id)
  <2>1. y = x
    BY <1>6, RtnTradeIs
  <2>. QED  BY <1>5, <2>1, EmissionMore DEF Quiet
<1>7. CASE ~check_trade_skips(x.g, e.id)
  <2>1. e.id \notin x.g.keys
    BY <1>7 DEF check_trade_skips
  <2>2. PICK r : r = TradeOf(x, e)
    OBVIOUS
  <2>3. r \in Record({"trd"}) /\ r.seq = x.g.seq + 1 /\ r.id = e.id
    <3>1. x.g.seq + 1 \in Nat /\ (oid \in x.g.mine) \in BOOLEAN
      BY <1>1
    <3>2. r = TradeRec(oid, oid \in x.g.mine, e.id, x.g.seq + 1)
      BY <1>3, <2>2 DEF TradeOf, Seq1
    <3>. QED  BY <1>2, <1>4, <3>1, <3>2 DEF TradeRec, Record
  <2>4. PICK a : a = accept_trade(x, r)
    OBVIOUS
  <2>5. Emission(a, n + 1) /\ Quiet(x, a)
    BY <2>1, <2>3, <2>4, AcceptTrade
  <2>6. PICK b : b = WithTrade(a, oid)
    OBVIOUS
  <2>7. Emission(b, n + 1) /\ Quiet(a, b) /\ Has(b.g.cnt, oid)
    BY <1>4, <1>5, <2>5, <2>6, CountTrade
  <2>8. PICK c : c = refresh_order_avg(b, oid)
    OBVIOUS
  <2>9. Emission(c, n + 2) /\ Quiet(b, c)
    <3>1. Emission(c, n + 1 + 1) /\ Quiet(b, c)
      BY <1>4, <1>5, <2>7, <2>8, RefreshOrderAvg
    <3>. QED  BY <1>5, <3>1
  <2>10. c = AfterTrade(x, e)
    BY <1>3, <2>2, <2>4, <2>6, <2>8 DEF AfterTrade
  <2>11. PICK d : d = push_position(c)
    OBVIOUS
  <2>12. Emission(d, n + 3) /\ Quiet(c, d)
    <3>1. Emission(d, n + 2 + 1) /\ Quiet(c, d)
      BY <1>5, <2>9, <2>11, PushPosition
    <3>. QED  BY <1>5, <3>1
  <2>13. y = IF x.g.ready /\ ~replaying THEN d ELSE c
    BY <1>7, <2>10, <2>11, RtnTradeIs
  <2>14. Emission(c, n + 3)
    BY <1>5, <2>9, EmissionMore
  <2>15. Quiet(x, c) /\ Quiet(x, d)
    BY <2>5, <2>7, <2>9, <2>12 DEF Quiet
  <2>16. CASE x.g.ready /\ ~replaying
    BY <2>12, <2>13, <2>15, <2>16
  <2>17. CASE ~(x.g.ready /\ ~replaying)
    <3>1. y = c
      BY <2>13, <2>17
    <3>. QED  BY <2>9, <2>14, <2>15, <3>1
  <2>. QED  BY <2>16, <2>17
<1>. QED
  BY <1>6, <1>7

LEMMA EventKinds ==
    ASSUME NEW e \in Events
    PROVE  (e \in OrderEvents /\ e.k = "ord") \/ (e \in TradeEvents /\ e.k = "trd")
BY DEF Events, OrderEvents, TradeEvents

LEMMA OnReportKeeps ==
    ASSUME g \in Sessions, NEW x, NEW n \in Nat, Emission(x, n), NEW e \in Events,
           NEW replaying \in BOOLEAN, NEW y, y = OnReport(x, e, replaying)
    PROVE  Emission(y, n + 3) /\ Quiet(x, y) /\ (replaying => Emission(y, n + 2))
<1>1. n + 1 \in Nat /\ n + 2 \in Nat /\ n + 3 \in Nat /\ n + 1 <= n + 2 /\ n + 1 <= n + 3
  OBVIOUS
<1>2. CASE e \in OrderEvents /\ e.k = "ord"
  <2>1. y = on_rtn_order(x, e)
    BY <1>2 DEF OnReport
  <2>2. Emission(y, n + 1) /\ Quiet(x, y)
    BY <1>2, <2>1, OnRtnOrder
  <2>. QED  BY <1>1, <2>2, EmissionMore
<1>3. CASE e \in TradeEvents /\ e.k = "trd"
  <2>1. y = on_rtn_trade(x, e, replaying)
    BY <1>3 DEF OnReport
  <2>. QED  BY <1>3, <2>1, OnRtnTrade
<1>. QED
  BY <1>2, <1>3, EventKinds

LEMMA RejectKeeps ==
    ASSUME g \in Sessions, NEW x, NEW n \in Nat, Emission(x, n), NEW oid \in Nat,
           NEW y, y = reject_order(x, oid)
    PROVE  Emission(y, n + 1) /\ Quiet(x, y) /\ y.g.cnt = x.g.cnt
<1>1. x.g.seq \in Nat
  BY WorkFields DEF Emission
<1>2. PICK r : r = OrderRec(oid, TRUE, 0, 0, 0, x.g.seq + 1)
  OBVIOUS
<1>3. r \in Record({"ord"}) /\ r.seq = x.g.seq + 1
  BY <1>1, <1>2 DEF OrderRec, Record
<1>4. y = accept_order(x, r)
  BY <1>2 DEF reject_order, Seq1
<1>. QED
  BY <1>3, <1>4, AcceptOrder

(* A position that is gone: a report without a row. *)
LEMMA PushZero ==
    ASSUME g \in Sessions, NEW x, NEW n \in Nat, Emission(x, n), NEW y, y = push_zero(x)
    PROVE  Emission(y, n + 1) /\ Quiet(x, y)
<1> DEFINE s == [[x.g EXCEPT !.seq = x.g.seq + 1] EXCEPT !.hold = FALSE]
           r == [PositionRec(x.g.seq + 1) EXCEPT !.k = "zero"]
           p == Append(x.out, r)
<1>1. x \in Works /\ x.fresh \in Nat /\ x.g \in Sessions /\ x.g.seq \in Nat /\ g.seq \in Nat
      /\ x.out \in Seq(Reports) /\ x.tasks \in Seq(Tasks) /\ x = Work(x.g, x.out, x.tasks, x.fresh)
  BY WorkFields DEF Emission, Sessions
<1>2. r.k = "zero" /\ r \in Reports /\ r.seq = x.g.seq + 1
  <2>1. x.g.seq + 1 \in Nat
    BY <1>1
  <2>2. PICK m \in Nat : m = x.g.seq + 1
    BY <2>1
  <2>3. PICK q : q = PositionRec(m)
    OBVIOUS
  <2>4. q \in Reports /\ q.seq = m
    BY <2>2, <2>3 DEF PositionRec, Reports, Record, RowKinds
  <2>5. r = [q EXCEPT !.k = "zero"]
    BY <2>2, <2>3
  <2> HIDE DEF r
  <2>. QED  BY <2>2, <2>4, <2>5 DEF Reports, Record, RowKinds
<1>3. /\ s \in Sessions /\ s.seq = x.g.seq + 1 /\ s.lastT = x.g.lastT /\ s.lastO = x.g.lastO
      /\ s.keys = x.g.keys /\ s.logged = x.g.logged /\ s.pos = x.g.pos /\ s.buf = x.g.buf
  <2>1. PICK m \in Nat : m = x.g.seq + 1
    BY <1>1
  <2>. QED  BY <1>1, <2>1 DEF Sessions
<1>4. y = Work(s, p, x.tasks, x.fresh)
  <2> HIDE DEF r
  <2>1. PICK a : a = [x EXCEPT !.g = [x.g EXCEPT !.seq = x.g.seq + 1]]
    OBVIOUS
  <2>2. PICK c, d, e, h : c = a.g /\ d = x.out /\ e = x.tasks /\ h = x.fresh
    OBVIOUS
  <2>3. a = Work([x.g EXCEPT !.seq = x.g.seq + 1], d, e, h)
    BY <1>1, <2>1, <2>2, WithSession
  <2>4. c = [x.g EXCEPT !.seq = x.g.seq + 1] /\ a = Work(c, d, e, h)
    BY <2>2, <2>3, SessionOf
  <2>5. PICK b : b = [a EXCEPT !.g = [c EXCEPT !.hold = FALSE]]
    OBVIOUS
  <2>6. b = Work(s, d, e, h)
    <3>1. s = [c EXCEPT !.hold = FALSE]
      BY <2>4
    <3> HIDE DEF s
    <3>. QED  BY <2>4, <2>5, <3>1, SetSession
  <2>7. b.out = d
    BY <2>6, WorkIs
  <2>8. [b EXCEPT !.out = p] = Work(s, p, e, h)
    <3> HIDE DEF s, p
    <3>. QED  BY <2>6, SetOut
  <2>9. y = [b EXCEPT !.out = Append(b.out, r)]
    BY <2>1, <2>2, <2>5 DEF push_zero, Seq1, r
  <2>. QED  BY <2>2, <2>7, <2>8, <2>9
<1> HIDE DEF s, r
<1>5. /\ p \in Seq(Reports) /\ Len(p) = Len(x.out) + 1 /\ TradesIn(p) = TradesIn(x.out) \cup TradesIn(<<r>>)
  BY <1>1, <1>2, AppendIs
<1>6. TradesIn(<<r>>) = {}
  BY <1>2, OneFrame
<1>7. Beyond(p, x.g.seq + 1)
  <2>1. \A i \in DOMAIN x.out : x.out[i].seq \in Nat
    <3>1. \A i \in DOMAIN x.out : x.out[i] \in Reports
      BY <1>1, InSeq
    <3>. QED  BY <3>1 DEF Reports, Record
  <2>2. Beyond(x.out, x.g.seq) /\ g.seq <= x.g.seq
    BY DEF Emission
  <2>. QED  BY <1>1, <1>2, <2>1, <2>2, AppendBeyond
<1>8. Beyond(x.tasks, x.g.seq + 1)
  <2>1. \A i \in DOMAIN x.tasks : x.tasks[i].seq \in Nat
    <3>1. \A i \in DOMAIN x.tasks : x.tasks[i] \in Tasks
      BY <1>1, InSeq
    <3>. QED  BY <3>1 DEF Tasks, Record
  <2>2. Beyond(x.tasks, x.g.seq)
    BY DEF Emission
  <2>3. \A i \in DOMAIN x.tasks : x.tasks[i].seq <= x.g.seq + 1
    BY <1>1, <2>1, <2>2 DEF Beyond
  <2>. QED  BY <2>2, <2>3 DEF Beyond
<1> HIDE DEF p
<1>9. y \in Works /\ y.g = s /\ y.out = p /\ y.tasks = x.tasks
  BY <1>1, <1>3, <1>4, <1>5 DEF Works, Work
<1>10. Len(p) <= n + 1 /\ g.seq <= x.g.seq + 1
  <2>1. Len(x.out) \in Nat /\ Len(x.out) <= n /\ g.seq <= x.g.seq
    BY <1>1 DEF Emission
  <2>. QED  BY <1>1, <1>5, <2>1
<1>11. Emission(y, n + 1)
  BY <1>3, <1>5, <1>6, <1>7, <1>8, <1>9, <1>10 DEF Emission
<1>. QED
  BY <1>3, <1>9, <1>11 DEF Quiet

(* The row is deleted. *)
LEMMA DeleteRows ==
    ASSUME g \in Sessions, NEW x, NEW n \in Nat, Emission(x, n), NEW y, y = delete_rows(x)
    PROVE  Emission(y, n) /\ Quiet(x, y)
<1> DEFINE r == [PositionRec(0) EXCEPT !.k = "del"]
           q == x.tasks
           p == Append(q, r)
<1>1. x \in Works /\ x.g \in Sessions /\ x.g.seq \in Nat /\ x.fresh \in Nat
      /\ x.out \in Seq(Reports) /\ q \in Seq(Tasks) /\ x = Work(x.g, x.out, q, x.fresh)
  BY WorkFields DEF Emission
<1>2. r.k = "del" /\ r \in Tasks /\ r.seq = 0
  BY DEF PositionRec, Tasks, Record, RowKinds
<1>3. y = Work(x.g, x.out, p, x.fresh)
  <2>1. y = [x EXCEPT !.tasks = p]
    BY DEF delete_rows
  <2>2. PICK a, b, c, d : a = x.g /\ b = x.out /\ c = x.tasks /\ d = x.fresh
    OBVIOUS
  <2>3. x = Work(a, b, c, d)
    BY <1>1, <2>2
  <2> HIDE DEF p
  <2>4. [x EXCEPT !.tasks = p] = Work(a, b, p, d)
    BY <2>3, SetTasks
  <2>. QED  BY <2>1, <2>2, <2>4
<1> HIDE DEF r
<1>4. /\ p \in Seq(Tasks) /\ TradesIn(p) = TradesIn(q) \cup TradesIn(<<r>>)
      /\ Once(p) <=> Once(q) /\ Once(<<r>>) /\ Apart(q, <<r>>)
  BY <1>1, <1>2, AppendIs
<1>5. TradesIn(<<r>>) = {} /\ Once(<<r>>)
  BY <1>2, OneFrame
<1>6. Beyond(p, x.g.seq)
  <2>1. /\ DOMAIN p = 1..(Len(q) + 1) /\ DOMAIN q = 1..Len(q) /\ Len(q) \in Nat /\ p[Len(q) + 1] = r
        /\ \A i \in 1..Len(q) : p[i] = q[i]
    BY <1>1
  <2> HIDE DEF p
  <2>2. \A i \in DOMAIN p : p[i] = r \/ (i \in DOMAIN q /\ p[i] = q[i])
    BY <2>1
  <2>. QED  BY <1>1, <1>2, <2>2 DEF Beyond, Emission
<1> HIDE DEF p, q
<1>7. y \in Works /\ y.g = x.g /\ y.out = x.out /\ y.tasks = p
  BY <1>1, <1>3, <1>4 DEF Works, Work
<1>8. TradesIn(p) = TradesIn(x.tasks) /\ Once(p)
  BY <1>4, <1>5 DEF Emission, Apart, q
<1>. QED
  BY <1>6, <1>7, <1>8 DEF Emission, Quiet

Queried(x) == [x EXCEPT !.g.ready = TRUE]

LEMMA SetReady ==
    ASSUME NEW x, NEW n \in Nat, Emission(x, n), NEW y, y = Queried(x)
    PROVE  Emission(y, n) /\ Quiet(x, y)
<1> DEFINE s == [x.g EXCEPT !.ready = TRUE]
<1>1. x \in Works /\ x.g \in Sessions /\ x.fresh \in Nat
  BY WorkFields DEF Emission
<1>2. /\ s \in Sessions /\ s.seq = x.g.seq /\ s.lastT = x.g.lastT /\ s.lastO = x.g.lastO
      /\ s.keys = x.g.keys /\ s.logged = x.g.logged /\ s.pos = x.g.pos /\ s.buf = x.g.buf
  BY <1>1 DEF Sessions
<1>3. y = [x EXCEPT !.g = s]
  BY DEF Queried
<1> HIDE DEF s
<1>4. y = Work(s, x.out, x.tasks, x.fresh)
  BY <1>1, <1>3, WithSession
<1>5. y.g = s
  BY <1>4, WorkIs
<1>6. Emission(y, n)
  BY <1>1, <1>2, <1>4, SilentKeeps
<1>. QED
  BY <1>2, <1>5, <1>6 DEF Quiet

LEMMA ApplyPositionQuery ==
    ASSUME g \in Sessions, NEW x, NEW n \in Nat, Emission(x, n), NEW held \in BOOLEAN,
           NEW y, y = apply_position_query(x, held)
    PROVE  Emission(y, n + 1) /\ Quiet(x, y)
<1>0. x.g.hold \in BOOLEAN /\ x.g.ready \in BOOLEAN /\ n + 1 \in Nat /\ n <= n + 1
  BY WorkFields DEF Emission
<1>1. PICK a : a = CASE held /\ ~x.g.hold -> push_position(x)
                     [] ~held /\ x.g.hold -> push_zero(x)
                     [] OTHER             -> x
  OBVIOUS
<1>2. Emission(a, n + 1) /\ Quiet(x, a)
  <2>1. CASE held /\ ~x.g.hold
    <3>1. a = push_position(x)
      BY <1>1, <2>1
    <3>. QED  BY <3>1, PushPosition
  <2>2. CASE ~held /\ x.g.hold
    <3>1. a = push_zero(x)
      BY <1>1, <2>2
    <3>. QED  BY <3>1, PushZero
  <2>3. CASE ~(held /\ ~x.g.hold) /\ ~(~held /\ x.g.hold)
    <3>1. a = x
      BY <1>1, <2>3
    <3>. QED  BY <1>0, <3>1, EmissionMore DEF Quiet
  <2>. QED  BY <2>1, <2>2, <2>3
<1>3. PICK b : b = IF ~held /\ (x.g.hold \/ ~x.g.ready) THEN delete_rows(a) ELSE a
  OBVIOUS
<1>4. Emission(b, n + 1) /\ Quiet(a, b)
  <2>1. CASE ~held /\ (x.g.hold \/ ~x.g.ready)
    <3>1. b = delete_rows(a)
      BY <1>3, <2>1
    <3>. QED  BY <1>0, <1>2, <3>1, DeleteRows
  <2>2. CASE ~(~held /\ (x.g.hold \/ ~x.g.ready))
    <3>1. b = a
      BY <1>3, <2>2
    <3>. QED  BY <1>2, <3>1 DEF Quiet
  <2>. QED  BY <2>1, <2>2
<1>5. y = Queried(b)
  BY <1>1, <1>3 DEF apply_position_query, Queried
<1>6. Emission(y, n + 1) /\ Quiet(b, y)
  BY <1>0, <1>4, <1>5, SetReady
<1>. QED
  BY <1>2, <1>4, <1>6 DEF Quiet

-----------------------------------------------------------------------------
(* The replay of the buffered reports. *)

Buffered(x) == x.g.buf.ord \o x.g.buf.trd
Emptied(x)  == [x EXCEPT !.g.buf = NoReports]

(* The work after each of the first n reports of s, by the work before it. *)
Upto(x, s, n, f) == [i \in 0..n |-> IF i = 0 THEN Emptied(x) ELSE OnReport(f[i - 1], s[i], TRUE)]

LEMMA ReplayExists ==
    ASSUME NEW x, NEW s, NEW n \in Nat
    PROVE  \E f : f = Upto(x, s, n, f)
<1> DEFINE Good(m) == \E f : f = Upto(x, s, m, f)
           Bad == {m \in Nat : ~Good(m)}
<1>1. Good(0)
  <2>1. PICK f : f = Upto(x, s, 0, <<>>)
    OBVIOUS
  <2>2. Upto(x, s, 0, <<>>) = Upto(x, s, 0, f)
    BY DEF Upto
  <2>. QED  BY <2>1, <2>2
<1>2. ASSUME NEW m \in Nat, m # 0, Good(m - 1) PROVE Good(m)
  <2>1. PICK f : f = Upto(x, s, m - 1, f)
    BY <1>2
  <2>2. PICK h : h = Upto(x, s, m, f)
    OBVIOUS
  <2>3. ASSUME NEW i \in 0..(m - 1) PROVE h[i] = f[i]
    <3>1. h[i] = IF i = 0 THEN Emptied(x) ELSE OnReport(f[i - 1], s[i], TRUE)
      <4>1. i \in 0..m
        BY <1>2
      <4>2. Upto(x, s, m, f)[i] = IF i = 0 THEN Emptied(x) ELSE OnReport(f[i - 1], s[i], TRUE)
        BY <4>1 DEF Upto
      <4>. QED  BY <2>2, <4>2
    <3>2. f[i] = IF i = 0 THEN Emptied(x) ELSE OnReport(f[i - 1], s[i], TRUE)
      <4>1. Upto(x, s, m - 1, f)[i] = IF i = 0 THEN Emptied(x) ELSE OnReport(f[i - 1], s[i], TRUE)
        BY DEF Upto
      <4>. QED  BY <2>1, <4>1
    <3>. QED  BY <3>1, <3>2
  <2>4. ASSUME NEW i \in 0..m
        PROVE  (IF i = 0 THEN Emptied(x) ELSE OnReport(f[i - 1], s[i], TRUE))
               = (IF i = 0 THEN Emptied(x) ELSE OnReport(h[i - 1], s[i], TRUE))
    <3>1. CASE i = 0
      BY <3>1
    <3>2. CASE i # 0
      <4>1. i - 1 \in 0..(m - 1)
        BY <1>2, <3>2
      <4>2. f[i - 1] = h[i - 1]
        BY <2>3, <4>1
      <4>. QED  BY <4>2
    <3>. QED  BY <3>1, <3>2
  <2>5. Upto(x, s, m, f) = Upto(x, s, m, h)
    BY <2>4 DEF Upto
  <2>. QED  BY <2>2, <2>5
<1>3. Bad = {}
  <2> HIDE DEF Good
  <2>1. SUFFICES ASSUME Bad # {} PROVE FALSE
    OBVIOUS
  <2>2. PICK m \in Bad : \A k \in Bad : m <= k
    BY <2>1, Least
  <2>3. m \in Nat /\ m # 0 /\ ~Good(m - 1)
    <3>1. m \in Nat /\ ~Good(m)
      BY <2>2
    <3>2. m # 0
      BY <1>1, <3>1
    <3>. QED  BY <1>2, <3>1, <3>2
  <2>4. m - 1 \in Bad
    BY <2>3
  <2>. QED  BY <2>2, <2>3, <2>4
<1>. QED
  BY <1>3

LEMMA ReplayIs ==
    ASSUME NEW x, NEW s, s = Buffered(x), Len(s) \in Nat
    PROVE  \E f : f = Upto(x, s, Len(s), f) /\ replay_buffered_reports(x) = f[Len(s)]
<1> DEFINE it == CHOOSE f : f = Upto(x, s, Len(s), f)
<1>1. it = Upto(x, s, Len(s), it)
  <2>1. \E f : f = Upto(x, s, Len(s), f)
    BY ReplayExists
  <2>. QED  BY <2>1
<1>2. replay_buffered_reports(x) = it[Len(s)]
  BY Zenon DEF replay_buffered_reports, Upto, Emptied, Buffered
<1> HIDE DEF it
<1>. QED
  BY <1>1, <1>2

LEMMA EmptyBuffer ==
    ASSUME NEW x, NEW n \in Nat, Emission(x, n), NEW y, y = Emptied(x)
    PROVE  Emission(y, n) /\ y.g.pos = x.g.pos /\ y.g.buf = NoReports
<1> DEFINE s == [x.g EXCEPT !.buf = NoReports]
<1>1. x \in Works /\ x.g \in Sessions /\ x.fresh \in Nat
  BY WorkFields DEF Emission
<1>0. <<>> \in Seq(Events)
  OBVIOUS
<1>2. /\ s \in Sessions /\ s.seq = x.g.seq /\ s.lastT = x.g.lastT /\ s.lastO = x.g.lastO
      /\ s.keys = x.g.keys /\ s.logged = x.g.logged /\ s.pos = x.g.pos /\ s.buf = NoReports
  <2>1. NoReports \in [ord : Seq(Events), trd : Seq(Events)]
    BY <1>0 DEF NoReports
  <2>. QED  BY <1>1, <2>1 DEF Sessions
<1>3. y = [x EXCEPT !.g = s]
  BY DEF Emptied
<1> HIDE DEF s
<1>4. y = Work(s, x.out, x.tasks, x.fresh)
  BY <1>1, <1>3, WithSession
<1>5. y.g = s
  BY <1>4, WorkIs
<1>6. Emission(y, n)
  BY <1>1, <1>2, <1>4, SilentKeeps
<1>. QED
  BY <1>2, <1>5, <1>6

LEMMA ReplayKeeps ==
    ASSUME g \in Sessions, NEW x, NEW n \in Nat, Emission(x, n), NEW y, y = replay_buffered_reports(x)
    PROVE  /\ Emission(y, n + 2 * (Len(x.g.buf.ord) + Len(x.g.buf.trd)))
           /\ y.g.pos = x.g.pos /\ y.g.buf = NoReports
<1>1. PICK s : s = Buffered(x)
  OBVIOUS
<1>2. s \in Seq(Events) /\ Len(s) = Len(x.g.buf.ord) + Len(x.g.buf.trd) /\ Len(s) \in Nat
  <2>1. x.g.buf \in [ord : Seq(Events), trd : Seq(Events)]
    BY WorkFields DEF Emission
  <2>2. PICK o, t : o = x.g.buf.ord /\ t = x.g.buf.trd
    OBVIOUS
  <2>3. o \in Seq(Events) /\ t \in Seq(Events)
    BY <2>1, <2>2
  <2>4. s = o \o t
    BY <1>1, <2>2 DEF Buffered
  <2>5. s \in Seq(Events) /\ Len(s) = Len(o) + Len(t)
    BY <2>3, <2>4, ConcatProperties
  <2>6. Len(s) \in Nat
    BY <2>5, LenProperties
  <2>. QED  BY <2>2, <2>5, <2>6, Zenon
<1>11. PICK N \in Nat : N = Len(s) /\ \A i \in 1..N : s[i] \in Events
  <2>1. Len(s) \in Nat /\ \A i \in 1..Len(s) : s[i] \in Events
    BY <1>2, ElementOfSeq
  <2>. QED  BY <2>1
<1>3. PICK f : f = Upto(x, s, N, f) /\ y = f[N]
  BY <1>1, <1>11, ReplayIs
<1>4. PICK z : z = Emptied(x)
  OBVIOUS
<1>5. Emission(z, n) /\ z.g.pos = x.g.pos /\ z.g.buf = NoReports
  BY <1>4, EmptyBuffer
<1>6. f[0] = z /\ \A i \in 1..N : f[i] = OnReport(f[i - 1], s[i], TRUE)
  <2>1. \A i \in 0..N :
          Upto(x, s, N, f)[i] = IF i = 0 THEN Emptied(x) ELSE OnReport(f[i - 1], s[i], TRUE)
    BY DEF Upto
  <2>2. \A i \in 0..N : f[i] = IF i = 0 THEN z ELSE OnReport(f[i - 1], s[i], TRUE)
    BY <1>3, <1>4, <2>1
  <2>3. 0 \in 0..N /\ \A i \in 1..N : i \in 0..N /\ i # 0
    BY <1>11
  <2>. QED  BY <2>2, <2>3
<1> DEFINE Good(i) == Emission(f[i], n + 2 * i) /\ Quiet(z, f[i])
           Bad == {i \in 0..N : ~Good(i)}
<1>7. Good(0)
  BY <1>5, <1>6 DEF Quiet
<1>8. ASSUME NEW i \in 1..N, Good(i - 1) PROVE Good(i)
  <2>1. PICK m \in Nat : m = n + 2 * (i - 1)
    BY <1>11
  <2>2. PICK a, b, e : a = f[i - 1] /\ b = f[i] /\ e = s[i]
    OBVIOUS
  <2>3. Emission(a, m) /\ Quiet(z, a) /\ b = OnReport(a, e, TRUE) /\ e \in Events
    BY <1>11, <1>6, <1>8, <2>1, <2>2
  <2>4. Emission(b, m + 2) /\ Quiet(a, b)
    BY <2>3, OnReportKeeps
  <2>5. m + 2 = n + 2 * i
    BY <1>11, <2>1
  <2>. QED  BY <2>2, <2>3, <2>4, <2>5 DEF Quiet
<1>9. Bad = {}
  <2> HIDE DEF Good
  <2>1. SUFFICES ASSUME Bad # {} PROVE FALSE
    OBVIOUS
  <2>2. PICK i \in Bad : \A k \in Bad : i <= k
    <3>1. Bad \in SUBSET Nat
      BY <1>11
    <3> HIDE DEF Bad
    <3>. QED  BY <2>1, <3>1, Least
  <2>3. i \in 0..N /\ ~Good(i)
    BY <2>2
  <2>4. i # 0
    BY <1>7, <2>3
  <2>5. i \in 1..N /\ i - 1 \in 0..N /\ i - 1 < i
    BY <1>11, <2>3, <2>4
  <2>6. ~Good(i - 1)
    BY <1>8, <2>3, <2>5
  <2>. QED  BY <2>2, <2>5, <2>6
<1>10. Good(N)
  <2>1. N \in 0..N
    BY <1>11
  <2> HIDE DEF Good
  <2>. QED  BY <1>9, <2>1
<1>. QED
  BY <1>2, <1>11, <1>3, <1>5, <1>10 DEF Quiet

-----------------------------------------------------------------------------
(* A step of the gateway, of the writer or of CTP. *)

SessionGrows == g'.logged => g.logged /\ g.seq <= g'.seq

(* What is written behind the unread frames. *)
Added(w) ==
  \A q \in DOMAIN w :
    /\ w[q].k = "st" => w[q].st # "Ready"
    /\ w[q].k # "st" => /\ g.logged /\ g.seq < w[q].seq
                        /\ g'.logged => w[q].seq <= g'.seq
                        /\ \A r \in DOMAIN w : q < r /\ w[r].k # "st" => w[q].seq < w[r].seq

LEMMA JoinFacts ==
    ASSUME NEW S, NEW s \in Seq(S), NEW w \in Seq(S)
    PROVE  /\ s \o w \in Seq(S) /\ Len(s \o w) = Len(s) + Len(w) /\ Len(s) \in Nat /\ Len(w) \in Nat
           /\ \A q \in DOMAIN s : q \in DOMAIN (s \o w) /\ (s \o w)[q] = s[q] /\ q \in 1..Len(s)
           /\ \A q \in DOMAIN (s \o w) :
                \/ q \in DOMAIN s
                \/ q \in Nat /\ q > Len(s) /\ q - Len(s) \in DOMAIN w /\ (s \o w)[q] = w[q - Len(s)]
<1>1. /\ s \o w \in Seq(S) /\ Len(s \o w) = Len(s) + Len(w)
      /\ \A i \in 1..(Len(s) + Len(w)) : (s \o w)[i] = IF i <= Len(s) THEN s[i] ELSE w[i - Len(s)]
  BY ConcatProperties
<1>2. Len(s) \in Nat /\ Len(w) \in Nat /\ DOMAIN s = 1..Len(s) /\ DOMAIN w = 1..Len(w)
      /\ DOMAIN (s \o w) = 1..(Len(s) + Len(w))
  BY <1>1, LenProperties
<1> DEFINE t == s \o w
<1>3. ASSUME NEW q \in DOMAIN s PROVE q \in DOMAIN t /\ t[q] = s[q] /\ q \in 1..Len(s)
  BY <1>1, <1>2
<1>4. ASSUME NEW q \in DOMAIN t, q \notin DOMAIN s
      PROVE  q \in Nat /\ q > Len(s) /\ q - Len(s) \in DOMAIN w /\ t[q] = w[q - Len(s)]
  BY <1>1, <1>2, <1>4
<1>. QED
  BY <1>1, <1>2, <1>3, <1>4

LEMMA FrameSeq ==
    ASSUME NEW s \in Seq(Frames), NEW q \in DOMAIN s, s[q].k # "st"
    PROVE  s[q].seq \in Nat
BY InSeq, FrameKinds

LEMMA OrderlyGrows ==
    ASSUME SessionGrows, NEW s \in Seq(Frames), NEW w \in Seq(Frames), Added(w),
           g.seq \in Nat, g'.seq \in Nat, NEW p \in Nat, Orderly(s, p)
    PROVE  Orderly(s \o w, p)'
<1> DEFINE t == s \o w
<1>1. /\ Len(s) \in Nat /\ t \in Seq(Frames)
      /\ \A q \in DOMAIN s : q \in DOMAIN t /\ t[q] = s[q] /\ q \in 1..Len(s)
      /\ \A q \in DOMAIN t :
           \/ q \in DOMAIN s
           \/ q \in Nat /\ q > Len(s) /\ q - Len(s) \in DOMAIN w /\ t[q] = w[q - Len(s)]
  BY JoinFacts
<1> HIDE DEF t
<1>2. SUFFICES ASSUME NEW q \in DOMAIN t, q >= p
               PROVE  /\ t[q].k = "st" => t[q].st # "Ready"
                      /\ t[q].k # "st" => /\ Below(t[q].seq)'
                                          /\ \A r \in DOMAIN t : r > q /\ t[r].k # "st" => t[q].seq < t[r].seq
  BY DEF Orderly, t
<1>3. CASE q \in DOMAIN s
  <2>1. t[q] = s[q] /\ q \in 1..Len(s)
    BY <1>1, <1>3
  <2>2. t[q].k = "st" => t[q].st # "Ready"
    BY <1>2, <1>3, <2>1 DEF Orderly
  <2>3. ASSUME t[q].k # "st"
        PROVE  Below(t[q].seq)' /\ \A r \in DOMAIN t : r > q /\ t[r].k # "st" => t[q].seq < t[r].seq
    <3>1. Below(s[q].seq) /\ s[q].seq \in Nat
      BY <1>2, <1>3, <2>1, <2>3, FrameSeq DEF Orderly
    <3>2. Below(t[q].seq)'
      BY <2>1, <3>1 DEF Below, SessionGrows
    <3>3. ASSUME NEW r \in DOMAIN t, r > q, t[r].k # "st" PROVE t[q].seq < t[r].seq
      <4>1. CASE r \in DOMAIN s
        <5>1. t[r] = s[r]
          BY <1>1, <4>1
        <5>. QED  BY <1>2, <1>3, <2>1, <2>3, <3>3, <4>1, <5>1 DEF Orderly
      <4>2. CASE r \notin DOMAIN s
        <5>1. PICK i \in DOMAIN w : t[r] = w[i]
          BY <1>1, <4>2
        <5>2. g.logged /\ g.seq < w[i].seq /\ w[i].seq \in Nat
          BY <3>3, <5>1, FrameSeq DEF Added
        <5>. QED  BY <2>1, <3>1, <5>1, <5>2 DEF Below
      <4>. QED  BY <4>1, <4>2
    <3>. QED  BY <3>2, <3>3
  <2>. QED  BY <2>2, <2>3
<1>4. CASE q \notin DOMAIN s
  <2>1. q \in Nat /\ q > Len(s) /\ q - Len(s) \in DOMAIN w /\ t[q] = w[q - Len(s)]
    BY <1>1, <1>4
  <2>2. PICK i \in DOMAIN w : i = q - Len(s)
    BY <2>1
  <2>3. t[q].k = "st" => t[q].st # "Ready"
    BY <2>1, <2>2 DEF Added
  <2>4. ASSUME t[q].k # "st"
        PROVE  Below(t[q].seq)' /\ \A r \in DOMAIN t : r > q /\ t[r].k # "st" => t[q].seq < t[r].seq
    <3>1. Below(t[q].seq)'
      BY <2>1, <2>2, <2>4 DEF Below, Added
    <3>2. ASSUME NEW r \in DOMAIN t, r > q, t[r].k # "st" PROVE t[q].seq < t[r].seq
      <4>1. r \notin DOMAIN s
        <5>1. SUFFICES ASSUME r \in 1..Len(s) PROVE FALSE
          BY <1>1
        <5>. QED  BY <1>1, <2>1, <3>2, <5>1
      <4>2. r \in Nat /\ r - Len(s) \in DOMAIN w /\ t[r] = w[r - Len(s)]
        BY <1>1, <4>1
      <4>3. PICK j \in DOMAIN w : j = r - Len(s)
        BY <4>2
      <4>4. i < j
        BY <1>1, <2>1, <2>2, <3>2, <4>2, <4>3
      <4>. QED  BY <2>1, <2>2, <2>4, <3>2, <4>2, <4>3, <4>4 DEF Added
    <3>. QED  BY <3>1, <3>2
  <2>. QED  BY <2>3, <2>4
<1>. QED
  BY <1>3, <1>4

LEMMA GuardedGrows ==
    ASSUME SessionGrows, NEW s \in Seq(Frames), NEW w \in Seq(Frames), Added(w),
           g.seq \in Nat, g'.seq \in Nat, Guarded(s), TradesIn(s) \subseteq Issued,
           \A r \in Issued : r \in db => r \in db'
    PROVE  Guarded(s \o w)'
<1> DEFINE t == s \o w
<1>1. /\ Len(s) \in Nat /\ t \in Seq(Frames)
      /\ \A q \in DOMAIN s : q \in DOMAIN t /\ t[q] = s[q] /\ q \in 1..Len(s)
      /\ \A q \in DOMAIN t :
           \/ q \in DOMAIN s
           \/ q \in Nat /\ q > Len(s) /\ q - Len(s) \in DOMAIN w /\ t[q] = w[q - Len(s)]
  BY JoinFacts
<1>2. ASSUME NEW p \in DOMAIN t, t[p].k = "trd", t[p] \notin db' PROVE Orderly(s, p) /\ p \in Nat
  <2>1. CASE p \in DOMAIN s
    <3>1. t[p] = s[p] /\ p \in 1..Len(s) /\ s[p] \in TradesIn(s)
      BY <1>1, <1>2, <2>1 DEF TradesIn
    <3>2. s[p] \notin db
      BY <1>2, <3>1
    <3>. QED  BY <1>1, <1>2, <2>1, <3>1, <3>2 DEF Guarded
  <2>2. CASE p \notin DOMAIN s
    <3>1. p \in Nat /\ p > Len(s)
      BY <1>1, <2>2
    <3>2. \A q \in DOMAIN s : ~(q >= p)
      BY <1>1, <3>1
    <3>. QED  BY <3>1, <3>2 DEF Orderly
  <2>. QED  BY <2>1, <2>2
<1> HIDE DEF t
<1>3. \A p \in Nat : Orderly(s, p) => Orderly(t, p)'
  BY OrderlyGrows DEF t
<1>4. \A p \in DOMAIN t : t[p].k = "trd" /\ t[p] \notin db' => Orderly(t, p)'
  BY <1>2, <1>3
<1>5. Guarded(t)'
  BY <1>4 DEF Guarded
<1>. QED
  BY <1>5 DEF t

LEMMA NoResetGrows ==
    ASSUME SessionGrows, NEW s \in Seq(Frames), NEW w \in Seq(Frames), Added(w),
           g.seq \in Nat, g'.seq \in Nat, NEW x \in Contexts, NoReset(x, s)
    PROVE  NoReset(x, s \o w)'
<1> DEFINE t == s \o w
<1>1. /\ Len(s) \in Nat /\ t \in Seq(Frames)
      /\ \A q \in DOMAIN t :
           \/ q \in DOMAIN s /\ t[q] = s[q]
           \/ \E i \in DOMAIN w : t[q] = w[i]
  BY JoinFacts
<1>2. x.hasLast /\ Below(x.last) /\ x.last \in Nat /\ Orderly(s, 1)
  BY DEF NoReset, Contexts
<1>3. Below(x.last)'
  BY <1>2 DEF Below, SessionGrows
<1>4. Orderly(t, 1)'
  BY <1>2, OrderlyGrows
<1> HIDE DEF t
<1>5. ASSUME NEW q \in DOMAIN t, t[q].k # "st" PROVE x.last < t[q].seq
  <2>1. CASE q \in DOMAIN s /\ t[q] = s[q]
    BY <1>5, <2>1 DEF NoReset
  <2>2. ASSUME NEW i \in DOMAIN w, t[q] = w[i] PROVE x.last < t[q].seq
    <3>1. g.logged /\ g.seq < w[i].seq /\ w[i].seq \in Nat
      BY <1>5, <2>2, FrameSeq DEF Added
    <3>. QED  BY <1>2, <2>2, <3>1 DEF Below
  <2>. QED  BY <1>1, <2>1, <2>2
<1>6. NoReset(x, t)'
  BY <1>2, <1>3, <1>4, <1>5 DEF NoReset
<1>. QED
  BY <1>6 DEF t

(* The strategy's side of such a step. *)
LEMMA StrategyGrows ==
    ASSUME NEW x, NEW u, NEW s, NEW t, StrategyInv(x, u, s), Issued \subseteq Issued',
           \A r \in Issued' : r.id \in DOMAIN u.trd => r \in Issued,
           \A r \in Issued : r \in db => r \in db',
           (NoReset(x, s) => NoReset(x, t)') \/ Issued' \subseteq db'
    PROVE  StrategyInv(x, u, t)'
<1>1. ContextType(x) /\ UserType(u) /\ GapInv(x) /\ TradesInv(x, u) /\ NoResetInv(x, u, s)
  BY DEF StrategyInv
<1>2. TradesIn(Waiting(x)) \subseteq Issued /\ Got(x, u) \subseteq Issued
  BY <1>1 DEF TradesInv, Got
<1>3. PICK G : G = Got(x, u)
  OBVIOUS
<1>4. Got(x, u)' = G
  BY <1>2, <1>3 DEF Got
<1>5. ContextType(x)' /\ UserType(u)' /\ GapInv(x)'
  BY <1>1 DEF ContextType, UserType, GapInv
<1>6. TradesInv(x, u)'
  <2>1. \A i \in DOMAIN u.trd : u.trd[i] = 1 /\ \E r \in Issued' : r.id = i
    BY <1>1 DEF TradesInv
  <2>2. \A r \in G : /\ admit_skips(x, r.seq)
                     /\ x.gap.active => ~(x.gap.from <= r.seq /\ r.seq <= x.gap.to)
    BY <1>1, <1>3 DEF TradesInv
  <2>3. G \subseteq Issued'
    BY <1>2, <1>3
  <2>4. Once(Waiting(x)) /\ \A r \in TradesIn(Waiting(x)) : r.id \notin DOMAIN u.trd
    BY <1>1 DEF TradesInv
  <2>. QED  BY <1>4, <2>1, <2>2, <2>3, <2>4 DEF TradesInv
<1>7. NoResetInv(x, u, t)'
  <2>1. SUFFICES ASSUME NEW r \in G, r \notin db' PROVE NoReset(x, t)'
    BY <1>4 DEF NoResetInv
  <2>2. r \in Issued /\ r \in Issued' /\ r \notin db
    BY <1>2, <1>3, <2>1
  <2>3. NoReset(x, s)
    BY <1>1, <1>3, <2>1, <2>2 DEF NoResetInv
  <2>. QED  BY <2>1, <2>2, <2>3
<1>. QED
  BY <1>5, <1>6, <1>7 DEF StrategyInv

Behind(w) == (SessionGrows /\ Added(w)) \/ Issued' \subseteq db'

Bounded == Len(ch) <= MaxChannel + Len(ctp.log) * 3 + 4

LEMMA GatewayStep ==
    ASSUME IInv, sdk' = sdk, user' = user, NEW w \in Seq(Frames), ch' = ch \o w,
           StoreInv', GatewayInv', Bounded', Issued \subseteq Issued', TradesIn(w) \subseteq Issued',
           \A r \in Issued' : r.id \in DOMAIN user.trd => r \in Issued,
           \A r \in Issued : r \in db => r \in db',
           Behind(w)
    PROVE  IInv'
<1>1. PICK s, x, u, t : s = ch /\ x = sdk /\ u = user /\ t = s \o w
  OBVIOUS
<1>2. s \in Seq(Frames) /\ TradesIn(s) \subseteq Issued /\ Guarded(s) /\ StrategyInv(x, u, s) /\ x \in Contexts
      /\ g.seq \in Nat /\ g'.seq \in Nat
  BY <1>1 DEF IInv, ChannelInv, StrategyInv, ContextType, GatewayInv, Sessions
<1>3. t \in Seq(Frames) /\ TradesIn(t) = TradesIn(s) \cup TradesIn(w)
  BY <1>1, <1>2, JoinedTrades
<1>4. TradesIn(t) \subseteq Issued'
  BY <1>2, <1>3
<1>5. Guarded(t)'
  <2>1. CASE SessionGrows /\ Added(w)
    BY <1>1, <1>2, <2>1, GuardedGrows
  <2>2. CASE Issued' \subseteq db'
    <3>1. \A p \in DOMAIN t : t[p].k = "trd" => t[p] \in db'
      BY <1>4, <2>2 DEF TradesIn
    <3>. QED  BY <3>1 DEF Guarded
  <2>. QED  BY <2>1, <2>2 DEF Behind
<1>6. StrategyInv(x, u, t)'
  <2>1. (NoReset(x, s) => NoReset(x, t)') \/ Issued' \subseteq db'
    <3>1. CASE SessionGrows /\ Added(w)
      BY <1>1, <1>2, <3>1, NoResetGrows
    <3>. QED  BY <3>1 DEF Behind
  <2>2. \A r \in Issued' : r.id \in DOMAIN u.trd => r \in Issued
    BY <1>1
  <2>. QED  BY <1>2, <2>1, <2>2, StrategyGrows
<1>7. ch' = t /\ sdk' = x /\ user' = u
  BY <1>1
<1>8. ChannelInv'
  <2>1. Guarded(ch)'
    BY <1>5, <1>7 DEF Guarded, Orderly
  <2>. QED  BY <1>3, <1>4, <1>7, <2>1 DEF ChannelInv
<1>9. StrategyInv(sdk, user, ch)'
  <2>1. ContextType(sdk)' /\ UserType(user)' /\ GapInv(sdk)'
    BY <1>6, <1>7 DEF StrategyInv, ContextType, UserType, GapInv
  <2>2. PICK G : G = Got(x, u)'
    OBVIOUS
  <2>3. Got(sdk, user)' = G
    BY <1>7, <2>2 DEF Got
  <2>4. TradesInv(sdk, user)'
    <3>1. TradesInv(x, u)'
      BY <1>6 DEF StrategyInv
    <3>2. TradesInv(sdk, user)' <=> TradesInv(x, u)'
      BY <1>7, <2>2, <2>3 DEF TradesInv
    <3>. QED  BY <3>1, <3>2
  <2>5. NoReset(sdk, ch)' <=> NoReset(x, t)'
    BY <1>7 DEF NoReset, Orderly
  <2>6. NoResetInv(sdk, user, ch)'
    <3>1. NoResetInv(x, u, t)'
      BY <1>6 DEF StrategyInv
    <3>. QED  BY <2>2, <2>3, <2>5, <3>1 DEF NoResetInv
  <2>. QED  BY <2>1, <2>4, <2>6 DEF StrategyInv
<1>10. IdleInv' /\ ScanInv'
  BY DEF IInv, IdleInv, ScanInv
<1>. QED
  BY <1>8, <1>9, <1>10 DEF IInv, Bounded

(* The queue grows. *)
LEMMA NewestRow ==
    ASSUME NEW d \in SUBSET Rows, IsFiniteSet(d), NEW top \in Nat, \A r \in d : r.seq <= top
    PROVE  query_max_seq(d) <= top
<1> DEFINE T == {r.seq : r \in d}
<1>1. IsFiniteSet(T) /\ T \in SUBSET Nat /\ \A n \in T : n <= top
  BY SeqsOf
<1> HIDE DEF T
<1>2. IsFiniteSet({0} \cup T) /\ {0} \cup T \in SUBSET Nat /\ {0} \cup T # {}
  <2>1. IsFiniteSet({0})
    BY FS_Singleton
  <2>2. IsFiniteSet({0} \cup T)
    BY <1>1, <2>1, FS_Union
  <2>. QED  BY <1>1, <2>2
<1>3. query_max_seq(d) = Max({0} \cup T)
  BY DEF query_max_seq, T
<1>4. Max({0} \cup T) \in {0} \cup T
  BY <1>2, MaxIsGreatest
<1>5. \A n \in {0} \cup T : n <= top
  BY <1>1
<1>. QED
  BY <1>3, <1>4, <1>5

LEMMA StoreGrows ==
    ASSUME StoreInv, GatewayInv, g.logged, db' = db, NEW t \in Seq(Tasks), NEW top \in Nat, Beyond(t, top),
           Once(t), \A r \in TradesIn(t) : r.id \notin g.keys, pq' = pq \o t
    PROVE  StoreInv' /\ Issued' = Issued \cup TradesIn(t)
<1>1. PICK s, d : s = pq /\ d = db
  OBVIOUS
<1>2. /\ s \in Seq(Tasks) /\ d \in SUBSET Rows /\ IsFiniteSet(d) /\ CommitsInSeqOrder /\ g.seq \in Nat
      /\ \A r \in d : r.seq <= g.seq
      /\ \A i \in DOMAIN s : s[i].seq <= g.seq
      /\ \A r \in Issued : r.id \in g.keys
  BY <1>1 DEF StoreInv, GatewayInv, Sessions
<1>16. \A r \in Issued : r.id \in g.keys
  BY DEF GatewayInv
<1>18. \A i \in DOMAIN s : s[i].seq <= g.seq
  BY <1>1 DEF GatewayInv
<1>17. \A r \in TradesIn(t) : r.id \notin g.keys
  OBVIOUS
<1>3. PICK w : w = s \o t
  OBVIOUS
<1>4. pq' = w /\ w \in Seq(Tasks) /\ TradesIn(w) = TradesIn(s) \cup TradesIn(t)
  BY <1>1, <1>2, <1>3, JoinedTrades
<1>5. Issued' = Issued \cup TradesIn(t)
  BY <1>1, <1>4 DEF Issued
<1>6. /\ Len(s) \in Nat
      /\ \A q \in DOMAIN s : q \in DOMAIN w /\ w[q] = s[q] /\ q \in 1..Len(s)
      /\ \A q \in DOMAIN w :
           \/ q \in DOMAIN s
           \/ q \in Nat /\ q > Len(s) /\ q - Len(s) \in DOMAIN t /\ w[q] = t[q - Len(s)]
  BY <1>2, <1>3, JoinFacts
<1>7. query_max_seq(d) <= g.seq /\ query_max_seq(d) \in Nat
  BY <1>2, NewestRow, MaxSeq
<1>8. /\ \A i \in DOMAIN s : s[i].seq \in Nat
      /\ \A i \in DOMAIN t : t[i].seq \in Nat
  <2>1. \A i \in DOMAIN s : s[i] \in Tasks
    BY <1>2, InSeq
  <2>2. \A i \in DOMAIN t : t[i] \in Tasks
    BY InSeq
  <2>. QED  BY <2>1, <2>2 DEF Tasks, Record
<1>9. ASSUME NEW i \in DOMAIN w, w[i].k # "del" PROVE w[i].seq > query_max_seq(d)
  <2>1. CASE i \in DOMAIN s
    BY <1>1, <1>2, <1>6, <1>9, <2>1 DEF CommitsInSeqOrder
  <2>2. CASE i \notin DOMAIN s
    <3>1. PICK j \in DOMAIN t : w[i] = t[j]
      BY <1>6, <2>2
    <3>2. g.seq < t[j].seq /\ t[j].seq \in Nat
      BY <1>8, <1>9, <3>1 DEF Beyond
    <3>. QED  BY <1>2, <1>7, <3>1, <3>2
  <2>. QED  BY <2>1, <2>2
<1>10. ASSUME NEW i \in DOMAIN w, NEW j \in DOMAIN w, i < j, w[i].k # "del", w[j].k # "del"
       PROVE  w[i].seq < w[j].seq
  <2>1. CASE i \in DOMAIN s /\ j \in DOMAIN s
    <3>1. w[i] = s[i] /\ w[j] = s[j]
      BY <1>6, <2>1
    <3>. QED  BY <1>1, <1>2, <1>10, <2>1, <3>1 DEF CommitsInSeqOrder
  <2>2. CASE i \in DOMAIN s /\ j \notin DOMAIN s
    <3>1. PICK n \in DOMAIN t : w[j] = t[n]
      BY <1>6, <2>2
    <3>2. g.seq < t[n].seq /\ t[n].seq \in Nat
      BY <1>8, <1>10, <3>1 DEF Beyond
    <3>3. w[i] = s[i] /\ s[i].seq <= g.seq /\ s[i].seq \in Nat
      <4>1. w[i] = s[i]
        BY <1>6, <2>2
      <4>2. s[i].seq <= g.seq
        BY <1>18, <2>2, Zenon
      <4>. QED  BY <1>8, <2>2, <4>1, <4>2
    <3>. QED  BY <1>2, <3>1, <3>2, <3>3
  <2>3. CASE i \notin DOMAIN s
    <3>1. i \in Nat /\ i > Len(s) /\ i - Len(s) \in DOMAIN t /\ w[i] = t[i - Len(s)]
      BY <1>6, <2>3
    <3>2. j \notin DOMAIN s
      <4>1. SUFFICES ASSUME j \in 1..Len(s) PROVE FALSE
        BY <1>6
      <4>. QED  BY <1>6, <1>10, <3>1, <4>1
    <3>3. j \in Nat /\ j - Len(s) \in DOMAIN t /\ w[j] = t[j - Len(s)]
      BY <1>6, <3>2
    <3>4. PICK a \in DOMAIN t, b \in DOMAIN t : a = i - Len(s) /\ b = j - Len(s)
      BY <3>1, <3>3
    <3>5. a < b
      BY <1>6, <1>10, <3>1, <3>3, <3>4
    <3>. QED  BY <1>10, <3>1, <3>3, <3>4, <3>5 DEF Beyond
  <2>. QED  BY <2>1, <2>2, <2>3
<1>11. CommitsInSeqOrder'
  BY <1>1, <1>4, <1>9, <1>10 DEF CommitsInSeqOrder
<1>12. \A r \in TradesIn(t) : r.seq > 0 /\ r.seq \in Nat
  <2>1. ASSUME NEW r \in TradesIn(t) PROVE r.seq > 0
    <3>1. PICK i \in DOMAIN t : t[i] = r /\ t[i].k = "trd"
      BY <2>1 DEF TradesIn
    <3>2. g.seq < t[i].seq /\ t[i].seq \in Nat
      BY <1>8, <3>1 DEF Beyond
    <3>. QED  BY <1>2, <3>1, <3>2
  <2>2. ASSUME NEW r \in TradesIn(t) PROVE r.seq \in Nat
    BY <1>8 DEF TradesIn
  <2>. QED  BY <2>1, <2>2
<1>13. \A r, q \in TradesIn(t) : r.id = q.id => r = q
  BY DEF Once, TradesIn
<1>14. \A r, q \in Issued' : r.id = q.id => r = q
  <2>1. \A r, q \in Issued : r.id = q.id => r = q
    BY DEF StoreInv
  <2>2. SUFFICES ASSUME NEW r \in Issued \cup TradesIn(t), NEW q \in Issued \cup TradesIn(t), r.id = q.id
                 PROVE  r = q
    BY <1>5
  <2>3. CASE r \in Issued /\ q \in Issued
    BY <2>1, <2>2, <2>3
  <2>4. CASE r \in TradesIn(t) /\ q \in TradesIn(t)
    BY <1>13, <2>2, <2>4
  <2>5. CASE (r \in Issued /\ q \in TradesIn(t)) \/ (q \in Issued /\ r \in TradesIn(t))
    BY <1>16, <1>17, <2>2, <2>5, Zenon
  <2>. QED  BY <2>2, <2>3, <2>4, <2>5
<1>15. \A r \in Issued' : r.seq > 0
  <2>1. \A r \in Issued : r.seq > 0
    BY DEF StoreInv
  <2>. QED  BY <1>5, <1>12, <2>1
<1>. QED
  BY <1>1, <1>2, <1>4, <1>5, <1>11, <1>14, <1>15 DEF StoreInv

LEMMA WriteIs ==
    ASSUME NEW f \in Seq(Frames), ch \in Seq(Frames), Write(f)
    PROVE  \E w \in Seq(Frames) : ch' = ch \o w /\ (w = <<>> \/ w = f)
<1>1. <<>> \in Seq(Frames) /\ ch = ch \o <<>>
  BY ConcatEmptySeq
<1>2. CASE sdk.up = "closed"
  <2>1. ch' = ch
    BY <1>2 DEF Write
  <2>. QED  BY <1>1, <2>1
<1>3. CASE sdk.up # "closed"
  <2>1. ch' = ch \o f
    BY <1>3 DEF Write
  <2>. QED  BY <2>1
<1>. QED
  BY <1>2, <1>3

LEMMA RoomFor ==
    ASSUME ch \in Seq(Frames), ctp' \in Counterparty, Room, NEW w \in Seq(Frames), ch' = ch \o w,
           NEW n \in Nat, Len(w) <= n, n <= Len(ctp'.log) * 3 + 5
    PROVE  Bounded'
<1>1. Len(ch) \in Nat /\ Len(w) \in Nat /\ Len(ch') = Len(ch) + Len(w) /\ Len(ctp'.log) \in Nat
      /\ MaxChannel \in Nat /\ Len(ch) < MaxChannel
  BY BoundsAssumption, ConcatProperties DEF Counterparty, Room
<1> DEFINE m == Len(ctp'.log) * 3
<1>2. m \in Nat
  BY <1>1
<1>3. n <= m + 5
  OBVIOUS
<1> HIDE DEF m
<1>4. Len(ch') <= MaxChannel + m + 4
  BY <1>1, <1>2, <1>3
<1>. QED
  BY <1>4 DEF Bounded, m

(* The session after a step. *)
Left(x, st) == [x.g EXCEPT !.st = st]

(* The buffer holds reports of this login, during the load only. *)
Buffers(s, st) ==
  /\ st # "load" => s.buf = NoReports
  /\ Len(s.buf.ord) + Len(s.buf.trd) <= s.pos /\ s.pos <= Len(ctp.log)

LEMMA SendKeeps ==
    ASSUME IInv, g.logged, NEW x, NEW n \in Nat, Emission(x, n),
           NEW st \in {"conn", "login", "load", "flush", "ready", "off"}, Send(x, st),
           db' = db, sdk' = sdk, user' = user, alloc' = alloc, ctp' \in Counterparty, ctp'.log = ctp.log,
           Room, n <= Len(ctp.log) * 3 + 5, Buffers(x.g, st)
    PROVE  IInv'
<1>1. StoreInv /\ GatewayInv /\ ChannelInv /\ ch \in Seq(Frames) /\ g \in Sessions /\ g.seq \in Nat
  BY DEF IInv, ChannelInv, GatewayInv, Sessions
<1>2. x \in Works /\ x.out \in Seq(Reports) /\ x.tasks \in Seq(Tasks) /\ x.g.seq \in Nat /\ x.fresh \in Nat
      /\ x.g.keys \in SUBSET Nat
  BY WorkFields DEF Emission
<1>3. PICK s : s = Left(x, st)
  OBVIOUS
<1>4. g' = s /\ fresh' = x.fresh /\ Write(x.out) /\ pq' = pq \o x.tasks
  BY <1>3 DEF Send, Left
<1>5. /\ s \in Sessions /\ s.st = st /\ s.seq = x.g.seq /\ s.keys = x.g.keys /\ s.logged = g.logged
      /\ s.lastO = x.g.lastO /\ s.lastT = x.g.lastT /\ s.pos = x.g.pos /\ s.buf = x.g.buf
  <2>1. /\ s \in Sessions /\ s.st = st /\ s.seq = x.g.seq /\ s.keys = x.g.keys /\ s.logged = x.g.logged
        /\ s.lastO = x.g.lastO /\ s.lastT = x.g.lastT /\ s.pos = x.g.pos /\ s.buf = x.g.buf
    <3>1. st \in {"none", "conn", "login", "load", "flush", "ready", "off"}
      OBVIOUS
    <3>2. x.g \in Sessions
      BY <1>2, WorkFields
    <3>. QED  BY <1>3, <3>1, <3>2 DEF Left, Sessions
  <2>2. x.g.logged = g.logged
    BY DEF Emission
  <2>. QED  BY <2>1, <2>2, Zenon
<1>6. x.out \in Seq(Frames)
  <2>1. Reports \subseteq Frames
    BY DEF Frames
  <2>. QED  BY <1>2, <2>1, SeqMonotonic
<1>7. PICK w \in Seq(Frames) : ch' = ch \o w /\ (w = <<>> \/ w = x.out)
  BY <1>1, <1>4, <1>6, WriteIs
<1>8. \A r \in TradesIn(x.tasks) : r.id \notin g.keys /\ r.id \in s.keys
  BY <1>5 DEF Emission
<1>9. Beyond(x.tasks, x.g.seq) /\ Once(x.tasks) /\ g.seq <= x.g.seq /\ g.keys \subseteq s.keys
  BY <1>5 DEF Emission
<1>10. StoreInv' /\ Issued' = Issued \cup TradesIn(x.tasks)
  BY <1>1, <1>2, <1>4, <1>8, <1>9, StoreGrows
<1>11. GatewayInv'
  <2>1. \A r \in db' : r.seq <= s.seq
    <3>1. \A r \in db : r.seq <= g.seq /\ r.seq \in Nat
      BY <1>1 DEF GatewayInv, StoreInv, Rows, Record
    <3>. QED  BY <1>1, <1>2, <1>5, <1>9, <3>1
  <2>2. \A i \in DOMAIN pq' : pq'[i].seq <= s.seq
    <3>1. pq \in Seq(Tasks) /\ \A i \in DOMAIN pq : pq[i].seq <= g.seq
      BY <1>1 DEF GatewayInv, StoreInv
    <3>2. \A i \in DOMAIN pq : pq[i].seq \in Nat
      <4>1. \A i \in DOMAIN pq : pq[i] \in Tasks
        BY <3>1, InSeq
      <4>. QED  BY <4>1 DEF Tasks, Record
    <3>3. \A i \in DOMAIN x.tasks : x.tasks[i].seq <= x.g.seq
      BY <1>9 DEF Beyond
    <3>4. \A i \in DOMAIN pq : pq[i].seq <= s.seq
      BY <1>1, <1>2, <1>5, <1>9, <3>1, <3>2
    <3>5. \A i \in DOMAIN pq' : (i \in DOMAIN pq /\ pq'[i] = pq[i])
                               \/ (\E j \in DOMAIN x.tasks : pq'[i] = x.tasks[j])
      BY <1>2, <1>4, <3>1, JoinFacts
    <3>. QED  BY <1>5, <3>3, <3>4, <3>5
  <2>3. \A r \in Issued' : r.id \in s.keys
    <3>1. \A r \in Issued : r.id \in g.keys
      BY <1>1 DEF GatewayInv
    <3>. QED  BY <1>8, <1>9, <1>10, <3>1
  <2>4. LatestInv(s)'
    <3>1. TradesIn(g.lastT) \subseteq Issued
      BY <1>1 DEF GatewayInv, LatestInv
    <3>2. TradesIn(s.lastT) \subseteq Issued'
      BY <1>5, <1>10, <3>1 DEF Emission
    <3>3. (\A i \in DOMAIN s.lastO : i = 1 /\ s.lastO[i].k = "ord") /\ (\A i \in DOMAIN s.lastT : i = 1 /\ s.lastT[i].k = "trd")
      BY <1>5 DEF Emission
    <3>. QED  BY <3>2, <3>3 DEF LatestInv
  <2>5. LatestInv(g)'
    BY <1>4, <2>4 DEF LatestInv
  <2>6. (g.st # "load" => g.buf = NoReports)' /\ (Len(g.buf.ord) + Len(g.buf.trd) <= g.pos)'
        /\ (g.pos <= Len(ctp.log))'
    BY <1>4, <1>5 DEF Buffers
  <2>7. (g \in Sessions)' /\ (ctp \in Counterparty)' /\ (alloc \in Nat)' /\ (fresh \in Nat)' /\ g'.logged
        /\ g'.st # "none"
    BY <1>1, <1>2, <1>4, <1>5 DEF GatewayInv
  <2>8. (\A r \in db : r.seq <= g.seq)' /\ (\A i \in DOMAIN pq : pq[i].seq <= g.seq)'
        /\ (\A r \in Issued : r.id \in g.keys)'
    BY <1>4, <2>1, <2>2, <2>3
  <2>. QED  BY <2>5, <2>6, <2>7, <2>8 DEF GatewayInv
<1>12. SessionGrows /\ Added(w)
  <2>1. SessionGrows
    BY <1>4, <1>5, <1>9 DEF SessionGrows
  <2>2. Added(<<>>)
    BY DEF Added
  <2>3. Added(x.out)
    <3>1. \A q \in DOMAIN x.out : x.out[q].k # "st" /\ x.out[q].k # "del"
      <4>1. \A q \in DOMAIN x.out : x.out[q] \in Reports
        BY <1>2, InSeq
      <4>. QED  BY <4>1 DEF Reports, Record, RowKinds
    <3>2. Beyond(x.out, x.g.seq)
      BY DEF Emission
    <3>. QED  BY <1>4, <1>5, <3>1, <3>2 DEF Added, Beyond
  <2>. QED  BY <1>7, <2>1, <2>2, <2>3
<1>13. TradesIn(w) \subseteq Issued'
  <2>1. TradesIn(x.out) \subseteq TradesIn(x.tasks)
    BY DEF Emission
  <2>. QED  BY <1>7, <1>10, <2>1, NoTrades
<1>14. \A r \in Issued' : r.id \in DOMAIN user.trd => r \in Issued
  <2>1. \A i \in DOMAIN user.trd : \E r \in Issued : r.id = i
    BY DEF IInv, StrategyInv, TradesInv
  <2>2. \A r \in Issued : r.id \in g.keys
    BY <1>1 DEF GatewayInv
  <2>. QED  BY <1>8, <1>10, <2>1, <2>2
<1>15. Bounded'
  <2>1. Len(w) <= n
    BY <1>7 DEF Emission
  <2>2. n <= Len(ctp'.log) * 3 + 5
    OBVIOUS
  <2>. QED  BY <1>1, <1>7, <2>1, <2>2, RoomFor
<1>. QED
  BY <1>7, <1>10, <1>11, <1>12, <1>13, <1>14, <1>15, GatewayStep DEF Behind

(* Steps that leave the database and the queue alone. *)
LEMMA QueueStays ==
    ASSUME IInv, db' = db, pq' = pq, sdk' = sdk, user' = user,
           NEW w \in Seq(Frames), ch' = ch \o w, TradesIn(w) \subseteq Issued,
           GatewayInv', Bounded', Behind(w)
    PROVE  IInv'
<1>1. Issued' = Issued
  BY DEF Issued
<1>2. StoreInv'
  BY <1>1 DEF IInv, StoreInv, CommitsInSeqOrder
<1>. QED
  BY <1>1, <1>2, GatewayStep

Remembers == /\ g'.seq = g.seq /\ g'.keys = g.keys /\ g'.lastO = g.lastO /\ g'.lastT = g.lastT
             /\ g'.logged = g.logged

(* What a session is in each of its states. *)
SessionIn(s) ==
  /\ s.st \in {"login", "load", "flush", "ready", "off"} => s.logged
  /\ s.st = "none" => ~s.logged
  /\ s.st # "load" => s.buf = NoReports
  /\ Len(s.buf.ord) + Len(s.buf.trd) <= s.pos

LEMMA MemoryStays ==
    ASSUME IInv, db' = db, pq' = pq, ctp' \in Counterparty, Len(ctp.log) <= Len(ctp'.log),
           fresh' = fresh, alloc' \in Nat, NEW s \in Sessions, g' = s, SessionIn(s), s.pos <= Len(ctp.log),
           ~s.logged \/ Remembers
    PROVE  GatewayInv' /\ SessionGrows
<1>1. GatewayInv
  BY DEF IInv
<1>2. Issued' = Issued
  BY DEF Issued
<1>3. SessionGrows
  <2>1. g.seq \in Nat
    BY <1>1 DEF GatewayInv, Sessions
  <2>2. SUFFICES ASSUME g'.logged PROVE g.logged /\ g.seq <= g'.seq
    BY DEF SessionGrows
  <2>3. s.logged
    BY <2>2
  <2>4. g'.seq = g.seq /\ g'.logged = g.logged
    BY <2>3 DEF Remembers
  <2>. QED  BY <2>1, <2>2, <2>4
<1>4. s.pos <= Len(ctp'.log)
  <2>1. Len(ctp.log) \in Nat /\ Len(ctp'.log) \in Nat /\ s.pos \in Nat
    BY <1>1 DEF GatewayInv, Counterparty, Sessions
  <2>. QED  BY <2>1
<1>5. ASSUME s.logged
      PROVE  /\ \A r \in db' : r.seq <= s.seq
             /\ \A i \in DOMAIN pq' : pq'[i].seq <= s.seq
             /\ \A r \in Issued' : r.id \in s.keys
             /\ LatestInv(g)'
  <2>1. g.logged /\ s.seq = g.seq /\ s.keys = g.keys /\ s.lastO = g.lastO /\ s.lastT = g.lastT
    BY <1>5 DEF Remembers
  <2>2. /\ \A r \in db : r.seq <= g.seq
        /\ \A i \in DOMAIN pq : pq[i].seq <= g.seq
        /\ \A r \in Issued : r.id \in g.keys
        /\ LatestInv(g)
    BY <1>1, <2>1 DEF GatewayInv
  <2>. QED  BY <1>2, <2>1, <2>2 DEF LatestInv
<1>6. GatewayInv'
  <2>1. (g \in Sessions)' /\ (ctp \in Counterparty)' /\ (alloc \in Nat)' /\ (fresh \in Nat)'
    BY <1>1 DEF GatewayInv
  <2>2. /\ (g.st \in {"login", "load", "flush", "ready", "off"} => g.logged)'
        /\ (g.st = "none" => ~g.logged)'
        /\ (g.st # "load" => g.buf = NoReports)'
        /\ (Len(g.buf.ord) + Len(g.buf.trd) <= g.pos)' /\ (g.pos <= Len(ctp.log))'
    BY <1>4 DEF SessionIn
  <2>. QED  BY <1>5, <2>1, <2>2 DEF GatewayInv
<1>. QED
  BY <1>3, <1>6

LEMMA StatusFacts ==
    ASSUME NEW st \in {"LoggingIn", "Ready", "Offline"}, NEW f, f = Status(st)
    PROVE  /\ f \in Seq(Frames) /\ Len(f) = 1 /\ TradesIn(f) = {}
           /\ st # "Ready" => Added(f)
<1>1. PICK r : r = [k |-> "st", st |-> st]
  OBVIOUS
<1>2. r \in Frames /\ r.k = "st" /\ r.st = st
  BY <1>1 DEF Frames, Statuses
<1>3. f = <<r>>
  BY <1>1 DEF Status
<1>4. f \in Seq(Frames) /\ TradesIn(f) = {}
  BY <1>2, <1>3, OneFrame
<1>5. \A q \in DOMAIN f : f[q] = r
  BY <1>3
<1>6. st # "Ready" => Added(f)
  BY <1>2, <1>5 DEF Added
<1>. QED
  BY <1>3, <1>4, <1>6

LEMMA StatusStep ==
    ASSUME IInv, Room, db' = db, pq' = pq, sdk' = sdk, user' = user, ctp' = ctp, fresh' = fresh, alloc' \in Nat,
           NEW s \in Sessions, g' = s, SessionIn(s), s.pos <= Len(ctp.log), ~s.logged \/ Remembers,
           NEW st \in {"LoggingIn", "Offline"}, Write(Status(st))
    PROVE  IInv'
<1>1. ch \in Seq(Frames) /\ ctp \in Counterparty /\ Len(ctp.log) \in Nat
  BY DEF IInv, ChannelInv, GatewayInv, Counterparty
<1>2. GatewayInv' /\ SessionGrows
  BY <1>1, MemoryStays
<1>3. PICK f : f = Status(st)
  OBVIOUS
<1>4. f \in Seq(Frames) /\ Len(f) = 1 /\ TradesIn(f) = {} /\ Added(f)
  BY <1>3, StatusFacts
<1>5. PICK w \in Seq(Frames) : ch' = ch \o w /\ (w = <<>> \/ w = f)
  BY <1>1, <1>3, <1>4, WriteIs
<1>6. TradesIn(w) = {} /\ Added(w) /\ Len(w) <= 1
  <2>1. Added(<<>>)
    BY DEF Added
  <2>. QED  BY <1>4, <1>5, <2>1, NoTrades
<1>7. Bounded'
  <2>1. 1 <= Len(ctp'.log) * 3 + 5
    BY <1>1
  <2>2. ctp' \in Counterparty
    BY <1>1
  <2>. QED  BY <1>1, <1>5, <1>6, <2>1, <2>2, RoomFor
<1>. QED
  BY <1>2, <1>5, <1>6, <1>7, QueueStays DEF Behind

LEMMA NewSessionFacts ==
    /\ NewSession \in Sessions /\ SessionIn(NewSession) /\ NewSession.pos = 0 /\ ~NewSession.logged
    /\ \A s : s = [NewSession EXCEPT !.st = "conn"] =>
         s \in Sessions /\ SessionIn(s) /\ s.pos = 0 /\ ~s.logged
<1>1. <<>> \in Seq(Events) /\ <<>> \in Seq(Rows) /\ Len(<<>>) = 0
  OBVIOUS
<1>2. NoReports \in [ord : Seq(Events), trd : Seq(Events)] /\ Len(NoReports.ord) + Len(NoReports.trd) = 0
  BY <1>1 DEF NoReports
<1>3. <<>> \in Partial(Nat) /\ <<>> \in Partial(Record({"ord"}))
  BY EmptyPartial
<1>4. NewSession \in Sessions
  BY <1>1, <1>2, <1>3 DEF NewSession, Sessions
<1>5. /\ NewSession.st = "none" /\ NewSession.logged = FALSE /\ NewSession.pos = 0 /\ NewSession.buf = NoReports
  BY DEF NewSession
<1>6. SessionIn(NewSession)
  BY <1>2, <1>5 DEF SessionIn
<1>7. ASSUME NEW s, s = [NewSession EXCEPT !.st = "conn"]
      PROVE  s \in Sessions /\ SessionIn(s) /\ s.pos = 0 /\ ~s.logged
  <2>1. s \in Sessions /\ s.st = "conn" /\ s.logged = FALSE /\ s.pos = 0 /\ s.buf = NoReports
    BY <1>4, <1>5, <1>7 DEF Sessions
  <2>. QED  BY <1>2, <2>1 DEF SessionIn
<1>. QED
  BY <1>4, <1>5, <1>6, <1>7

LEMMA ConnectKeeps ==
    ASSUME IInv, connect_account_by_id
    PROVE  IInv'
<1>1. PICK s : s = [NewSession EXCEPT !.st = "conn"]
  OBVIOUS
<1>2. s \in Sessions /\ SessionIn(s) /\ s.pos = 0 /\ ~s.logged
  BY <1>1, NewSessionFacts
<1>3. g' = s /\ Room /\ Write(Status("LoggingIn")) /\ db' = db /\ pq' = pq /\ sdk' = sdk /\ user' = user
      /\ ctp' = ctp /\ fresh' = fresh /\ alloc' = alloc
  BY <1>1 DEF connect_account_by_id
<1>4. s.pos <= Len(ctp.log) /\ alloc' \in Nat
  <2>1. Len(ctp.log) \in Nat /\ alloc \in Nat
    BY DEF IInv, GatewayInv, Counterparty
  <2>. QED  BY <1>2, <1>3, <2>1
<1>. QED
  BY <1>2, <1>3, <1>4, StatusStep

(* A session goes on in another state. *)
LEMMA ReconnectKeeps ==
    ASSUME IInv, Reconnect
    PROVE  IInv'
<1>1. PICK s : s = [g EXCEPT !.st = "conn"]
  OBVIOUS
<1>2. g' = s /\ g.st = "off" /\ Room /\ Write(Status("LoggingIn")) /\ db' = db /\ pq' = pq /\ sdk' = sdk
      /\ user' = user /\ ctp' = ctp /\ fresh' = fresh /\ alloc' = alloc
  BY <1>1 DEF Reconnect
<1>3. GatewayInv /\ g \in Sessions /\ alloc \in Nat
  BY DEF IInv, GatewayInv
<1>4. /\ s \in Sessions /\ s.st = "conn" /\ s.seq = g.seq /\ s.keys = g.keys /\ s.lastO = g.lastO
      /\ s.lastT = g.lastT /\ s.logged = g.logged /\ s.buf = g.buf /\ s.pos = g.pos
  BY <1>1, <1>3 DEF Sessions
<1>5. SessionIn(s) /\ s.pos <= Len(ctp.log)
  BY <1>2, <1>3, <1>4 DEF SessionIn, GatewayInv
<1>6. Remembers
  BY <1>2, <1>4 DEF Remembers
<1>. QED
  BY <1>2, <1>3, <1>4, <1>5, <1>6, StatusStep

LEMMA FrontKeeps ==
    ASSUME IInv, on_front_disconnected
    PROVE  IInv'
<1>1. PICK s : s = [g EXCEPT !.st = "off", !.buf = NoReports, !.hold = FALSE, !.ready = FALSE]
  OBVIOUS
<1>2. g' = s /\ g.logged /\ Room /\ Write(Status("Offline")) /\ db' = db /\ pq' = pq /\ sdk' = sdk
      /\ user' = user /\ ctp' = ctp /\ fresh' = fresh /\ alloc' = alloc
  BY <1>1 DEF on_front_disconnected
<1>3. GatewayInv /\ g \in Sessions /\ alloc \in Nat /\ g.pos \in Nat
  BY DEF IInv, GatewayInv, Sessions
<1>4. /\ s \in Sessions /\ s.st = "off" /\ s.seq = g.seq /\ s.keys = g.keys /\ s.lastO = g.lastO
      /\ s.lastT = g.lastT /\ s.logged = g.logged /\ s.buf = NoReports /\ s.pos = g.pos
  <2>1. NoReports \in [ord : Seq(Events), trd : Seq(Events)]
    <3>1. <<>> \in Seq(Events)
      OBVIOUS
    <3>. QED  BY <3>1 DEF NoReports
  <2>. QED  BY <1>1, <1>3, <2>1 DEF Sessions
<1>5. SessionIn(s) /\ s.pos <= Len(ctp.log)
  <2>1. Len(NoReports.ord) + Len(NoReports.trd) <= g.pos
    BY <1>3 DEF NoReports
  <2>2. g.pos <= Len(ctp.log)
    BY <1>3 DEF GatewayInv
  <2>. QED  BY <1>2, <1>4, <2>1, <2>2 DEF SessionIn
<1>6. Remembers
  BY <1>2, <1>4 DEF Remembers
<1>. QED
  BY <1>2, <1>3, <1>4, <1>5, <1>6, StatusStep

LEMMA DisconnectKeeps ==
    ASSUME IInv, disconnect_account_by_id
    PROVE  IInv'
<1>1. PICK s : s = NewSession
  OBVIOUS
<1>2. g' = s /\ Room /\ Write(Status("Offline")) /\ db' = db /\ pq' = pq /\ sdk' = sdk
      /\ user' = user /\ ctp' = ctp /\ fresh' = fresh /\ alloc' = alloc
  BY <1>1 DEF disconnect_account_by_id
<1>3. s \in Sessions /\ SessionIn(s) /\ s.pos = 0 /\ ~s.logged
  BY <1>1, NewSessionFacts
<1>4. s.pos <= Len(ctp.log) /\ alloc' \in Nat
  <2>1. Len(ctp.log) \in Nat /\ alloc \in Nat
    BY DEF IInv, GatewayInv, Counterparty
  <2>. QED  BY <1>2, <1>3, <2>1
<1>. QED
  BY <1>2, <1>3, <1>4, StatusStep

(* Without a backlog the process dies with an empty queue. *)
LEMMA CrashKeeps ==
    ASSUME IInv, ~Backlog, Crash
    PROVE  IInv'
<1>1. PICK s : s = NewSession
  OBVIOUS
<1>2. g' = s /\ Room /\ Write(Status("Offline")) /\ db' = db /\ pq' = pq /\ sdk' = sdk
      /\ user' = user /\ ctp' = ctp /\ fresh' = fresh /\ alloc' = 0
  BY <1>1 DEF Crash, Settled
<1>3. s \in Sessions /\ SessionIn(s) /\ s.pos = 0 /\ ~s.logged
  BY <1>1, NewSessionFacts
<1>4. s.pos <= Len(ctp.log) /\ alloc' \in Nat
  <2>1. Len(ctp.log) \in Nat
    BY DEF IInv, GatewayInv, Counterparty
  <2>. QED  BY <1>2, <1>3, <2>1
<1>. QED
  BY <1>2, <1>3, <1>4, StatusStep

LEMMA SettlementKeeps ==
    ASSUME IInv, on_settlement_confirmed
    PROVE  IInv'
<1>1. PICK s : s = [g EXCEPT !.st = "load"]
  OBVIOUS
<1>2. g' = s /\ g.st = "login" /\ ch' = ch /\ db' = db /\ pq' = pq /\ sdk' = sdk
      /\ user' = user /\ ctp' = ctp /\ fresh' = fresh /\ alloc' = alloc
  BY <1>1 DEF on_settlement_confirmed
<1>3. GatewayInv /\ g \in Sessions /\ alloc \in Nat /\ ctp \in Counterparty /\ ch \in Seq(Frames)
      /\ Len(ctp.log) \in Nat
  <2>1. GatewayInv /\ g \in Sessions /\ alloc \in Nat /\ ctp \in Counterparty /\ ch \in Seq(Frames)
    BY DEF IInv, GatewayInv, ChannelInv
  <2>. QED  BY <2>1 DEF Counterparty
<1>4. /\ s \in Sessions /\ s.st = "load" /\ s.seq = g.seq /\ s.keys = g.keys /\ s.lastO = g.lastO
      /\ s.lastT = g.lastT /\ s.logged = g.logged /\ s.buf = g.buf /\ s.pos = g.pos
  BY <1>1, <1>3 DEF Sessions
<1>5. SessionIn(s) /\ s.pos <= Len(ctp.log)
  BY <1>2, <1>3, <1>4 DEF SessionIn, GatewayInv
<1>6. Remembers
  BY <1>2, <1>4 DEF Remembers
<1>7. GatewayInv' /\ SessionGrows
  BY <1>2, <1>3, <1>4, <1>5, <1>6, MemoryStays
<1>8. <<>> \in Seq(Frames) /\ ch' = ch \o <<>> /\ TradesIn(<<>>) = {} /\ Added(<<>>)
  BY <1>2, <1>3, ConcatEmptySeq, NoTrades DEF Added
<1>9. Bounded'
  BY <1>2 DEF IInv, Bounded
<1>. QED
  BY <1>2, <1>7, <1>8, <1>9, QueueStays DEF Behind

-----------------------------------------------------------------------------
(* Steps that find an empty queue. *)

LEMMA EmptyQueue ==
    ASSUME pq = <<>>
    PROVE  Issued = Trades(db) /\ Issued \subseteq db
BY NoTrades DEF Issued, Trades

LEMMA LastOfFacts ==
    ASSUME NEW S \in SUBSET Rows, IsFiniteSet(S)
    PROVE  /\ LastOf(S) \in Seq(Rows)
           /\ \A i \in DOMAIN LastOf(S): i = 1 /\ LastOf(S)[i] \in S
<1>1. CASE S = {}
  <2>1. LastOf(S) = <<>>
    BY <1>1 DEF LastOf
  <2>2. <<>> \in Seq(Rows) /\ DOMAIN <<>> = {}
    OBVIOUS
  <2>. QED  BY <2>1, <2>2
<1>2. CASE S # {}
  <2> DEFINE T == {r.seq : r \in S}
  <2>1. IsFiniteSet(T) /\ T \in SUBSET Nat /\ T # {}
    BY <1>2, SeqsOf
  <2>2. PICK m \in T : \A n \in T : n <= m
    <3> HIDE DEF T
    <3>. QED  BY <2>1, Greatest
  <2>3. PICK q \in S : \A r \in S : r.seq <= q.seq
    BY <2>2
  <2>4. PICK r \in S : LastOf(S) = <<r>>
    BY <1>2, <2>3 DEF LastOf
  <2>. QED  BY <2>4
<1>. QED
  BY <1>1, <1>2

CountOf(d) == [o \in {r.oid : r \in Trades(d)} |-> Cardinality({r \in Trades(d) : r.oid = o})]

BaseOf(d) == [o \in {r.oid : r \in Orders(d)} |->
                LET r == CHOOSE q \in Orders(d) : q.oid = o
                IN  IF Has(CountOf(d), o) THEN [r EXCEPT !.n = CountOf(d)[o]] ELSE r]

LEMMA BaselineIs ==
    load_trading_day_baseline(g, db) =
      [g EXCEPT !.seq = Max({query_max_seq(db), alloc}), !.base = BaseOf(db),
                !.keys = {r.id : r \in Trades(db)}, !.cnt = CountOf(db),
                !.lastO = LastOf(Orders(db)), !.lastT = LastOf(Trades(db)),
                !.logged = TRUE, !.pos = 0]
BY DEF load_trading_day_baseline, CountOf, BaseOf

LEMMA CountType ==
    ASSUME NEW d \in SUBSET Rows, IsFiniteSet(d)
    PROVE  CountOf(d) \in Partial(Nat)
<1> DEFINE D == {r.oid : r \in Trades(d)}
<1>1. D \in SUBSET Nat
  BY DEF Trades, Rows, Record
<1>2. ASSUME NEW o \in D PROVE Cardinality({r \in Trades(d) : r.oid = o}) \in Nat
  <2>1. IsFiniteSet({r \in Trades(d) : r.oid = o})
    <3>1. {r \in Trades(d) : r.oid = o} \subseteq d
      BY DEF Trades
    <3>. QED  BY <3>1, FS_Subset
  <2>. QED  BY <2>1, FS_CardinalityType
<1>3. CountOf(d) = [o \in D |-> Cardinality({r \in Trades(d) : r.oid = o})]
  BY DEF CountOf
<1> HIDE DEF D
<1>4. CountOf(d) \in [D -> Nat]
  BY <1>2, <1>3
<1>. QED
  BY <1>1, <1>4 DEF Partial

LEMMA BaseType ==
    ASSUME NEW d \in SUBSET Rows, IsFiniteSet(d)
    PROVE  BaseOf(d) \in Partial(Record({"ord"}))
<1> DEFINE D == {r.oid : r \in Orders(d)}
           One(o) == CHOOSE q \in Orders(d) : q.oid = o
<1>1. D \in SUBSET Nat
  BY DEF Orders, Rows, Record
<1>2. PICK c : c = CountOf(d)
  OBVIOUS
<1>3. c \in Partial(Nat)
  BY <1>2, CountType
<1>4. BaseOf(d) = [o \in D |-> IF Has(c, o) THEN [One(o) EXCEPT !.n = c[o]] ELSE One(o)]
  BY <1>2 DEF BaseOf
<1>5. ASSUME NEW o \in D PROVE One(o) \in Record({"ord"})
  <2>1. One(o) \in Orders(d)
    OBVIOUS
  <2>. QED  BY <2>1 DEF Orders, Rows, Record
<1> HIDE DEF D, One
<1>6. ASSUME NEW o \in D
      PROVE  (IF Has(c, o) THEN [One(o) EXCEPT !.n = c[o]] ELSE One(o)) \in Record({"ord"})
  <2>1. PICK r : r = One(o)
    OBVIOUS
  <2>2. r \in Record({"ord"})
    BY <1>5, <2>1
  <2>3. ASSUME Has(c, o) PROVE [r EXCEPT !.n = c[o]] \in Record({"ord"})
    <3>1. PICK m \in Nat : m = c[o]
      BY <1>3, <2>3, PartialFacts DEF Has
    <3>2. [r EXCEPT !.n = m] \in Record({"ord"})
      BY <2>2 DEF Record
    <3>. QED  BY <3>1, <3>2
  <2>. QED  BY <2>1, <2>2, <2>3
<1>7. BaseOf(d) \in [D -> Record({"ord"})]
  BY <1>4, <1>6
<1>. QED
  BY <1>1, <1>7 DEF Partial

LEMMA LoginKeeps ==
    ASSUME IInv, ~Backlog, on_rsp_user_login
    PROVE  IInv'
<1>1. PICK s : s = [load_trading_day_baseline(g, db) EXCEPT !.st = "login"]
  OBVIOUS
<1>2. g' = s /\ g.st = "conn" /\ pq = <<>> /\ ch' = ch /\ db' = db /\ pq' = pq /\ sdk' = sdk
      /\ user' = user /\ ctp' = ctp /\ fresh' = fresh /\ alloc' = alloc
  BY <1>1 DEF on_rsp_user_login, Settled
<1>3. StoreInv /\ GatewayInv /\ g \in Sessions /\ alloc \in Nat /\ fresh \in Nat /\ ctp \in Counterparty
      /\ ch \in Seq(Frames) /\ db \in SUBSET Rows /\ IsFiniteSet(db) /\ g.buf = NoReports
  BY <1>2 DEF IInv, GatewayInv, ChannelInv, StoreInv
<1>4. PICK a, b, k, c, lo, lt :
        /\ a = Max({query_max_seq(db), alloc}) /\ b = BaseOf(db) /\ k = {r.id : r \in Trades(db)}
        /\ c = CountOf(db) /\ lo = LastOf(Orders(db)) /\ lt = LastOf(Trades(db))
  OBVIOUS
<1>5. PICK z : z = [g EXCEPT !.seq = a, !.base = b, !.keys = k, !.cnt = c,
                             !.lastO = lo, !.lastT = lt, !.logged = TRUE, !.pos = 0]
  OBVIOUS
<1>6. s = [z EXCEPT !.st = "login"]
  BY <1>1, <1>4, <1>5, BaselineIs
<1>7. query_max_seq(db) \in Nat /\ \A r \in db : r.seq <= query_max_seq(db) /\ r.seq \in Nat
  BY <1>3, MaxSeq DEF Rows, Record
<1>8. a \in Nat /\ query_max_seq(db) <= a
  BY <1>3, <1>4, <1>7, MaxOfTwo
<1>9. b \in Partial(Record({"ord"})) /\ c \in Partial(Nat)
  BY <1>3, <1>4, BaseType, CountType
<1>10. k \in SUBSET Nat /\ \A r \in Trades(db) : r.id \in k
  BY <1>3, <1>4 DEF Trades, Rows, Record
<1>11. /\ lo \in Seq(Rows) /\ \A i \in DOMAIN lo : i = 1 /\ lo[i] \in Orders(db)
       /\ lt \in Seq(Rows) /\ \A i \in DOMAIN lt : i = 1 /\ lt[i] \in Trades(db)
  <2>1. Orders(db) \subseteq db /\ Trades(db) \subseteq db
    BY DEF Orders, Trades
  <2>2. Orders(db) \in SUBSET Rows /\ IsFiniteSet(Orders(db)) /\ Trades(db) \in SUBSET Rows /\ IsFiniteSet(Trades(db))
    BY <1>3, <2>1, FS_Subset
  <2>. QED  BY <1>4, <2>2, LastOfFacts
<1>12. z \in Sessions /\ z.seq = a /\ z.keys = k /\ z.lastO = lo /\ z.lastT = lt /\ z.logged = TRUE
       /\ z.pos = 0 /\ z.buf = g.buf
  BY <1>3, <1>5, <1>8, <1>9, <1>10, <1>11 DEF Sessions
<1>13. s \in Sessions /\ s.st = "login" /\ s.seq = a /\ s.keys = k /\ s.lastO = lo /\ s.lastT = lt /\ s.logged = TRUE
       /\ s.pos = 0 /\ s.buf = NoReports
  BY <1>3, <1>6, <1>12 DEF Sessions
<1>14. Issued' = Trades(db) /\ Issued' \subseteq db' /\ Issued = Trades(db)
  BY <1>2, EmptyQueue DEF Issued
<1>15. (LatestInv(g))'
  <2>1. (\A i \in DOMAIN lo : i = 1 /\ lo[i].k = "ord") /\ (\A i \in DOMAIN lt : i = 1 /\ lt[i].k = "trd")
    BY <1>11 DEF Orders, Trades
  <2>2. TradesIn(lt) \subseteq Issued'
    BY <1>11, <1>14 DEF TradesIn
  <2>. QED  BY <1>2, <1>13, <2>1, <2>2 DEF LatestInv
<1>16. GatewayInv'
  <2>1. \A r \in db : r.seq <= a
    BY <1>7, <1>8
  <2>2. DOMAIN pq = {}
    BY <1>2
  <2>3. Len(NoReports.ord) + Len(NoReports.trd) <= 0 /\ 0 <= Len(ctp.log)
    <3>1. Len(ctp.log) \in Nat
      BY <1>3 DEF Counterparty
    <3>. QED  BY <3>1 DEF NoReports
  <2>. QED  BY <1>2, <1>3, <1>10, <1>13, <1>14, <1>15, <2>1, <2>2, <2>3 DEF GatewayInv
<1>17. <<>> \in Seq(Frames) /\ ch' = ch \o <<>> /\ TradesIn(<<>>) \subseteq Issued
  BY <1>2, <1>3, ConcatEmptySeq, NoTrades
<1>18. Bounded'
  BY <1>2 DEF IInv, Bounded
<1>. QED
  BY <1>2, <1>14, <1>16, <1>17, <1>18, QueueStays DEF Behind

LEMMA LatestFacts ==
    ASSUME StoreInv, NEW s \in Sessions, LatestInv(s), NEW l, l = LatestRecord(s)
    PROVE  l \in Seq(Frames) /\ Len(l) <= 3 /\ TradesIn(l) \subseteq Issued
<1>1. ASSUME NEW q \in Seq(Rows), \A i \in DOMAIN q : i = 1
      PROVE  q \in Seq(Frames) /\ Len(q) <= 3
  <2>1. Rows \subseteq Frames
    BY DEF Rows, Frames, Reports, Record
  <2>2. Len(q) \in Nat /\ DOMAIN q = 1..Len(q)
    BY LenProperties
  <2>3. 2 \notin DOMAIN q
    BY <1>1
  <2>. QED  BY <2>1, <2>2, <2>3, SeqMonotonic
<1>2. s.lastO \in Seq(Rows) /\ s.lastT \in Seq(Rows)
  BY DEF Sessions
<1>3. /\ \A i \in DOMAIN s.lastO : i = 1 /\ s.lastO[i].k = "ord"
      /\ \A i \in DOMAIN s.lastT : i = 1
      /\ TradesIn(s.lastT) \subseteq Issued
  BY DEF LatestInv
<1>4. TradesIn(s.lastO) = {}
  BY <1>3 DEF TradesIn
<1>5. CASE l = s.lastO
  BY <1>1, <1>2, <1>3, <1>4, <1>5
<1>6. CASE l = s.lastT
  BY <1>1, <1>2, <1>3, <1>6
<1>. QED
  BY <1>5, <1>6 DEF LatestRecord

LEMMA RepushKeeps ==
    ASSUME IInv, ~Backlog, repush_last_records
    PROVE  IInv'
<1>1. PICK s, l, f : s = [g EXCEPT !.st = "ready"] /\ l = LatestRecord(g) /\ f = Status("Ready")
  OBVIOUS
<1>2. g' = s /\ g.st = "flush" /\ Room /\ pq = <<>> /\ Write(f \o l) /\ db' = db /\ pq' = pq /\ sdk' = sdk
      /\ user' = user /\ ctp' = ctp /\ fresh' = fresh /\ alloc' = alloc
  BY <1>1 DEF repush_last_records, Settled
<1>3. GatewayInv /\ g \in Sessions /\ alloc \in Nat /\ ctp \in Counterparty /\ ch \in Seq(Frames) /\ g.logged
  BY <1>2 DEF IInv, GatewayInv, ChannelInv
<1>4. /\ s \in Sessions /\ s.st = "ready" /\ s.seq = g.seq /\ s.keys = g.keys /\ s.lastO = g.lastO
      /\ s.lastT = g.lastT /\ s.logged = g.logged /\ s.buf = g.buf /\ s.pos = g.pos
  BY <1>1, <1>3 DEF Sessions
<1>5. SessionIn(s) /\ s.pos <= Len(ctp.log)
  BY <1>2, <1>3, <1>4 DEF SessionIn, GatewayInv
<1>6. Remembers
  BY <1>2, <1>4 DEF Remembers
<1>7. GatewayInv'
  <2>1. Len(ctp.log) <= Len(ctp'.log)
    <3>1. Len(ctp.log) \in Nat
      BY <1>3 DEF Counterparty
    <3>. QED  BY <1>2, <3>1
  <2>. QED  BY <1>2, <1>3, <1>4, <1>5, <1>6, <2>1, MemoryStays
<1>8. Issued \subseteq db /\ Issued' \subseteq db'
  BY <1>2, EmptyQueue DEF Issued
<1>9. f \in Seq(Frames) /\ Len(f) = 1 /\ TradesIn(f) = {}
  BY <1>1, StatusFacts
<1>10. l \in Seq(Frames) /\ Len(l) <= 3 /\ TradesIn(l) \subseteq Issued
  <2>1. StoreInv /\ LatestInv(g)
    BY <1>3 DEF IInv, GatewayInv
  <2>. QED  BY <1>1, <1>3, <2>1, LatestFacts
<1>11. PICK v : v = f \o l
  OBVIOUS
<1>12. v \in Seq(Frames) /\ Len(v) <= 4 /\ TradesIn(v) \subseteq Issued
  <2>1. v \in Seq(Frames) /\ TradesIn(v) = TradesIn(f) \cup TradesIn(l)
    BY <1>9, <1>10, <1>11, JoinedTrades, ZenonT(60)
  <2>2. Len(v) = Len(f) + Len(l) /\ Len(l) \in Nat
    BY <1>9, <1>10, <1>11, JoinFacts
  <2>. QED  BY <1>9, <1>10, <2>1, <2>2
<1>13. PICK w \in Seq(Frames) : ch' = ch \o w /\ (w = <<>> \/ w = v)
  BY <1>2, <1>3, <1>11, <1>12, WriteIs
<1>14. TradesIn(w) \subseteq Issued /\ Len(w) <= 4
  BY <1>12, <1>13, NoTrades
<1>15. Bounded'
  <2>1. 4 <= Len(ctp'.log) * 3 + 5
    BY <1>2, <1>3 DEF Counterparty
  <2>. QED  BY <1>2, <1>3, <1>13, <1>14, <2>1, RoomFor
<1>. QED
  BY <1>2, <1>7, <1>8, <1>13, <1>14, <1>15, QueueStays DEF Behind

-----------------------------------------------------------------------------
(* Steps that send what a handler has produced. *)

(* Counts of a stream. *)
LEMMA Between ==
    /\ \A a, b, c \in Nat : a <= b /\ b <= c => a <= c
    /\ \A a, b, c \in Nat : a <= b /\ b < c => a + 1 <= b + 1 /\ b + 1 <= c /\ a <= b + 1
    /\ \A a, c \in Nat : a <= c => 2 + 2 * a <= c * 3 + 5
    /\ \A a, b \in Nat : a + b \in Nat
OBVIOUS

LEMMA StartSend ==
    ASSUME IInv, g.logged
    PROVE  /\ g \in Sessions /\ Emission(X0, 0) /\ X0.g = g
           /\ ctp \in Counterparty /\ Len(ctp.log) \in Nat /\ g.pos \in Nat /\ g.pos <= Len(ctp.log)
           /\ Len(g.buf.ord) \in Nat /\ Len(g.buf.trd) \in Nat
           /\ Len(g.buf.ord) + Len(g.buf.trd) <= g.pos
           /\ g.st # "load" => g.buf = NoReports
           /\ \E m, at, top \in Nat : /\ m = Len(g.buf.ord) + Len(g.buf.trd) /\ at = g.pos /\ top = Len(ctp.log)
                                   /\ m <= at /\ at <= top
<1>1. g \in Sessions /\ fresh \in Nat /\ LatestInv(g) /\ ctp \in Counterparty
  BY DEF IInv, GatewayInv
<1>2. Emission(X0, 0)
  BY <1>1, StartFacts
<1>3. X0.g = g
  BY DEF X0
<1>4. g.pos \in Nat /\ g.buf \in [ord : Seq(Events), trd : Seq(Events)]
  BY <1>1 DEF Sessions
<1>5. Len(ctp.log) \in Nat
  BY <1>1 DEF Counterparty
<1>6. Len(g.buf.ord) \in Nat /\ Len(g.buf.trd) \in Nat
  BY <1>4
<1>7. /\ g.pos <= Len(ctp.log) /\ Len(g.buf.ord) + Len(g.buf.trd) <= g.pos
      /\ g.st # "load" => g.buf = NoReports
  BY DEF IInv, GatewayInv
<1>8. PICK a \in Nat, b \in Nat, at \in Nat, top \in Nat :
        a = Len(g.buf.ord) /\ b = Len(g.buf.trd) /\ at = g.pos /\ top = Len(ctp.log)
  BY <1>4, <1>5, <1>6
<1>9. a + b \in Nat /\ a + b <= at /\ at <= top
  <2>1. a + b \in Nat
    BY Between, Zenon
  <2>2. a + b <= at
    BY <1>7, <1>8, Zenon
  <2>3. at <= top
    BY <1>7, <1>8, Zenon
  <2>. QED  BY <2>1, <2>2, <2>3
<1>10. \E m, n, k \in Nat : /\ m = Len(g.buf.ord) + Len(g.buf.trd) /\ n = g.pos /\ k = Len(ctp.log)
                          /\ m <= n /\ n <= k
  BY <1>8, <1>9
<1>. QED
  BY <1>1, <1>2, <1>3, <1>4, <1>5, <1>6, <1>7, <1>10

(* The next report of the stream is taken. *)
Advanced(x) == [x EXCEPT !.g.pos = @ + 1]

LEMMA AdvanceKeeps ==
    ASSUME NEW x, NEW n \in Nat, Emission(x, n), NEW y, y = Advanced(x)
    PROVE  Emission(y, n) /\ y.g.pos = x.g.pos + 1 /\ y.g.buf = x.g.buf
<1> DEFINE s == [x.g EXCEPT !.pos = x.g.pos + 1]
<1>1. x \in Works /\ x.g \in Sessions /\ x.fresh \in Nat /\ x.g.pos \in Nat
  BY WorkFields DEF Emission
<1>2. /\ s \in Sessions /\ s.seq = x.g.seq /\ s.lastT = x.g.lastT /\ s.lastO = x.g.lastO
      /\ s.keys = x.g.keys /\ s.logged = x.g.logged /\ s.pos = x.g.pos + 1 /\ s.buf = x.g.buf
  <2>1. PICK m \in Nat : m = x.g.pos + 1
    BY <1>1
  <2>. QED  BY <1>1, <2>1 DEF Sessions
<1>3. y = [x EXCEPT !.g = s]
  BY DEF Advanced
<1> HIDE DEF s
<1>4. y = Work(s, x.out, x.tasks, x.fresh)
  BY <1>1, <1>3, WithSession
<1>5. y.g = s
  BY <1>4, WorkIs
<1>6. Emission(y, n)
  BY <1>1, <1>2, <1>4, SilentKeeps
<1>. QED
  BY <1>2, <1>5, <1>6

LEMMA BufferKeeps ==
    ASSUME NEW x, NEW n \in Nat, Emission(x, n), NEW e \in Events, NEW y, y = buffer_report(x, e)
    PROVE  /\ Emission(y, n) /\ y.g.pos = x.g.pos
           /\ Len(y.g.buf.ord) + Len(y.g.buf.trd) = Len(x.g.buf.ord) + Len(x.g.buf.trd) + 1
<1>1. x \in Works /\ x.g \in Sessions /\ x.fresh \in Nat /\ x.g.buf \in [ord : Seq(Events), trd : Seq(Events)]
  BY WorkFields DEF Emission
<1>2. PICK b, o, t : b = x.g.buf /\ o = b.ord /\ t = b.trd
  OBVIOUS
<1>3. o \in Seq(Events) /\ t \in Seq(Events) /\ Len(o) \in Nat /\ Len(t) \in Nat
  BY <1>1, <1>2
<1>4. /\ Append(o, e) \in Seq(Events) /\ Len(Append(o, e)) = Len(o) + 1
      /\ Append(t, e) \in Seq(Events) /\ Len(Append(t, e)) = Len(t) + 1
  BY <1>3
<1>5. PICK c : c = IF e.k = "ord" THEN [b EXCEPT !.ord = Append(o, e)] ELSE [b EXCEPT !.trd = Append(t, e)]
  OBVIOUS
<1>6. c \in [ord : Seq(Events), trd : Seq(Events)] /\ Len(c.ord) + Len(c.trd) = Len(o) + Len(t) + 1
  <2>1. CASE e.k = "ord"
    <3>1. c = [b EXCEPT !.ord = Append(o, e)]
      BY <1>5, <2>1
    <3>2. c \in [ord : Seq(Events), trd : Seq(Events)] /\ c.ord = Append(o, e) /\ c.trd = t
      BY <1>1, <1>2, <1>4, <3>1
    <3>. QED  BY <1>3, <1>4, <3>2
  <2>2. CASE e.k # "ord"
    <3>1. c = [b EXCEPT !.trd = Append(t, e)]
      BY <1>5, <2>2
    <3>2. c \in [ord : Seq(Events), trd : Seq(Events)] /\ c.ord = o /\ c.trd = Append(t, e)
      BY <1>1, <1>2, <1>4, <3>1
    <3>. QED  BY <1>3, <1>4, <3>2
  <2>. QED  BY <2>1, <2>2
<1>7. PICK s : s = [x.g EXCEPT !.buf = c]
  OBVIOUS
<1>8. /\ s \in Sessions /\ s.seq = x.g.seq /\ s.lastT = x.g.lastT /\ s.lastO = x.g.lastO
      /\ s.keys = x.g.keys /\ s.logged = x.g.logged /\ s.pos = x.g.pos /\ s.buf = c
  BY <1>1, <1>6, <1>7 DEF Sessions
<1>9. y = [x EXCEPT !.g = s]
  <2>1. y = [x EXCEPT !.g = [x.g EXCEPT !.buf = c]]
    <3>1. CASE e.k = "ord"
      BY <1>2, <1>5, <3>1 DEF buffer_report
    <3>2. CASE e.k # "ord"
      BY <1>2, <1>5, <3>2 DEF buffer_report
    <3>. QED  BY <3>1, <3>2
  <2>. QED  BY <1>7, <2>1
<1>10. y = Work(s, x.out, x.tasks, x.fresh)
  BY <1>1, <1>9, WithSession
<1>11. y.g = s
  BY <1>10, WorkIs
<1>12. Emission(y, n)
  BY <1>1, <1>8, <1>10, SilentKeeps
<1>. QED
  BY <1>2, <1>6, <1>8, <1>11, <1>12

LEMMA OnRtnKeeps ==
    ASSUME IInv, OnRtn
    PROVE  IInv'
<1>1. g.st \in {"login", "load", "ready"} /\ g.pos < Len(ctp.log) /\ Room /\ db' = db /\ sdk' = sdk /\ user' = user
      /\ ctp' = ctp /\ alloc' = alloc
  BY DEF OnRtn
<1>2. g.logged
  BY <1>1 DEF IInv, GatewayInv
<1>3. PICK e, x, y : e = ctp.log[g.pos + 1] /\ x = Advanced(X0)
                     /\ y = IF g.st = "load" THEN buffer_report(x, e) ELSE OnReport(x, e, FALSE)
  OBVIOUS
<1>4. Send(y, g.st)
  BY <1>3 DEF OnRtn, Advanced
<1>5. /\ g \in Sessions /\ Emission(X0, 0) /\ X0.g = g
      /\ ctp \in Counterparty /\ Len(ctp.log) \in Nat /\ g.pos \in Nat
      /\ Len(g.buf.ord) \in Nat /\ Len(g.buf.trd) \in Nat
      /\ Len(g.buf.ord) + Len(g.buf.trd) <= g.pos
      /\ g.st # "load" => g.buf = NoReports
  BY <1>2, StartSend
<1>11. PICK m \in Nat, at \in Nat, top \in Nat :
         /\ m = Len(g.buf.ord) + Len(g.buf.trd) /\ at = g.pos /\ top = Len(ctp.log) /\ m <= at /\ at <= top
  BY <1>2, StartSend
<1>6. e \in Events
  <2>1. g.pos + 1 \in 1..Len(ctp.log) /\ ctp.log \in Seq(Events)
    BY <1>1, <1>5 DEF Counterparty
  <2>. QED  BY <1>3, <2>1, ElementOfSeq
<1>7. Emission(x, 0) /\ x.g.pos = g.pos + 1 /\ x.g.buf = g.buf
  <2>1. Emission(x, 0) /\ x.g.pos = X0.g.pos + 1 /\ x.g.buf = X0.g.buf
    BY <1>3, <1>5, AdvanceKeeps
  <2>. QED  BY <1>5, <2>1
<1>8. Emission(y, 3) /\ Buffers(y.g, g.st)
  <2>1. CASE g.st = "load"
    <3>1. y = buffer_report(x, e)
      BY <1>3, <2>1
    <3>2. /\ Emission(y, 0) /\ y.g.pos = x.g.pos
          /\ Len(y.g.buf.ord) + Len(y.g.buf.trd) = Len(x.g.buf.ord) + Len(x.g.buf.trd) + 1
      BY <1>6, <1>7, <3>1, BufferKeeps, ZenonT(60)
    <3>3. Emission(y, 3)
      BY <3>2, EmissionMore
    <3>4. Len(y.g.buf.ord) + Len(y.g.buf.trd) = m + 1 /\ y.g.pos = g.pos + 1
      BY <1>7, <1>11, <3>2
    <3>5. m + 1 <= g.pos + 1 /\ g.pos + 1 <= Len(ctp.log)
      <4>1. at < top
        BY <1>1, <1>11, Zenon
      <4>2. m + 1 <= at + 1 /\ at + 1 <= top
        BY <1>11, <4>1, Between, Zenon
      <4>. QED  BY <1>11, <4>1, <4>2
    <3>6. Buffers(y.g, g.st)
      BY <2>1, <3>4, <3>5 DEF Buffers
    <3>. QED  BY <3>3, <3>6
  <2>2. CASE g.st # "load"
    <3>1. y = OnReport(x, e, FALSE)
      BY <1>3, <2>2
    <3>2. Emission(y, 0 + 3) /\ Quiet(x, y)
      BY <1>5, <1>6, <1>7, <3>1, OnReportKeeps
    <3>3. Buffers(y.g, g.st)
      <4>1. y.g.pos = g.pos + 1 /\ y.g.buf = NoReports /\ NoReports = g.buf
        BY <1>5, <1>7, <2>2, <3>2 DEF Quiet
      <4>2. m <= g.pos + 1 /\ g.pos + 1 <= Len(ctp.log)
        <5>1. at < top
          BY <1>1, <1>11, Zenon
        <5>2. m <= at + 1 /\ at + 1 <= top
          BY <1>11, <5>1, Between, Zenon
        <5>. QED  BY <1>11, <5>2
      <4>. QED  BY <1>11, <4>1, <4>2 DEF Buffers
    <3>. QED  BY <3>2, <3>3
  <2>. QED  BY <2>1, <2>2
<1>9. 3 <= Len(ctp.log) * 3 + 5
  BY <1>5
<1>10. g.st \in {"conn", "login", "load", "flush", "ready", "off"} /\ ctp' \in Counterparty /\ ctp'.log = ctp.log
  BY <1>1, <1>5
<1>. QED
  BY <1>1, <1>2, <1>4, <1>8, <1>9, <1>10, SendKeeps

LEMMA FinishKeeps ==
    ASSUME IInv, FinishQueries
    PROVE  IInv'
<1>1. g.st = "load" /\ Room /\ db' = db /\ sdk' = sdk /\ user' = user /\ ctp' = ctp /\ alloc' = alloc
  BY DEF FinishQueries
<1>2. g.logged
  BY <1>1 DEF IInv, GatewayInv
<1>3. PICK posOk \in BOOLEAN :
        Send(replay_buffered_reports(
               IF posOk THEN push_account(apply_position_query(X0, ctp.held)) ELSE X0), "flush")
  BY DEF FinishQueries
<1>4. PICK h, a, b, x, y : h = ctp.held /\ a = apply_position_query(X0, h) /\ b = push_account(a)
                        /\ x = (IF posOk THEN b ELSE X0) /\ y = replay_buffered_reports(x)
  OBVIOUS
<1>5. Send(y, "flush")
  BY <1>3, <1>4
<1>6. /\ g \in Sessions /\ Emission(X0, 0) /\ X0.g = g
      /\ ctp \in Counterparty /\ Len(ctp.log) \in Nat /\ g.pos \in Nat /\ g.pos <= Len(ctp.log)
      /\ Len(g.buf.ord) \in Nat /\ Len(g.buf.trd) \in Nat
      /\ Len(g.buf.ord) + Len(g.buf.trd) <= g.pos
  BY <1>2, StartSend
<1>7. Emission(x, 2) /\ Quiet(X0, x)
  <2>1. h \in BOOLEAN
    BY <1>4, <1>6 DEF Counterparty
  <2>2. Emission(a, 0 + 1) /\ Quiet(X0, a)
    BY <1>4, <1>6, <2>1, ApplyPositionQuery
  <2>3. Emission(b, 1 + 1) /\ Quiet(a, b)
    <3>1. Emission(a, 1)
      BY <2>2
    <3>. QED  BY <1>4, <1>6, <3>1, PushAccount
  <2>4. Emission(X0, 2)
    BY <1>6, EmissionMore
  <2>. QED  BY <1>4, <2>2, <2>3, <2>4 DEF Quiet
<1>8. x.g.pos = g.pos /\ x.g.buf = g.buf
  BY <1>6, <1>7 DEF Quiet
<1>9. PICK m \in Nat, at \in Nat, top \in Nat :
        /\ m = Len(g.buf.ord) + Len(g.buf.trd) /\ at = g.pos /\ top = Len(ctp.log) /\ m <= at /\ at <= top
  BY <1>2, StartSend
<1>10. Emission(y, 2 + 2 * m) /\ y.g.pos = g.pos /\ y.g.buf = NoReports
  <2>1. /\ Emission(y, 2 + 2 * (Len(x.g.buf.ord) + Len(x.g.buf.trd)))
        /\ y.g.pos = x.g.pos /\ y.g.buf = NoReports
    <3>1. y = replay_buffered_reports(x)
      BY <1>4
    <3>. QED  BY <1>6, <1>7, <3>1, ReplayKeeps
  <2>. QED  BY <1>8, <1>9, <2>1
<1>11. PICK n \in Nat : n = 2 + 2 * m
  OBVIOUS
<1>12. n <= Len(ctp.log) * 3 + 5
  <2>1. m <= top
    BY <1>9, Between, Zenon
  <2>2. 2 + 2 * m <= top * 3 + 5
    BY <2>1, Between, Zenon
  <2>. QED  BY <1>9, <1>11, <2>2
<1>13. Buffers(y.g, "flush")
  <2>1. Len(NoReports.ord) + Len(NoReports.trd) <= g.pos
    BY <1>6 DEF NoReports
  <2>2. g.pos <= Len(ctp.log)
    BY <1>6
  <2>. QED  BY <1>10, <2>1, <2>2 DEF Buffers
<1>14. Emission(y, n)
  BY <1>10, <1>11
<1>. QED
  BY <1>1, <1>2, <1>5, <1>6, <1>12, <1>13, <1>14, SendKeeps

LEMMA PollKeeps ==
    ASSUME IInv, PositionPoll
    PROVE  IInv'
<1>1. g.st = "ready" /\ Room /\ db' = db /\ sdk' = sdk /\ user' = user /\ ctp' = ctp /\ alloc' = alloc
  BY DEF PositionPoll
<1>2. g.logged
  BY <1>1 DEF IInv, GatewayInv
<1>3. PICK h, y : h = ctp.held /\ y = apply_position_query(X0, h)
  OBVIOUS
<1>4. Send(y, "ready")
  BY <1>3 DEF PositionPoll
<1>5. /\ g \in Sessions /\ Emission(X0, 0) /\ X0.g = g
      /\ ctp \in Counterparty /\ Len(ctp.log) \in Nat /\ g.pos <= Len(ctp.log)
      /\ Len(g.buf.ord) + Len(g.buf.trd) <= g.pos
      /\ g.st # "load" => g.buf = NoReports
  BY <1>2, StartSend
<1>6. Emission(y, 0 + 1) /\ Quiet(X0, y)
  <2>1. h \in BOOLEAN
    BY <1>3, <1>5 DEF Counterparty
  <2>. QED  BY <1>3, <1>5, <2>1, ApplyPositionQuery
<1>7. Emission(y, 1) /\ y.g.pos = g.pos /\ y.g.buf = g.buf
  BY <1>5, <1>6 DEF Quiet
<1>8. Buffers(y.g, "ready")
  BY <1>1, <1>5, <1>7 DEF Buffers
<1>9. 1 <= Len(ctp.log) * 3 + 5
  BY <1>5
<1>. QED
  BY <1>1, <1>2, <1>4, <1>5, <1>7, <1>8, <1>9, SendKeeps

-----------------------------------------------------------------------------
(* The strategy orders, and CTP's front turns an order down. *)

LEMMA OwnFacts ==
    ASSUME IInv, NEW r \in Own
    PROVE  /\ r \in Nat /\ ctp \in Counterparty
           /\ \A a \in {ctp.asked, ctp.asked \cup {r}}, l \in {ctp.live, ctp.live \ {r}, ctp.live \cup {r}} :
                \A c : c = [ctp EXCEPT !.asked = a, !.live = l] => c \in Counterparty /\ c.log = ctp.log
<1>1. r \in Nat
  BY OrdersAssumption
<1>2. ctp \in Counterparty /\ ctp.live \in SUBSET Own /\ ctp.asked \in SUBSET Own
  BY DEF IInv, GatewayInv, Counterparty
<1>3. ASSUME NEW a \in SUBSET Own, NEW l \in SUBSET Own, NEW c, c = [ctp EXCEPT !.asked = a, !.live = l]
      PROVE  c \in Counterparty /\ c.log = ctp.log
  BY <1>2, <1>3 DEF Counterparty
<1>4. {ctp.asked, ctp.asked \cup {r}} \subseteq SUBSET Own
  BY <1>2
<1>5. {ctp.live, ctp.live \ {r}, ctp.live \cup {r}} \subseteq SUBSET Own
  BY <1>2
<1>. QED
  BY <1>1, <1>2, <1>3, <1>4, <1>5

LEMMA NothingBuffered ==
    ASSUME IInv, g.logged, NEW x, Quiet(X0, x)
    PROVE  Buffers(x.g, g.st)
<1>1. /\ X0.g = g /\ g.pos <= Len(ctp.log) /\ Len(g.buf.ord) + Len(g.buf.trd) <= g.pos
      /\ g.st # "load" => g.buf = NoReports
  BY StartSend
<1>. QED
  BY <1>1 DEF Buffers, Quiet

LEMMA RspKeeps ==
    ASSUME IInv, NEW r \in Own, on_rsp_order_insert(r)
    PROVE  IInv'
<1>1. g.st = "ready" /\ Room /\ db' = db /\ sdk' = sdk /\ user' = user /\ alloc' = alloc
      /\ ctp' = [ctp EXCEPT !.live = @ \ {r}]
  BY DEF on_rsp_order_insert
<1>2. g.logged
  BY <1>1 DEF IInv, GatewayInv
<1>3. PICK x, y : x = reject_order(X0, r) /\ y = reject_order(x, r)
  OBVIOUS
<1>4. Send(y, "ready")
  BY <1>1, <1>3 DEF on_rsp_order_insert, on_err_rtn_order_insert
<1>5. g \in Sessions /\ Emission(X0, 0) /\ ctp \in Counterparty /\ Len(ctp.log) \in Nat
  BY <1>2, StartSend
<1>6. r \in Nat /\ ctp' \in Counterparty /\ ctp'.log = ctp.log
  <2>1. ctp' = [ctp EXCEPT !.asked = ctp.asked, !.live = ctp.live \ {r}]
    BY <1>1, <1>5 DEF Counterparty
  <2>. QED  BY <2>1, OwnFacts
<1>7. Emission(x, 1) /\ Quiet(X0, x)
  <2>1. Emission(x, 0 + 1) /\ Quiet(X0, x)
    BY <1>3, <1>5, <1>6, RejectKeeps
  <2>. QED  BY <2>1
<1>8. Emission(y, 2) /\ Quiet(x, y)
  <2>1. Emission(y, 1 + 1) /\ Quiet(x, y)
    BY <1>3, <1>5, <1>6, <1>7, RejectKeeps
  <2>. QED  BY <2>1
<1>9. Buffers(y.g, "ready")
  <2>1. Quiet(X0, y)
    BY <1>7, <1>8 DEF Quiet
  <2>. QED  BY <1>1, <1>2, <2>1, NothingBuffered
<1>10. 2 <= Len(ctp.log) * 3 + 5
  BY <1>5
<1>. QED
  BY <1>1, <1>2, <1>4, <1>6, <1>8, <1>9, <1>10, SendKeeps

(* The order is on its way to CTP. *)
Placed(x, r) == [x EXCEPT !.g.map = Put(@, r, r), !.g.mine = @ \cup {r}]

LEMMA PlacedKeeps ==
    ASSUME NEW x, NEW n \in Nat, Emission(x, n), NEW r \in Nat, NEW y, y = Placed(x, r)
    PROVE  Emission(y, n) /\ Quiet(x, y)
<1>1. /\ x \in Works /\ x.g \in Sessions /\ x.fresh \in Nat /\ x.g.map \in Partial(Nat)
      /\ x.g.mine \in SUBSET Nat
  BY WorkFields DEF Emission
<1>2. PICK f, m : f = Put(x.g.map, r, r) /\ m = x.g.mine \cup {r}
  OBVIOUS
<1>3. f \in Partial(Nat) /\ m \in SUBSET Nat
  BY <1>1, <1>2, PartialFacts
<1>4. PICK s : s = [x.g EXCEPT !.map = f, !.mine = m]
  OBVIOUS
<1>5. /\ s \in Sessions /\ s.seq = x.g.seq /\ s.logged = x.g.logged /\ s.keys = x.g.keys
      /\ s.lastO = x.g.lastO /\ s.lastT = x.g.lastT /\ s.pos = x.g.pos /\ s.buf = x.g.buf
  BY <1>1, <1>3, <1>4 DEF Sessions
<1>6. y = [x EXCEPT !.g = s]
  BY <1>2, <1>4 DEF Placed
<1>7. y = Work(s, x.out, x.tasks, x.fresh)
  BY <1>1, <1>6, WithSession
<1>8. y.g = s
  BY <1>7, WorkIs
<1>9. Emission(y, n)
  BY <1>1, <1>5, <1>7, SilentKeeps
<1>. QED
  BY <1>5, <1>8, <1>9 DEF Quiet

LEMMA PlaceKeeps ==
    ASSUME IInv, g.logged, NEW r \in Own, place_order(r), Room, g.st # "flush",
           db' = db, sdk' = sdk, user' = user, alloc' = alloc
    PROVE  IInv'
<1>1. g \in Sessions /\ Emission(X0, 0) /\ ctp \in Counterparty /\ Len(ctp.log) \in Nat
  BY StartSend
<1>2. g.st \in {"conn", "login", "load", "flush", "ready", "off"}
  <2>1. g.st # "none" /\ g.st \in {"none", "conn", "login", "load", "flush", "ready", "off"}
    BY <1>1 DEF IInv, GatewayInv, Sessions
  <2>. QED  BY <2>1
<1>3. r \in Nat
  BY OwnFacts
<1>4. PICK st \in {"conn", "login", "load", "flush", "ready", "off"} : st = g.st
  BY <1>2
<1>5. CASE Send(reject_order(X0, r), g.st) /\ ctp' = [ctp EXCEPT !.asked = @ \cup {r}]
  <2>1. PICK y : y = reject_order(X0, r)
    OBVIOUS
  <2>2. ctp' \in Counterparty /\ ctp'.log = ctp.log
    <3>1. ctp' = [ctp EXCEPT !.asked = ctp.asked \cup {r}, !.live = ctp.live]
      BY <1>1, <1>5 DEF Counterparty
    <3>. QED  BY <3>1, OwnFacts
  <2>3. Emission(y, 0 + 1) /\ Quiet(X0, y)
    BY <1>1, <1>3, <2>1, RejectKeeps
  <2>4. Emission(y, 1) /\ Buffers(y.g, st) /\ Send(y, st)
    BY <1>4, <1>5, <2>1, <2>3, NothingBuffered
  <2>5. 1 <= Len(ctp.log) * 3 + 5
    BY <1>1
  <2>. QED  BY <2>2, <2>4, <2>5, SendKeeps
<1>6. CASE /\ Send([X0 EXCEPT !.g.map = Put(@, r, r), !.g.mine = @ \cup {r}], g.st)
           /\ ctp' = [ctp EXCEPT !.asked = @ \cup {r}, !.live = @ \cup {r}]
  <2>1. PICK y : y = Placed(X0, r)
    OBVIOUS
  <2>2. ctp' \in Counterparty /\ ctp'.log = ctp.log
    <3>1. ctp' = [ctp EXCEPT !.asked = ctp.asked \cup {r}, !.live = ctp.live \cup {r}]
      BY <1>1, <1>6 DEF Counterparty
    <3>. QED  BY <3>1, OwnFacts
  <2>3. Emission(y, 0) /\ Quiet(X0, y)
    BY <1>1, <1>3, <2>1, PlacedKeeps
  <2>4. Buffers(y.g, st) /\ Send(y, st)
    <3>1. Send(y, st)
      BY <1>4, <1>6, <2>1 DEF Placed
    <3>. QED  BY <1>4, <2>3, <3>1, NothingBuffered
  <2>5. 0 <= Len(ctp.log) * 3 + 5
    BY <1>1
  <2>. QED  BY <2>2, <2>3, <2>4, <2>5, SendKeeps
<1>. QED
  BY <1>5, <1>6 DEF place_order

(* Without a session the seq is the allocator's, and nothing waits for the writer. *)
LEMMA NoSessionKeeps ==
    ASSUME IInv, ~Backlog, NEW r \in Own, NoSession(r), g.st = "none", Room,
           db' = db, sdk' = sdk, user' = user, ctp' = [ctp EXCEPT !.asked = @ \cup {r}]
    PROVE  IInv'
<1>1. PICK n : n = Max({alloc, query_max_seq(db)})
  OBVIOUS
<1>2. PICK rec : rec = OrderRec(r, TRUE, 0, 0, 0, n + 1)
  OBVIOUS
<1>3. /\ pq = <<>> /\ alloc' = rec.seq /\ g' = g /\ fresh' = fresh /\ Write(<<rec>>) /\ pq' = Append(pq, rec)
  BY <1>1, <1>2 DEF NoSession, Settled
<1>4. StoreInv /\ GatewayInv /\ g \in Sessions /\ alloc \in Nat /\ fresh \in Nat /\ ctp \in Counterparty
      /\ ch \in Seq(Frames) /\ db \in SUBSET Rows /\ IsFiniteSet(db) /\ ~g.logged
  BY DEF IInv, GatewayInv, ChannelInv, StoreInv
<1>5. query_max_seq(db) \in Nat /\ n \in Nat /\ query_max_seq(db) <= n
  BY <1>1, <1>4, MaxSeq, MaxOfTwo
<1>6. r \in Nat /\ ctp' \in Counterparty /\ ctp'.log = ctp.log
  <2>1. ctp' = [ctp EXCEPT !.asked = ctp.asked \cup {r}, !.live = ctp.live]
    BY <1>4 DEF Counterparty
  <2>. QED  BY <2>1, OwnFacts
<1>7. rec \in Record({"ord"}) /\ rec.k = "ord" /\ rec.seq = n + 1
  BY <1>2, <1>5, <1>6 DEF OrderRec, Record
<1>8. rec \in Tasks /\ rec \in Frames
  BY <1>7 DEF Record, Tasks, Frames, Reports, RowKinds
<1>9. pq' = <<rec>>
  BY <1>3
<1>10. pq' \in Seq(Tasks) /\ TradesIn(pq') = {} /\ DOMAIN pq' = {1} /\ pq'[1] = rec
  <2>1. PICK s : s = <<rec>>
    OBVIOUS
  <2>2. s \in Seq(Tasks) /\ TradesIn(s) = {}
    BY <1>7, <1>8, <2>1, OneFrame
  <2>3. DOMAIN s = {1} /\ s[1] = rec
    BY <2>1
  <2>4. pq' = s
    BY <1>9, <2>1
  <2>5. TradesIn(pq') = TradesIn(s)
    BY <2>4
  <2>. QED  BY <2>2, <2>3, <2>4, <2>5
<1>11. Issued' = Trades(db) /\ Issued = Trades(db) /\ Issued' \subseteq db'
  BY <1>3, <1>10, EmptyQueue DEF Issued
<1>12. StoreInv'
  <2>1. CommitsInSeqOrder'
    <3>1. rec.seq > query_max_seq(db)
      BY <1>5, <1>7
    <3>. QED  BY <1>10, <3>1 DEF CommitsInSeqOrder
  <2>. QED  BY <1>4, <1>10, <1>11, <2>1 DEF StoreInv
<1>13. GatewayInv'
  <2>1. alloc' \in Nat
    BY <1>3, <1>5, <1>7
  <2>. QED  BY <1>3, <1>4, <1>6, <2>1 DEF GatewayInv
<1>14. <<rec>> \in Seq(Frames) /\ TradesIn(<<rec>>) = {} /\ Len(<<rec>>) = 1
  BY <1>7, <1>8, OneFrame
<1>15. PICK w \in Seq(Frames) : ch' = ch \o w /\ (w = <<>> \/ w = <<rec>>)
  BY <1>3, <1>4, <1>14, WriteIs
<1>16. TradesIn(w) = {} /\ Len(w) <= 1
  BY <1>14, <1>15, NoTrades
<1>17. Bounded'
  <2>1. 1 <= Len(ctp'.log) * 3 + 5
    BY <1>6 DEF Counterparty
  <2>. QED  BY <1>4, <1>6, <1>15, <1>16, <2>1, RoomFor
<1>. QED
  BY <1>11, <1>12, <1>13, <1>15, <1>16, <1>17, GatewayStep DEF Behind

LEMMA OrderReqKeeps ==
    ASSUME IInv, ~Backlog, ~EarlyOrders, NEW r \in Own, on_order_req(r)
    PROVE  IInv'
<1>1. Room /\ g.st # "flush" /\ (g.logged \/ g.st = "none") /\ db' = db /\ sdk' = sdk /\ user' = user
  BY DEF on_order_req
<1>2. CASE g.st = "none"
  <2>1. NoSession(r) /\ ctp' = [ctp EXCEPT !.asked = @ \cup {r}]
    BY <1>2 DEF on_order_req
  <2>. QED  BY <1>1, <1>2, <2>1, NoSessionKeeps
<1>3. CASE g.st # "none"
  <2>1. alloc' = alloc /\ place_order(r) /\ g.logged
    BY <1>1, <1>3 DEF on_order_req
  <2>. QED  BY <1>1, <2>1, PlaceKeeps
<1>. QED
  BY <1>2, <1>3

-----------------------------------------------------------------------------
(* The steps of CTP. *)

LEMMA CtpStep ==
    ASSUME IInv, ctp' \in Counterparty, Len(ctp.log) <= Len(ctp'.log), db' = db, ch' = ch, sdk' = sdk,
           user' = user, g' = g, alloc' = alloc, fresh' = fresh, pq' = pq
    PROVE  IInv'
<1>1. GatewayInv /\ g \in Sessions /\ alloc \in Nat /\ ch \in Seq(Frames) /\ ctp \in Counterparty
  BY DEF IInv, GatewayInv, ChannelInv
<1>2. PICK s : s = g
  OBVIOUS
<1>3. s \in Sessions /\ g' = s /\ SessionIn(s) /\ s.pos <= Len(ctp.log)
  BY <1>1, <1>2 DEF SessionIn, GatewayInv
<1>4. Remembers
  BY DEF Remembers
<1>5. GatewayInv' /\ SessionGrows
  BY <1>1, <1>3, <1>4, MemoryStays
<1>6. <<>> \in Seq(Frames) /\ ch' = ch \o <<>> /\ TradesIn(<<>>) = {} /\ Added(<<>>)
  BY <1>1, ConcatEmptySeq, NoTrades DEF Added
<1>7. Bounded'
  <2>1. PICK a \in Nat, b \in Nat, m \in Nat, n \in Nat :
          a = Len(ctp.log) /\ b = Len(ctp'.log) /\ m = MaxChannel /\ n = Len(ch)
    BY <1>1, BoundsAssumption DEF Counterparty
  <2>2. a <= b
    BY <2>1, Zenon
  <2>3. n <= m + a * 3 + 4
    BY <2>1 DEF IInv
  <2>4. n <= m + b * 3 + 4
    BY <2>2, <2>3
  <2>5. Len(ch') = n
    BY <2>1
  <2>. QED  BY <2>1, <2>4, <2>5 DEF Bounded
<1>. QED
  BY <1>5, <1>6, <1>7, QueueStays DEF Behind

LEMMA LogGrows ==
    ASSUME NEW s \in Seq(Events), NEW e \in Events
    PROVE  Append(s, e) \in Seq(Events) /\ Len(s) <= Len(Append(s, e))
BY AppendProperties, LenProperties

LEMMA ReportKeeps ==
    ASSUME IInv, NEW r \in Refs, Report(r)
    PROVE  IInv'
<1>1. /\ ctp \in Counterparty /\ ctp.log \in Seq(Events) /\ ctp.v \in [Refs -> Nat] /\ ctp.t \in [Refs -> Nat]
  BY DEF IInv, GatewayInv, Counterparty
<1>2. PICK t \in {ctp.t[r], ctp.t[r] + 1} \ {0} :
        ctp' = [ctp EXCEPT !.v[r] = @ + 1, !.t[r] = t,
                           !.log = Append(@, [k |-> "ord", ref |-> r, v |-> ctp.v[r] + 1, t |-> t])]
  BY DEF Report
<1>3. PICK e, p, q, l : /\ e = [k |-> "ord", ref |-> r, v |-> ctp.v[r] + 1, t |-> t]
                        /\ p = [ctp.v EXCEPT ![r] = @ + 1] /\ q = [ctp.t EXCEPT ![r] = t]
                        /\ l = Append(ctp.log, e)
  OBVIOUS
<1>4. t \in Nat /\ ctp.v[r] + 1 \in Nat
  BY <1>1
<1>5. e \in Events
  BY <1>3, <1>4 DEF Events
<1>6. p \in [Refs -> Nat] /\ q \in [Refs -> Nat]
  BY <1>1, <1>3, <1>4
<1>7. l \in Seq(Events) /\ Len(ctp.log) <= Len(l)
  BY <1>1, <1>3, <1>5, LogGrows
<1>8. PICK c : c = [ctp EXCEPT !.v = p, !.t = q, !.log = l]
  OBVIOUS
<1>9. c \in Counterparty /\ c.log = l
  BY <1>1, <1>6, <1>7, <1>8 DEF Counterparty
<1>10. ctp' = c
  BY <1>1, <1>2, <1>3, <1>8 DEF Counterparty
<1>11. db' = db /\ ch' = ch /\ sdk' = sdk /\ user' = user /\ g' = g /\ alloc' = alloc /\ fresh' = fresh /\ pq' = pq
  BY DEF Report
<1>. QED
  BY <1>7, <1>9, <1>10, <1>11, CtpStep

LEMMA TradeKeeps ==
    ASSUME IInv, NEW r \in Refs, Trade(r)
    PROVE  IInv'
<1>1. /\ ctp \in Counterparty /\ ctp.log \in Seq(Events) /\ ctp.trades \in Nat
  BY DEF IInv, GatewayInv, Counterparty
<1>2. PICK e, l : e = [k |-> "trd", ref |-> r, id |-> ctp.trades + 1] /\ l = Append(ctp.log, e)
  OBVIOUS
<1>3. e \in Events
  BY <1>1, <1>2 DEF Events
<1>4. l \in Seq(Events) /\ Len(ctp.log) <= Len(l)
  BY <1>1, <1>2, <1>3, LogGrows
<1>9. PICK n \in Nat : n = ctp.trades + 1
  BY <1>1
<1>5. PICK c : c = [ctp EXCEPT !.trades = n, !.held = TRUE, !.log = l]
  OBVIOUS
<1>6. c \in Counterparty /\ c.log = l
  BY <1>1, <1>4, <1>5 DEF Counterparty
<1>7. ctp' = c
  BY <1>2, <1>5, <1>9 DEF Trade
<1>8. db' = db /\ ch' = ch /\ sdk' = sdk /\ user' = user /\ g' = g /\ alloc' = alloc /\ fresh' = fresh /\ pq' = pq
  BY DEF Trade
<1>. QED
  BY <1>4, <1>6, <1>7, <1>8, CtpStep

LEMMA VanishKeeps ==
    ASSUME IInv, PositionVanishes
    PROVE  IInv'
<1>1. ctp \in Counterparty /\ Len(ctp.log) \in Nat
  BY DEF IInv, GatewayInv, Counterparty
<1>2. PICK c : c = [ctp EXCEPT !.held = FALSE]
  OBVIOUS
<1>3. c \in Counterparty /\ c.log = ctp.log
  BY <1>1, <1>2 DEF Counterparty
<1>4. ctp' = c /\ db' = db /\ ch' = ch /\ sdk' = sdk /\ user' = user /\ g' = g /\ alloc' = alloc /\ fresh' = fresh
      /\ pq' = pq
  BY <1>2 DEF PositionVanishes
<1>5. Len(ctp.log) <= Len(ctp'.log)
  BY <1>1, <1>3, <1>4
<1>. QED
  BY <1>3, <1>4, <1>5, CtpStep

-----------------------------------------------------------------------------
(* The writer commits the first task of the queue. *)

TradeIn(x) == IF x.k = "trd" THEN {x} ELSE {}

Splits(s, x, t) ==
  /\ x = s[1] /\ 1 \in DOMAIN s /\ x \in Tasks /\ t \in Seq(Tasks)
  /\ \A i \in DOMAIN t : i \in Nat /\ 1 < i + 1 /\ i + 1 \in DOMAIN s /\ t[i] = s[i + 1]
  /\ TradesIn(s) = TradesIn(t) \cup TradeIn(x)

LEMMA FirstTask ==
    ASSUME NEW s \in Seq(Tasks), s # <<>>
    PROVE  Splits(s, Head(s), Tail(s))
<1>11. PICK t : t = Tail(s)
  OBVIOUS
<1>1. Len(s) \in Nat /\ Len(s) >= 1 /\ DOMAIN s = 1..Len(s)
  BY EmptySeq
<1>2. Head(s) = s[1] /\ 1 \in DOMAIN s /\ s[1] \in Tasks
  BY <1>1
<1>3. t \in Seq(Tasks) /\ Len(t) = Len(s) - 1 /\ \A i \in 1..Len(t) : t[i] = s[i + 1]
  BY <1>11, HeadTailProperties
<1>4. DOMAIN t = 1..Len(t)
  BY <1>3
<1>5. \A i \in DOMAIN t : i \in Nat /\ 1 < i + 1 /\ i + 1 \in DOMAIN s /\ t[i] = s[i + 1]
  BY <1>1, <1>3, <1>4
<1>6. \A i \in DOMAIN s : i = 1 \/ \E j \in DOMAIN t : t[j] = s[i]
  <2>1. ASSUME NEW i \in 1..Len(s), i # 1 PROVE i - 1 \in DOMAIN t /\ t[i - 1] = s[i]
    <3>1. i - 1 \in 1..Len(t) /\ (i - 1) + 1 = i
      BY <1>1, <1>3, <2>1
    <3>2. t[i - 1] = s[(i - 1) + 1]
      BY <1>3, <3>1
    <3>. QED  BY <1>4, <3>1, <3>2
  <2>. QED  BY <1>1, <2>1
<1>7. ASSUME NEW r \in TradesIn(s) PROVE r \in TradesIn(t) \/ (r = s[1] /\ s[1].k = "trd")
  <2>1. PICK i \in DOMAIN s : r = s[i] /\ s[i].k = "trd"
    BY <1>7 DEF TradesIn
  <2>2. i = 1 \/ \E j \in DOMAIN t : t[j] = s[i]
    BY <1>6
  <2>. QED  BY <2>1, <2>2 DEF TradesIn
<1>8. ASSUME NEW r \in TradesIn(t) PROVE r \in TradesIn(s)
  <2>1. PICK i \in DOMAIN t : r = t[i] /\ t[i].k = "trd"
    BY <1>8 DEF TradesIn
  <2>2. \E j \in DOMAIN s : s[j] = t[i]
    BY <1>5
  <2>. QED  BY <2>1, <2>2 DEF TradesIn
<1>9. s[1].k = "trd" => s[1] \in TradesIn(s)
  BY <1>2 DEF TradesIn
<1>10. TradesIn(s) = TradesIn(t) \cup TradeIn(s[1])
  BY <1>7, <1>8, <1>9 DEF TradeIn
<1>. QED
  BY <1>2, <1>3, <1>5, <1>10, <1>11 DEF Splits

(* A row is written over by one of its key only: a trade is never replaced by another. *)
LEMMA UpsertFacts ==
    ASSUME NEW d \in SUBSET Rows, IsFiniteSet(d), NEW x \in Tasks, NEW e, e = Upsert(d, x),
           \A r \in Trades(d) : x.k = "trd" /\ r.id = x.id => r = x
    PROVE  /\ e \in SUBSET Rows /\ IsFiniteSet(e)
           /\ Trades(e) = Trades(d) \cup TradeIn(x)
           /\ \A r \in e : r \in d \/ (r = x /\ x.k # "del")
<1>1. CASE x.k = "del"
  <2>1. e = {r \in d : r.k # "pos"}
    BY <1>1 DEF Upsert
  <2>2. e \subseteq d /\ Trades(e) = Trades(d) /\ TradeIn(x) = {}
    BY <1>1, <2>1 DEF Trades, TradeIn
  <2>. QED  BY <1>1, <2>2, FS_Subset
<1>2. CASE x.k # "del"
  <2> DEFINE b == {r \in d : KeyOf(r) # KeyOf(x)}
  <2>1. e = b \cup {x}
    BY <1>2 DEF Upsert
  <2>2. b \subseteq d
    OBVIOUS
  <2>3. x \in Rows
    BY <1>2 DEF Tasks, Rows, Record
  <2>4. ASSUME NEW r \in Trades(d), r # x PROVE r \in b
    <3>1. r \in d /\ r.k = "trd"
      BY <2>4 DEF Trades
    <3>2. ASSUME KeyOf(r) = KeyOf(x) PROVE FALSE
      <4>1. r.k = x.k /\ r.id = x.id
        BY <3>2 DEF KeyOf
      <4>. QED  BY <2>4, <3>1, <4>1
    <3>. QED  BY <3>1, <3>2
  <2> HIDE DEF b
  <2>5. e \in SUBSET Rows
    BY <2>1, <2>2, <2>3
  <2>6. IsFiniteSet(e)
    <3>1. IsFiniteSet(b) /\ IsFiniteSet({x})
      BY <2>2, FS_Subset, FS_Singleton
    <3>. QED  BY <2>1, <3>1, FS_Union
  <2>7. Trades(e) = Trades(d) \cup TradeIn(x)
    <3>1. ASSUME NEW r \in Trades(e) PROVE r \in Trades(d) \/ (x.k = "trd" /\ r = x)
      BY <2>1, <2>2, <3>1 DEF Trades
    <3>2. ASSUME NEW r \in Trades(d) PROVE r \in Trades(e)
      BY <2>1, <2>4, <3>2 DEF Trades
    <3>3. x.k = "trd" => x \in Trades(e)
      BY <2>1 DEF Trades
    <3>. QED  BY <3>1, <3>2, <3>3 DEF TradeIn
  <2>8. \A r \in e : r \in d \/ (r = x /\ x.k # "del")
    BY <1>2, <2>1, <2>2
  <2>. QED  BY <2>5, <2>6, <2>7, <2>8
<1>. QED
  BY <1>1, <1>2

LEMMA CommitKeeps ==
    ASSUME IInv, Commit
    PROVE  IInv'
<1>1. /\ pq # <<>> /\ db' = Upsert(db, Head(pq)) /\ pq' = Tail(pq)
      /\ ch' = ch /\ sdk' = sdk /\ user' = user /\ ctp' = ctp /\ g' = g /\ alloc' = alloc /\ fresh' = fresh
  BY DEF Commit
<1>2. PICK s, t, d, e, x : s = pq /\ t = Tail(s) /\ d = db /\ x = Head(s) /\ e = Upsert(d, x)
  OBVIOUS
<1>3. pq' = t /\ db' = e
  BY <1>1, <1>2
<1>4. /\ s \in Seq(Tasks) /\ s # <<>> /\ d \in SUBSET Rows /\ IsFiniteSet(d)
      /\ ch \in Seq(Frames) /\ GatewayInv
  BY <1>1, <1>2 DEF IInv, StoreInv, ChannelInv
<1>5. /\ \A i \in DOMAIN s : s[i].k # "del" => s[i].seq > query_max_seq(d)
      /\ \A i, j \in DOMAIN s : s[i].k # "del" /\ s[j].k # "del" /\ i < j => s[i].seq < s[j].seq
  BY <1>2 DEF IInv, StoreInv, CommitsInSeqOrder
<1>6. /\ x = s[1] /\ 1 \in DOMAIN s /\ x \in Tasks /\ t \in Seq(Tasks)
      /\ \A i \in DOMAIN t : i \in Nat /\ 1 < i + 1 /\ i + 1 \in DOMAIN s /\ t[i] = s[i + 1]
      /\ TradesIn(s) = TradesIn(t) \cup TradeIn(x)
  <2>1. Splits(s, Head(s), Tail(s))
    BY <1>4, FirstTask
  <2>2. Splits(s, x, t)
    BY <1>2, <2>1
  <2>. QED  BY <2>2 DEF Splits
<1>7. /\ Issued = Trades(d) \cup TradesIn(s)
      /\ \A r, q \in Issued : r.id = q.id => r = q
      /\ \A r \in Issued : r.seq > 0
  BY <1>2 DEF IInv, StoreInv, Issued
<1>8. \A r \in Trades(d) : x.k = "trd" /\ r.id = x.id => r = x
  <2>1. x.k = "trd" => x \in Issued
    BY <1>6, <1>7 DEF TradeIn
  <2>2. \A r \in Trades(d) : r \in Issued
    BY <1>7
  <2>3. \A r, q \in Issued : r.id = q.id => r = q
    BY <1>7
  <2>. QED  BY <2>1, <2>2, <2>3, Zenon
<1>9. /\ e \in SUBSET Rows /\ IsFiniteSet(e)
      /\ Trades(e) = Trades(d) \cup TradeIn(x)
      /\ \A r \in e : r \in d \/ (r = x /\ x.k # "del")
  BY <1>2, <1>4, <1>6, <1>8, UpsertFacts
<1>10. Issued' = Issued
  <2>1. Issued' = Trades(e) \cup TradesIn(t)
    BY <1>3 DEF Issued
  <2>. QED  BY <1>6, <1>7, <1>9, <2>1
<1>11. /\ query_max_seq(d) \in Nat /\ query_max_seq(e) \in Nat
       /\ \A r \in d : r.seq <= query_max_seq(d) /\ r.seq \in Nat
  BY <1>4, <1>9, MaxSeq DEF Rows, Record
<1>12. x.seq \in Nat /\ \A i \in DOMAIN t : t[i].seq \in Nat
  <2>1. \A i \in DOMAIN t : t[i] \in Tasks
    BY <1>6, InSeq
  <2>. QED  BY <1>6, <2>1 DEF Tasks, Record
<1>13. ASSUME NEW i \in DOMAIN t, t[i].k # "del" PROVE t[i].seq > query_max_seq(e)
  <2>1. CASE x.k = "del"
    <3>1. \A r \in e : r.seq <= query_max_seq(d)
      BY <1>9, <1>11, <2>1
    <3>2. query_max_seq(e) <= query_max_seq(d)
      BY <1>9, <1>11, <3>1, NewestRow
    <3>3. t[i].seq > query_max_seq(d)
      BY <1>5, <1>6, <1>13
    <3>. QED  BY <1>11, <1>12, <3>2, <3>3
  <2>2. CASE x.k # "del"
    <3>1. x.seq > query_max_seq(d)
      BY <1>5, <1>6, <2>2
    <3>2. \A r \in e : r.seq <= x.seq
      BY <1>9, <1>11, <1>12, <3>1
    <3>3. query_max_seq(e) <= x.seq
      BY <1>9, <1>12, <3>2, NewestRow
    <3>4. x.seq < t[i].seq
      BY <1>5, <1>6, <1>13, <2>2
    <3>. QED  BY <1>11, <1>12, <3>3, <3>4
  <2>. QED  BY <2>1, <2>2
<1>14. ASSUME NEW i \in DOMAIN t, NEW j \in DOMAIN t, t[i].k # "del", t[j].k # "del", i < j
       PROVE  t[i].seq < t[j].seq
  <2>1. i + 1 \in DOMAIN s /\ j + 1 \in DOMAIN s /\ i + 1 < j + 1 /\ t[i] = s[i + 1] /\ t[j] = s[j + 1]
    BY <1>6, <1>14
  <2>. QED  BY <1>5, <1>14, <2>1
<1>15. CommitsInSeqOrder'
  BY <1>3, <1>13, <1>14 DEF CommitsInSeqOrder
<1>16. StoreInv'
  BY <1>3, <1>6, <1>7, <1>9, <1>10, <1>15 DEF StoreInv
<1>17. GatewayInv'
  <2>1. ASSUME g.logged
        PROVE  /\ \A r \in e : r.seq <= g.seq
               /\ \A i \in DOMAIN t : t[i].seq <= g.seq
               /\ \A r \in Issued : r.id \in g.keys
               /\ LatestInv(g)
    <3>1. /\ \A r \in d : r.seq <= g.seq
          /\ \A i \in DOMAIN s : s[i].seq <= g.seq
          /\ \A r \in Issued : r.id \in g.keys
          /\ LatestInv(g)
      BY <1>2, <1>4, <2>1 DEF GatewayInv
    <3>2. x.seq <= g.seq /\ \A i \in DOMAIN t : t[i].seq <= g.seq
      BY <1>6, <3>1
    <3>. QED  BY <1>9, <3>1, <3>2
  <2>2. LatestInv(g)' <=> LatestInv(g)
    BY <1>1, <1>10 DEF LatestInv
  <2>. QED  BY <1>1, <1>3, <1>4, <1>10, <2>1, <2>2 DEF GatewayInv
<1>18. \A r \in Issued : r \in db => r \in db'
  <2>1. \A r \in Issued : r \in d => r \in Trades(d)
    <3>1. \A r \in Issued : r.k = "trd"
      BY IssuedType DEF IInv
    <3>. QED  BY <3>1 DEF Trades
  <2>2. Trades(d) \subseteq e
    BY <1>9 DEF Trades
  <2>. QED  BY <1>2, <1>3, <2>1, <2>2
<1>19. <<>> \in Seq(Frames) /\ ch' = ch \o <<>> /\ TradesIn(<<>>) = {} /\ Added(<<>>)
  BY <1>1, <1>4, ConcatEmptySeq, NoTrades DEF Added
<1>20. SessionGrows
  <2>1. g.seq \in Nat
    BY <1>4 DEF GatewayInv, Sessions
  <2>. QED  BY <1>1, <2>1 DEF SessionGrows
<1>21. Bounded'
  BY <1>1 DEF IInv, Bounded
<1>. QED
  BY <1>1, <1>10, <1>16, <1>17, <1>18, <1>19, <1>20, <1>21, GatewayStep DEF Behind

-----------------------------------------------------------------------------
(* The invariant. *)

LEMMA FirstRow ==
    ASSUME NEW d, d = {OrderRec(0, FALSE, 1, 1, 0, 1)}
    PROVE  d \subseteq Rows /\ IsFiniteSet(d) /\ Trades(d) = {} /\ \A r \in d : r.seq = 1
<1>1. PICK r : r = OrderRec(0, FALSE, 1, 1, 0, 1)
  OBVIOUS
<1>2. r \in Rows /\ r.k = "ord" /\ r.seq = 1
  BY <1>1 DEF OrderRec, Rows, Record, RowKinds
<1>3. d = {r}
  BY <1>1
<1>. QED
  BY <1>2, <1>3, FS_Singleton DEF Trades

LEMMA StartKeeps ==
    ASSUME Init
    PROVE  IInv
<1>1. /\ db = {OrderRec(0, FALSE, 1, 1, 0, 1)} /\ ch = <<>> /\ sdk = NewContext /\ user = NoUser
      /\ g = NewSession /\ alloc = 0 /\ fresh = 0 /\ pq = <<>>
      /\ ctp = [log |-> <<>>, v |-> [r \in Refs |-> 0], t |-> [r \in Refs |-> 0], trades |-> 0,
                held |-> FALSE, live |-> {}, asked |-> {}]
  BY DEF Init
<1>2. db \subseteq Rows /\ IsFiniteSet(db) /\ Trades(db) = {}
  BY <1>1, FirstRow
<1>3. <<>> \in Seq(Tasks) /\ <<>> \in Seq(Frames) /\ <<>> \in Seq(Events) /\ DOMAIN <<>> = {}
  OBVIOUS
<1>4. Issued = {}
  BY <1>1, <1>2, NoTrades DEF Issued
<1>5. StoreInv
  <2>1. CommitsInSeqOrder
    BY <1>1, <1>3 DEF CommitsInSeqOrder
  <2>. QED  BY <1>1, <1>2, <1>3, <1>4, <2>1 DEF StoreInv
<1>6. ctp \in Counterparty /\ Len(ctp.log) = 0
  <2>1. PICK z \in [Refs -> Nat] : z = [r \in Refs |-> 0]
    OBVIOUS
  <2>2. ctp = [log |-> <<>>, v |-> z, t |-> z, trades |-> 0, held |-> FALSE, live |-> {}, asked |-> {}]
    BY <1>1, <2>1
  <2>. QED  BY <1>3, <2>2 DEF Counterparty
<1>7. GatewayInv
  <2>1. /\ NewSession \in Sessions /\ SessionIn(NewSession) /\ NewSession.pos = 0 /\ ~NewSession.logged
    BY NewSessionFacts
  <2>2. g \in Sessions /\ SessionIn(g) /\ g.pos = 0 /\ ~g.logged
    BY <1>1, <2>1
  <2>3. g.pos <= Len(ctp.log)
    BY <1>6, <2>2
  <2>. QED  BY <1>1, <1>6, <2>2, <2>3 DEF GatewayInv, SessionIn
<1>8. ChannelInv
  BY <1>1, <1>3, <1>4, NoTrades DEF ChannelInv, Guarded
<1>9. EmptyContext(NewContext) /\ NewContext.up = "closed" /\ NewContext = [NewContext EXCEPT !.up = "closed"]
  BY NewContextEmpty
<1>10. StrategyInv(sdk, user, ch)
  BY <1>1, <1>5, <1>9, NewContextKeeps, NoUserFacts
<1>11. IdleInv
  BY <1>1, <1>9 DEF IdleInv
<1>12. ScanInv
  BY <1>1, <1>9 DEF ScanInv, EmptyContext
<1>13. Len(ch) <= MaxChannel + Len(ctp.log) * 3 + 4
  <2>1. Len(ch) = 0 /\ MaxChannel \in Nat
    BY <1>1, BoundsAssumption
  <2>2. 0 <= MaxChannel + 0 * 3 + 4
    BY <2>1
  <2>. QED  BY <1>6, <2>1, <2>2
<1>. QED
  BY <1>5, <1>7, <1>8, <1>10, <1>11, <1>12, <1>13 DEF IInv

LEMMA SdkKeeps ==
    ASSUME IInv, Sdk \/ dz_next_event
    PROVE  IInv'
<1>1. GatewayUnchanged
  BY DEF Sdk, dz_next_event
<1>2. \/ OpenReader \/ load_all_watermarks \/ dz_release
      \/ NextEventEntry \/ NextEventFrame \/ NextEventReturn
  BY DEF Sdk, dz_next_event
<1>. QED
  BY <1>1, <1>2, OpenReaderKeeps, LoadWatermarksKeeps, ReleaseKeeps, NextEventEntryKeeps,
     NextEventFrameKeeps, NextEventReturnKeeps

LEMMA StepKeeps ==
    ASSUME IInv, ~Backlog, ~EarlyOrders, [Next]_vars
    PROVE  IInv'
<1>1. CASE connect_account_by_id \/ Reconnect \/ on_rsp_user_login \/ on_settlement_confirmed
  BY <1>1, ConnectKeeps, ReconnectKeeps, LoginKeeps, SettlementKeeps
<1>2. CASE OnRtn \/ FinishQueries \/ repush_last_records \/ PositionPoll
  BY <1>2, OnRtnKeeps, FinishKeeps, RepushKeeps, PollKeeps
<1>3. CASE on_front_disconnected \/ disconnect_account_by_id \/ Crash
  BY <1>3, FrontKeeps, DisconnectKeeps, CrashKeeps
<1>4. CASE \E r \in Own : on_order_req(r) \/ on_rsp_order_insert(r)
  BY <1>4, OrderReqKeeps, RspKeeps
<1>5. CASE (\E r \in Refs : Report(r) \/ Trade(r)) \/ PositionVanishes
  BY <1>5, ReportKeeps, TradeKeeps, VanishKeeps
<1>6. CASE Commit
  BY <1>6, CommitKeeps
<1>7. CASE Sdk \/ dz_next_event
  BY <1>7, SdkKeeps
<1>8. CASE vars' = vars
  <2>1. /\ db' = db /\ ch' = ch /\ sdk' = sdk /\ user' = user /\ ctp' = ctp /\ g' = g /\ alloc' = alloc
        /\ fresh' = fresh /\ pq' = pq
    BY <1>8 DEF vars
  <2>2. ctp' \in Counterparty /\ Len(ctp.log) <= Len(ctp'.log)
    <3>1. ctp \in Counterparty /\ Len(ctp.log) \in Nat
      BY DEF IInv, GatewayInv, Counterparty
    <3>. QED  BY <2>1, <3>1
  <2>. QED  BY <2>1, <2>2, CtpStep
<1>. QED
  BY <1>1, <1>2, <1>3, <1>4, <1>5, <1>6, <1>7, <1>8 DEF Next

LEMMA Structure ==
    ASSUME IInv
    PROVE  StructureOK
<1>1. g \in Sessions /\ alloc \in Nat /\ fresh \in Nat /\ CommitsInSeqOrder
      /\ Len(ch) <= MaxChannel + Len(ctp.log) * 3 + 4
  BY DEF IInv, StoreInv, GatewayInv
<1>2. sdk \in Contexts /\ Len(sdk.replay) <= ReplaySlots /\ UserType(user)
  BY DEF IInv, StrategyInv, ContextType
<1>3. g.st \in {"none", "conn", "login", "load", "flush", "ready", "off"} /\ g.seq \in Nat
  BY <1>1 DEF Sessions
<1>4. sdk.scan \in BOOLEAN /\ sdk.gap.attempts \in 0..kGapRetryMax
  BY <1>2 DEF Contexts, Gaps
<1>5. user.lost \subseteq {"exhausted", "overflow", "reset"}
  BY <1>2 DEF UserType
<1>. QED
  BY <1>1, <1>2, <1>3, <1>4, <1>5 DEF StructureOK, TypeOK

LEMMA Always ==
    ASSUME ~Backlog, ~EarlyOrders
    PROVE  Spec => []IInv
<1>1. Init => IInv
  BY StartKeeps
<1>2. IInv /\ [Next]_vars => IInv'
  BY StepKeeps
<1>. QED
  BY <1>1, <1>2, PTL DEF Spec

(* While no session starts over rows that wait to be committed, and the
   strategy orders only in a session that has logged in or has gone, the
   gateway, the database and the gate of the SDK stay within their bounds,
   and load_trading_day, the allocator and the counter of the session give
   seqs in an order that the writer keeps: every task of the queue is newer
   than every committed row. *)
THEOREM RowsFillInSeqOrder ==
    ASSUME ~Backlog, ~EarlyOrders
    PROVE  Spec => []StructureOK
<1>1. IInv => StructureOK
  BY Structure
<1>. QED
  BY <1>1, Always, PTL

(* Then no trade comes to the strategy twice, over replays of the private
   stream, logins, gaps and their backfill, the replay ring, frames deferred
   while a gap waits, restarts of the strategy and resets of the gate: the
   half "never twice" of "exactly once" (td-data-sync.md, section 5). *)
THEOREM TradesComeOnce ==
    ASSUME ~Backlog, ~EarlyOrders
    PROVE  Spec => []TradeOnce
<1>1. IInv => TradeOnce
  <2>1. SUFFICES ASSUME IInv PROVE TradeOnce
    OBVIOUS
  <2>2. \A i \in DOMAIN user.trd : user.trd[i] = 1
    BY <2>1 DEF IInv, StrategyInv, TradesInv
  <2>. QED  BY <2>2 DEF TradeOnce
<1>. QED
  BY <1>1, Always, PTL
=============================================================================
