---------------------------- MODULE TradeStore ----------------------------
(***************************************************************************)
(* The records of one account for one trading day, and the trade database  *)
(* they are kept in.  Every record carries the seq the gateway gave it:    *)
(* orders, trades, positions and funds share one counter per account.      *)
(*                                                                         *)
(* An order record is a version v of an order (0: REJECTED by the gateway  *)
(* or by CTP's front) with its update_time t and n, the number of trades   *)
(* that its avg_price accounts for (every trade changes the average).  The *)
(* account has one position and one funds row.                             *)
(***************************************************************************)
EXTENDS Naturals, Sequences, FiniteSets, SequencesExt

OrderRec(oid, own, v, t, n, seq) ==
  [k |-> "ord", oid |-> oid, own |-> own, v |-> v, t |-> t, n |-> n, id |-> 0, seq |-> seq]
TradeRec(oid, own, id, seq) ==
  [k |-> "trd", oid |-> oid, own |-> own, v |-> 0, t |-> 0, n |-> 0, id |-> id, seq |-> seq]
PositionRec(seq) ==
  [k |-> "pos", oid |-> 0, own |-> FALSE, v |-> 0, t |-> 0, n |-> 0, id |-> 0, seq |-> seq]
AccountRec(seq) ==
  [k |-> "acc", oid |-> 0, own |-> FALSE, v |-> 0, t |-> 0, n |-> 0, id |-> 0, seq |-> seq]

\* The unique key of a row in its table.
KeyOf(r) == <<r.k, r.oid, r.id>>

\* The upsert of a task: the row of the same key is replaced, seq and all.
\* "del" is PositionRebuild with an empty group: the position rows of the day go.
Upsert(d, task) ==
  IF task.k = "del" THEN {r \in d : r.k # "pos"}
  ELSE {r \in d : KeyOf(r) # KeyOf(task)} \cup {task}

\* MAX(seq) over the four tables.
query_max_seq(d) == Max({0} \cup {r.seq : r \in d})

BySeq(S) ==
  LET n == Cardinality(S)
  IN  CHOOSE s \in [1..n -> S] :
        \A i, j \in 1..n : i < j => s[i] # s[j] /\ s[i].seq <= s[j].seq

\* The rows of one table with from <= seq <= to, in seq order.
db_query_seq_range(d, table, from, to) ==
  BySeq({r \in d : r.k = table /\ from <= r.seq /\ r.seq <= to})
=============================================================================
