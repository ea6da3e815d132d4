------------------------- MODULE TdGateway_proofs -------------------------
(***************************************************************************)
(* Two parts of the td gateway, one after the other: its persistence       *)
(* writer and the positions of an account.                                 *)
(*                                                                         *)
(* The writer loses, repeats and reorders nothing, and its flush barrier   *)
(* does not lie, for every number of tasks, rows and failures of the       *)
(* database.  NothingLost alone is not inductive enough for the barrier: a *)
(* token that leaves pending_flushes_ must have been in a committed batch, *)
(* which needs the numbering of the tasks (Numbered), where the writer is  *)
(* when it gives tokens back (SignalInv) and that the main thread never    *)
(* waits while it stops the writer (ControlInv).                           *)
(*                                                                         *)
(* The positions follow the counter's trades, for every set of orders,     *)
(* exchange and number of trades, lost connections and failed queries: see *)
(* the second part.                                                        *)
(***************************************************************************)
EXTENDS PersistWriter, TdPosition, SequenceTheorems, FiniteSetTheorems, WellFoundedInduction, TLAPS

\* The position of a task among the accepted ones is its number.
Numbered == \A i \in 1..Len(accepted) : accepted[i].seq = i

\* Which phases of the two threads go together.
ControlInv ==
    /\ wr = "off" <=> main \in {"new", "opened"}
    /\ main \in {"new", "opened", "run", "wait"} => ~shutdown
    /\ main = "flush" /\ shutdown => tok = 0
    /\ main \in {"stop", "down", "gone", "killed"} => shutdown
    /\ wr # "off" /\ ~shutdown => running
    /\ wr \in {"final", "last", "exit", "done"} => shutdown

\* A token the main thread holds is pending or was committed.
TokenInv ==
    /\ 0 \notin pending
    /\ main \in {"flush", "wait"} => tok \in pending \/ tok <= Len(committed)

\* The batch whose tokens are being given back is in the database.
SignalInv ==
    wr = "signal" => \A i \in 1..Len(batch) : batch[i].seq <= Len(committed)

\* The writer leaves its loop with work left only after it has reported a failure.
DrainInv ==
    /\ wr \in {"retry", "backoff", "final", "last"} => failing
    /\ wr \in {"exit", "done"} => failing \/ (batch = <<>> /\ queue = <<>>)

IInv == /\ TypeOK
        /\ NothingLost
        /\ Numbered
        /\ ControlInv
        /\ TokenInv
        /\ SignalInv
        /\ DrainInv
        /\ FlushMeansCommitted

USE DEF Broken, kMaxCorruptionRebuilds, Ops

-----------------------------------------------------------------------------
(* Facts about sequences *)

\* What the invariant says of the three parts of accepted.
LEMMA Parts ==
    ASSUME TypeOK, NothingLost, NEW b \in Seq(Tasks), b = InHand
    PROVE  /\ Len(accepted) = Len(committed) + Len(b) + Len(queue)
           /\ Len(committed) \in Nat /\ Len(b) \in Nat /\ Len(queue) \in Nat
           /\ Len(accepted) \in Nat
           /\ \A i \in 1..Len(b) : b[i] = accepted[Len(committed) + i]
<1>1. committed \o b \in Seq(Tasks) /\ Len(committed \o b) = Len(committed) + Len(b)
  BY ConcatProperties DEF TypeOK
<1>2. accepted = (committed \o b) \o queue
  BY DEF NothingLost
<1>3. Len(accepted) = Len(committed \o b) + Len(queue)
  BY <1>1, <1>2, ConcatProperties DEF TypeOK
<1>4. Len(committed) \in Nat /\ Len(b) \in Nat /\ Len(queue) \in Nat /\ Len(accepted) \in Nat
  BY DEF TypeOK
<1>5. ASSUME NEW i \in 1..Len(b) PROVE b[i] = accepted[Len(committed) + i]
  <2>1. (committed \o b)[Len(committed) + i] = b[i]
    BY <1>4, ConcatProperties DEF TypeOK
  <2>2. accepted[Len(committed) + i] = (committed \o b)[Len(committed) + i]
    BY <1>1, <1>2, <1>4, ConcatProperties DEF TypeOK
  <2>. QED
    BY <2>1, <2>2
<1>. QED
  BY <1>1, <1>3, <1>4, <1>5

\* The batch or the empty sequence.
LEMMA InHandType == TypeOK => InHand \in Seq(Tasks)
BY DEF TypeOK, InHand

-----------------------------------------------------------------------------
(* Each action preserves the invariant *)

\* Putting the parts together.
LEMMA IInvParts ==
    TypeOK' /\ NothingLost' /\ Numbered' /\ ControlInv' /\ TokenInv' /\ SignalInv'
    /\ DrainInv' /\ FlushMeansCommitted' => IInv'
BY DEF IInv

\* A gateway that has just started satisfies the invariant.
LEMMA InitInv == Init => IInv
<1>. SUFFICES ASSUME Init PROVE IInv
  OBVIOUS
<1>1. TypeOK
  <2>1. <<>> \in Seq(Tasks)
    OBVIOUS
  <2>2. NoRows \in [Keys -> Nat]
    BY DEF NoRows
  <2>3. running \in BOOLEAN /\ shutdown \in BOOLEAN /\ connected \in BOOLEAN
        /\ failing \in BOOLEAN
    BY Zenon DEF Init
  <2>4. pending \subseteq Nat /\ failed \subseteq Nat
    BY DEF Init
  <2>5. /\ main \in {"new", "opened"} /\ wr = "off"
        /\ tok \in Nat /\ acked \in Nat /\ pos \in Nat \ {0}
        /\ rebuilds \in 0..3 /\ damages \in Nat /\ fileStart \in Nat
        /\ disk \in {"absent", "good", "foreign"}
    BY DEF Init
  <2>6. /\ queue \in Seq(Tasks) /\ batch \in Seq(Tasks)
        /\ accepted \in Seq(Tasks) /\ committed \in Seq(Tasks)
        /\ work \in [Keys -> Nat] /\ table \in [Keys -> Nat]
    BY <2>1, <2>2 DEF Init
  <2>. QED
    BY <2>3, <2>4, <2>5, <2>6 DEF TypeOK
<1>2. NothingLost
  BY DEF Init, NothingLost, InHand
<1>3. Numbered /\ ControlInv /\ TokenInv /\ SignalInv /\ DrainInv /\ FlushMeansCommitted
  BY DEF Init, Numbered, ControlInv, TokenInv, SignalInv, DrainInv, FlushMeansCommitted
<1>. QED
  BY <1>1, <1>2, <1>3 DEF IInv

\* A step that leaves the tasks where they are keeps their order.
LEMMA TasksKept ==
    ASSUME IInv, UNCHANGED <<queue, batch, accepted, committed>>,
           wr = "signal" <=> wr' = "signal"
    PROVE  NothingLost' /\ Numbered'
BY DEF IInv, NothingLost, InHand, Numbered

\* A step that also leaves the threads' phases and the tokens alone keeps all but types.
LEMMA PhasesKept ==
    ASSUME IInv,
           UNCHANGED <<queue, batch, accepted, committed, wr, main, tok, running, shutdown,
                       pending, acked, failing>>,
           TypeOK'
    PROVE  IInv'
<1>1. NothingLost' /\ Numbered'
  BY TasksKept
<1>2. ControlInv' /\ TokenInv' /\ SignalInv' /\ DrainInv' /\ FlushMeansCommitted'
  BY DEF IInv, ControlInv, TokenInv, SignalInv, DrainInv, FlushMeansCommitted
<1>. QED
  BY <1>1, <1>2, IInvParts

\* A new task keeps order and numbering.
LEMMA TaskAdded ==
    ASSUME IInv, NEW t \in Tasks, t.seq = Len(accepted) + 1,
           queue' = Append(queue, t), accepted' = Append(accepted, t),
           UNCHANGED <<batch, committed, wr>>
    PROVE  /\ NothingLost' /\ Numbered'
           /\ queue' \in Seq(Tasks) /\ accepted' \in Seq(Tasks)
<1>1. InHand \in Seq(Tasks) /\ committed \in Seq(Tasks) /\ queue \in Seq(Tasks)
      /\ accepted \in Seq(Tasks)
  BY InHandType DEF IInv, TypeOK
<1>2. committed \o InHand \in Seq(Tasks)
  BY <1>1, ConcatProperties
<1>3. Append((committed \o InHand) \o queue, t) = (committed \o InHand) \o Append(queue, t)
  <2>. DEFINE c == committed \o InHand
  <2>0. c \in Seq(Tasks) /\ queue \in Seq(Tasks)
    BY <1>1, <1>2
  <2>. HIDE DEF c
  <2>. DEFINE m == Len(c)
              n == Len(queue)
              u == Append(queue, t)
              l == c \o queue
              r == c \o u
  <2>1. m \in Nat /\ n \in Nat
    BY <2>0
  <2>2. u \in Seq(Tasks) /\ Len(u) = n + 1 /\ u[n + 1] = t /\ \A i \in 1..n : u[i] = queue[i]
    BY <2>0
  <2>3. l \in Seq(Tasks) /\ Len(l) = m + n
        /\ \A i \in 1..(m + n) : l[i] = IF i <= m THEN c[i] ELSE queue[i - m]
    BY <2>0, ConcatProperties
  <2>. HIDE DEF u
  <2>4. r \in Seq(Tasks) /\ Len(r) = m + (n + 1)
        /\ \A i \in 1..(m + (n + 1)) : r[i] = IF i <= m THEN c[i] ELSE u[i - m]
    <3>1. r \in Seq(Tasks) /\ Len(r) = m + Len(u)
          /\ \A i \in 1..(m + Len(u)) : r[i] = IF i <= m THEN c[i] ELSE u[i - m]
      BY <2>0, <2>2, ConcatProperties
    <3>. QED
      BY <2>2, <3>1
  <2>5. Append(l, t) \in Seq(Tasks) /\ Len(Append(l, t)) = m + n + 1
        /\ Append(l, t)[m + n + 1] = t
        /\ \A i \in 1..(m + n) : Append(l, t)[i] = l[i]
    BY <2>3
  <2>. HIDE DEF m, n, l, r
  <2>6. ASSUME NEW i \in 1..(m + n + 1) PROVE Append(l, t)[i] = r[i]
    <3>1. CASE i <= m
      BY <2>1, <2>3, <2>4, <2>5, <3>1
    <3>2. CASE i > m /\ i <= m + n
      <4>1. i - m \in 1..n /\ i \in 1..(m + n) /\ i \in 1..(m + (n + 1)) /\ ~(i <= m)
        BY <2>1, <3>2
      <4>2. Append(l, t)[i] = queue[i - m]
        BY <2>3, <2>5, <4>1
      <4>3. r[i] = u[i - m]
        BY <2>4, <4>1
      <4>. QED
        BY <2>2, <4>1, <4>2, <4>3
    <3>3. CASE i = m + n + 1
      <4>1. i \in 1..(m + (n + 1)) /\ ~(i <= m) /\ i - m = n + 1
        BY <2>1, <3>3
      <4>2. r[i] = u[n + 1]
        BY <2>4, <4>1
      <4>. QED
        BY <2>2, <2>5, <3>3, <4>2
    <3>4. i <= m \/ (i > m /\ i <= m + n) \/ i = m + n + 1
      BY <2>1
    <3>. QED
      BY <3>1, <3>2, <3>3, <3>4
  <2>7. Append(l, t) = r
    BY <2>1, <2>4, <2>5, <2>6, SeqEqual
  <2>. QED
    BY <2>7 DEF l, r, u
<1>4. NothingLost'
  BY <1>3 DEF IInv, NothingLost, InHand
<1>5. Numbered'
  BY <1>1 DEF IInv, Numbered
<1>. QED
  BY <1>1, <1>4, <1>5

\* A new file holds no row: every key is at number 0.
LEMMA RowsType == NoRows \in [Keys -> Nat]
BY DEF NoRows

\* What an attempt to open the database does to the types of its variables.
LEMMA OpenTypes ==
    ASSUME TypeOK, TryOpenOk \/ TryOpenFail
    PROVE  /\ connected' \in BOOLEAN /\ failing' \in BOOLEAN
           /\ disk' \in {"absent", "good"} \cup Broken
           /\ table' \in [Keys -> Nat] /\ fileStart' \in Nat
<1>1. connected' \in BOOLEAN /\ failing' \in BOOLEAN
  BY Zenon DEF TypeOK, TryOpenOk, TryOpenFail, NoteFailure
<1>2. disk' \in {"absent", "good"} \cup Broken
  BY DEF TypeOK, TryOpenOk, TryOpenFail
<1>3. Len(committed) \in Nat
  BY DEF TypeOK
<1>4. table' \in [Keys -> Nat] /\ fileStart' \in Nat
  BY <1>3, RowsType DEF TypeOK, TryOpenOk, TryOpenFail, Quarantine
<1>. QED
  BY <1>1, <1>2, <1>4

\* TdPersistWriter::open: the first connect, before the thread exists.
LEMMA OpenInv == IInv /\ Open => IInv'
<1>. SUFFICES ASSUME IInv, Open PROVE IInv'
  OBVIOUS
<1>1. TypeOK'
  BY OpenTypes DEF IInv, TypeOK, Open
<1>2. NothingLost' /\ Numbered'
  BY TasksKept DEF Open
<1>3. ControlInv' /\ TokenInv' /\ SignalInv' /\ DrainInv' /\ FlushMeansCommitted'
  BY DEF IInv, Open, ControlInv, TokenInv, SignalInv, DrainInv, FlushMeansCommitted
<1>. QED
  BY <1>1, <1>2, <1>3, IInvParts

\* The writer thread starts in its loop with an empty queue behind it.
LEMMA StartWriterInv == IInv /\ StartWriter => IInv'
<1>. SUFFICES ASSUME IInv, StartWriter PROVE IInv'
  OBVIOUS
<1>1. TypeOK'
  BY DEF IInv, TypeOK, StartWriter
<1>2. NothingLost' /\ Numbered'
  BY TasksKept DEF StartWriter, IInv, ControlInv
<1>3. ControlInv' /\ TokenInv' /\ SignalInv' /\ DrainInv' /\ FlushMeansCommitted'
  BY DEF IInv, StartWriter, ControlInv, TokenInv, SignalInv, DrainInv, FlushMeansCommitted
<1>. QED
  BY <1>1, <1>2, <1>3, IInvParts

\* enqueue extends the queue and the accepted tasks by the same task; a
\* stopped writer drops it.
LEMMA EnqueueInv ==
    ASSUME IInv, NEW op \in Ops, NEW grp \in Groups \cup {NoGroup},
           NEW keys \in SUBSET Keys, Enqueue(op, grp, keys)
    PROVE  IInv'
<1>1. CASE shutdown
  <2>1. TypeOK'
    BY <1>1 DEF IInv, TypeOK, Enqueue
  <2>. QED
    BY <1>1, <2>1, PhasesKept DEF Enqueue
<1>2. CASE ~shutdown
  <2>. DEFINE t == [op |-> op, grp |-> grp, keys |-> keys, seq |-> Len(accepted) + 1]
  <2>1. t \in Tasks /\ t.seq = Len(accepted) + 1
    BY DEF IInv, TypeOK, Tasks
  <2>2. queue' = Append(queue, t) /\ accepted' = Append(accepted, t)
        /\ UNCHANGED <<batch, committed, wr>>
    BY <1>2 DEF Enqueue
  <2>3. NothingLost' /\ Numbered' /\ queue' \in Seq(Tasks) /\ accepted' \in Seq(Tasks)
    BY <2>1, <2>2, TaskAdded
  <2>4. TypeOK'
    BY <2>3 DEF IInv, TypeOK, Enqueue
  <2>5. ControlInv' /\ TokenInv' /\ SignalInv' /\ FlushMeansCommitted'
    BY DEF IInv, Enqueue, ControlInv, TokenInv, SignalInv, FlushMeansCommitted
  <2>6. DrainInv'
    BY <1>2 DEF IInv, Enqueue, ControlInv, DrainInv
  <2>. QED
    BY <2>3, <2>4, <2>5, <2>6, IInvParts
<1>. QED
  BY <1>1, <1>2

\* The same for the tasks the gateway makes.
LEMMA EnqueueTaskInv == IInv /\ EnqueueTask => IInv'
<1>. SUFFICES ASSUME IInv, EnqueueTask PROVE IInv'
  OBVIOUS
<1>1. ASSUME NEW k \in Keys, Enqueue("upsert", GroupOf[k], {k}) PROVE IInv'
  <2>1. GroupOf[k] \in Groups \cup {NoGroup} /\ {k} \in SUBSET Keys /\ "upsert" \in Ops
    BY PersistAssumption
  <2>. QED
    BY <1>1, <2>1, EnqueueInv
<1>2. ASSUME NEW g \in Groups, NEW ks \in SUBSET {k \in Keys : GroupOf[k] = g},
             Enqueue("rebuild", g, ks)
      PROVE  IInv'
  <2>1. ks \in SUBSET Keys /\ "rebuild" \in Ops
    OBVIOUS
  <2>. QED
    BY <1>2, <2>1, EnqueueInv
<1>. QED
  BY <1>1, <1>2 DEF EnqueueTask

\* enqueue_flush: the new token is pending and its number is its place.
LEMMA EnqueueFlushInv == IInv /\ EnqueueFlush => IInv'
<1>. SUFFICES ASSUME IInv, EnqueueFlush PROVE IInv'
  OBVIOUS
<1>1. CASE shutdown
  <2>1. TypeOK'
    <3>1. /\ main' = "flush" /\ tok' = 0
          /\ UNCHANGED <<wr, running, shutdown, queue, batch, pos, work, connected, rebuilds,
                         failing, pending, failed, disk, damages, table, fileStart,
                         accepted, committed, acked>>
      BY <1>1 DEF EnqueueFlush
    <3>. QED
      BY <3>1 DEF IInv, TypeOK
  <2>2. NothingLost' /\ Numbered'
    BY <1>1, TasksKept DEF EnqueueFlush
  <2>3. ControlInv' /\ TokenInv' /\ SignalInv' /\ DrainInv' /\ FlushMeansCommitted'
    BY <1>1 DEF IInv, TypeOK, EnqueueFlush, ControlInv, TokenInv, SignalInv, DrainInv,
               FlushMeansCommitted
  <2>. QED
    BY <2>1, <2>2, <2>3, IInvParts
<1>2. CASE ~shutdown
  <2>. DEFINE n == Len(accepted) + 1
              t == [op |-> "flush", grp |-> NoGroup, keys |-> {}, seq |-> n]
  <2>1. t \in Tasks /\ t.seq = Len(accepted) + 1 /\ n \in Nat
    BY DEF IInv, TypeOK, Tasks
  <2>2. queue' = Append(queue, t) /\ accepted' = Append(accepted, t)
        /\ UNCHANGED <<batch, committed, wr>> /\ tok' = n /\ pending' = pending \cup {n}
    BY <1>2 DEF EnqueueFlush
  <2>3. NothingLost' /\ Numbered' /\ queue' \in Seq(Tasks) /\ accepted' \in Seq(Tasks)
    BY <2>1, <2>2, TaskAdded
  <2>4. TypeOK'
    BY <2>1, <2>2, <2>3 DEF IInv, TypeOK, EnqueueFlush
  <2>5. ControlInv' /\ TokenInv' /\ SignalInv' /\ FlushMeansCommitted'
    BY <1>2, <2>2 DEF IInv, EnqueueFlush, ControlInv, TokenInv, SignalInv, FlushMeansCommitted
  <2>6. DrainInv'
    BY <1>2 DEF IInv, EnqueueFlush, ControlInv, DrainInv
  <2>. QED
    BY <2>3, <2>4, <2>5, <2>6, IInvParts
<1>. QED
  BY <1>1, <1>2

\* The three ways out of wait_flush, among them the one that reports success.
LEMMA WaitInv == IInv /\ (WaitFlush \/ WaitDone \/ WaitTimeout) => IInv'
<1>. SUFFICES ASSUME IInv, WaitFlush \/ WaitDone \/ WaitTimeout PROVE IInv'
  OBVIOUS
<1>1. TypeOK'
  <2>1. CASE WaitFlush
    <3>1. acked' \in Nat
      BY <2>1 DEF IInv, TypeOK, WaitFlush, Ack
    <3>2. main' \in {"wait", "run", "down"}
      BY <2>1 DEF WaitFlush, Back
    <3>. QED
      BY <2>1, <3>1, <3>2 DEF IInv, TypeOK, WaitFlush
  <2>2. CASE WaitDone
    <3>1. acked' \in Nat
      BY <2>2 DEF IInv, TypeOK, WaitDone, Ack
    <3>2. main' \in {"run", "down"}
      BY <2>2 DEF WaitDone, Back
    <3>. QED
      BY <2>2, <3>1, <3>2 DEF IInv, TypeOK, WaitDone
  <2>3. CASE WaitTimeout
    BY <2>3 DEF IInv, TypeOK, WaitTimeout, Back
  <2>. QED
    BY <2>1, <2>2, <2>3
<1>2. NothingLost' /\ Numbered'
  BY TasksKept DEF WaitFlush, WaitDone, WaitTimeout
<1>3. ControlInv'
  BY DEF IInv, TypeOK, WaitFlush, WaitDone, WaitTimeout, Back, ControlInv, TokenInv
<1>4. TokenInv' /\ SignalInv' /\ DrainInv'
  BY DEF IInv, WaitFlush, WaitDone, WaitTimeout, Back, TokenInv, SignalInv, DrainInv
<1>5. FlushMeansCommitted'
  BY DEF IInv, WaitFlush, WaitDone, WaitTimeout, Ack, TokenInv, FlushMeansCommitted
<1>. QED
  BY <1>1, <1>2, <1>3, <1>4, <1>5, IInvParts

\* stop, its return, its timeout and the end of the process.
LEMMA StopInv == IInv /\ (StopRequest \/ StopReturn \/ QuickExit \/ Exit) => IInv'
<1>. SUFFICES ASSUME IInv, StopRequest \/ StopReturn \/ QuickExit \/ Exit PROVE IInv'
  OBVIOUS
<1>1. TypeOK'
  <2>1. CASE StopRequest
    BY <2>1 DEF IInv, TypeOK, StopRequest
  <2>2. CASE StopReturn
    BY <2>2 DEF IInv, TypeOK, StopReturn
  <2>3. CASE QuickExit
    BY <2>3 DEF IInv, TypeOK, QuickExit
  <2>4. CASE Exit
    BY <2>4 DEF IInv, TypeOK, Exit
  <2>. QED
    BY <2>1, <2>2, <2>3, <2>4
<1>2. NothingLost' /\ Numbered'
  BY TasksKept DEF StopRequest, StopReturn, QuickExit, Exit
<1>3. ControlInv'
  BY DEF IInv, StopRequest, StopReturn, QuickExit, Exit, ControlInv
<1>4. TokenInv' /\ SignalInv' /\ DrainInv' /\ FlushMeansCommitted'
  BY DEF IInv, StopRequest, StopReturn, QuickExit, Exit, TokenInv, SignalInv, DrainInv,
         FlushMeansCommitted
<1>. QED
  BY <1>1, <1>2, <1>3, <1>4, IInvParts

\* What is appended to nothing, or nothing is appended to.
LEMMA EmptyEnds ==
    ASSUME TypeOK
    PROVE  /\ committed \o <<>> = committed
           /\ (committed \o batch) \o <<>> = committed \o batch
           /\ (committed \o queue) \o <<>> = committed \o queue
<1>1. committed \in Seq(Tasks) /\ batch \in Seq(Tasks) /\ queue \in Seq(Tasks)
  BY DEF TypeOK
<1>2. committed \o batch \in Seq(Tasks) /\ committed \o queue \in Seq(Tasks)
  BY <1>1, ConcatProperties
<1>. QED
  BY <1>1, <1>2, ConcatEmptySeq

\* ensure_connected: the file may be replaced, the queue and batch stay.
LEMMA ReconnectInv == IInv /\ Reconnect => IInv'
<1>. SUFFICES ASSUME IInv, Reconnect PROVE IInv'
  OBVIOUS
<1>1. wr' \in {"loop", "backoff"} /\ wr = "loop" /\ (TryOpenOk \/ TryOpenFail)
  BY DEF Reconnect
<1>2. TypeOK'
  BY <1>1, OpenTypes DEF IInv, TypeOK, Reconnect
<1>3. NothingLost' /\ Numbered'
  BY <1>1, TasksKept DEF Reconnect
<1>4. ControlInv' /\ TokenInv' /\ SignalInv' /\ FlushMeansCommitted'
  BY <1>1 DEF IInv, Reconnect, ControlInv, TokenInv, SignalInv, FlushMeansCommitted
<1>5. DrainInv'
  BY <1>1 DEF IInv, Reconnect, TryOpenFail, NoteFailure, DrainInv
<1>. QED
  BY <1>2, <1>3, <1>4, <1>5, IInvParts

\* The batch is swapped with the queue, whose order it keeps.
LEMMA TakeBatchInv == IInv /\ TakeBatch => IInv'
<1>. SUFFICES ASSUME IInv, TakeBatch PROVE IInv'
  OBVIOUS
<1>1. TypeOK'
  BY DEF IInv, TypeOK, TakeBatch
<1>2. NothingLost' /\ Numbered'
  <2>1. accepted = (committed \o <<>>) \o queue /\ wr # "signal" /\ wr' # "signal"
    BY DEF IInv, NothingLost, InHand, TakeBatch
  <2>2. accepted = committed \o queue
    BY <2>1, EmptyEnds DEF IInv
  <2>3. CASE batch' = queue /\ queue' = <<>>
    BY <2>1, <2>2, <2>3, EmptyEnds DEF IInv, NothingLost, InHand, Numbered, TakeBatch
  <2>4. CASE UNCHANGED <<batch, queue>>
    BY <2>1, <2>4 DEF IInv, NothingLost, InHand, Numbered, TakeBatch
  <2>. QED
    BY <2>3, <2>4 DEF TakeBatch
<1>3. ControlInv' /\ TokenInv' /\ SignalInv' /\ FlushMeansCommitted'
  BY DEF IInv, TakeBatch, Finished, ControlInv, TokenInv, SignalInv, FlushMeansCommitted
<1>4. DrainInv'
  BY DEF IInv, TakeBatch, Finished, DrainInv
<1>. QED
  BY <1>1, <1>2, <1>3, <1>4, IInvParts

\* BEGIN IMMEDIATE starts at the first task of the batch.
LEMMA BeginInv == IInv /\ Begin => IInv'
<1>. SUFFICES ASSUME IInv, Begin PROVE IInv'
  OBVIOUS
<1>1. TypeOK'
  BY DEF IInv, TypeOK, Begin
<1>2. NothingLost' /\ Numbered'
  BY TasksKept DEF Begin
<1>3. ControlInv' /\ TokenInv' /\ SignalInv' /\ DrainInv' /\ FlushMeansCommitted'
  BY DEF IInv, Begin, ControlInv, TokenInv, SignalInv, DrainInv, FlushMeansCommitted
<1>. QED
  BY <1>1, <1>2, <1>3, IInvParts

\* One task of the transaction, in the working copy of the rows only.
LEMMA ExecTaskInv == IInv /\ ExecTask => IInv'
<1>. SUFFICES ASSUME IInv, ExecTask PROVE IInv'
  OBVIOUS
<1>1. pos \in 1..Len(batch) /\ batch[pos] \in Tasks
  BY DEF IInv, TypeOK, ExecTask
<1>2. batch[pos].seq \in Nat
  BY <1>1 DEF Tasks
<1>3. work' \in [Keys -> Nat]
  BY <1>2 DEF IInv, TypeOK, ExecTask, Apply
<1>4. TypeOK'
  BY <1>3 DEF IInv, TypeOK, ExecTask
<1>. QED
  BY <1>4, PhasesKept DEF ExecTask

\* The batch becomes part of the committed tasks; its numbers are the new last ones.
LEMMA CommitOkInv == IInv /\ CommitOk => IInv'
<1>. SUFFICES ASSUME IInv, CommitOk PROVE IInv'
  OBVIOUS
<1>1. wr \in {"txn", "last"} /\ wr' = "signal" /\ InHand = batch /\ InHand' = <<>>
  BY DEF CommitOk, InHand
<1>2. /\ committed' = committed \o batch /\ committed' \in Seq(Tasks)
      /\ Len(committed') = Len(committed) + Len(batch)
  BY ConcatProperties DEF IInv, TypeOK, CommitOk
<1>3. TypeOK'
  BY <1>2 DEF IInv, TypeOK, CommitOk
<1>4. NothingLost' /\ Numbered'
  <2>1. accepted = (committed \o batch) \o queue
    BY <1>1 DEF IInv, NothingLost
  <2>2. (committed \o batch) \o <<>> = committed \o batch
    BY EmptyEnds DEF IInv
  <2>. QED
    BY <1>1, <2>1, <2>2 DEF IInv, NothingLost, Numbered, CommitOk
<1>5. Len(committed) \in Nat /\ Len(batch) \in Nat
  BY DEF IInv, TypeOK
<1>6. SignalInv'
  <2>1. \A i \in 1..Len(batch) : batch[i] = accepted[Len(committed) + i]
    BY <1>1, Parts DEF IInv, TypeOK
  <2>2. Len(accepted) = Len(committed) + Len(batch) + Len(queue) /\ Len(queue) \in Nat
    BY <1>1, Parts DEF IInv, TypeOK
  <2>3. ASSUME NEW i \in 1..Len(batch) PROVE batch[i].seq <= Len(committed')
    <3>1. Len(committed) + i \in 1..Len(accepted)
      BY <1>5, <2>2
    <3>2. batch[i].seq = Len(committed) + i
      BY <2>1, <3>1 DEF IInv, Numbered
    <3>. QED
      BY <1>2, <1>5, <3>2
  <2>. QED
    BY <2>3 DEF SignalInv, CommitOk
<1>7. FlushMeansCommitted' /\ TokenInv'
  BY <1>2, <1>5 DEF IInv, TypeOK, CommitOk, FlushMeansCommitted, TokenInv
<1>8. ControlInv' /\ DrainInv'
  BY <1>1 DEF IInv, CommitOk, ControlInv, DrainInv
<1>. QED
  BY <1>3, <1>4, <1>6, <1>7, <1>8, IInvParts

\* A failed transaction keeps its batch and reports the failure.
LEMMA CommitFailInv == IInv /\ CommitFail => IInv'
<1>. SUFFICES ASSUME IInv, CommitFail PROVE IInv'
  OBVIOUS
<1>1. UNCHANGED <<main, tok, running, shutdown, queue, batch, pos, work, pending, failed,
                  disk, damages, table, fileStart, accepted, committed, acked>>
  BY DEF CommitFail, Rollback
<1>2. \/ wr = "txn" /\ wr' = "retry" /\ failing' = TRUE
      \/ wr = "last" /\ wr' = "exit" /\ failing' = failing
  BY DEF CommitFail, NoteFailure
<1>3. TypeOK'
  <2>1. rebuilds' \in 0..kMaxCorruptionRebuilds
    BY DEF IInv, TypeOK, CommitFail, HandleCorruption
  <2>2. connected' \in BOOLEAN
    BY Zenon DEF IInv, TypeOK, CommitFail, HandleCorruption
  <2>3. failing' \in BOOLEAN
    BY <1>2, Zenon DEF IInv, TypeOK
  <2>4. wr' \in {"retry", "exit"}
    BY <1>2
  <2>. QED
    BY <1>1, <2>1, <2>2, <2>3, <2>4 DEF IInv, TypeOK
<1>4. NothingLost' /\ Numbered'
  BY <1>1, <1>2, TasksKept
<1>5. ControlInv' /\ TokenInv' /\ SignalInv' /\ DrainInv' /\ FlushMeansCommitted'
  BY <1>1, <1>2 DEF IInv, ControlInv, TokenInv, SignalInv, DrainInv, FlushMeansCommitted
<1>. QED
  BY <1>3, <1>4, <1>5, IInvParts

\* Only tokens of the committed batch are given back.
LEMMA SignalStepInv == IInv /\ Signal => IInv'
<1>. SUFFICES ASSUME IInv, Signal PROVE IInv'
  OBVIOUS
<1>1. TypeOK'
  <2>1. pending' \subseteq Nat
    BY DEF IInv, TypeOK, Signal
  <2>2. failing' \in BOOLEAN
    BY Zenon DEF Signal
  <2>. QED
    BY <2>1, <2>2 DEF IInv, TypeOK, Signal
<1>2. NothingLost' /\ Numbered'
  BY DEF IInv, Signal, NothingLost, InHand, Numbered
<1>3. TokenInv'
  <2>1. ASSUME NEW n \in Tokens(batch) PROVE n <= Len(committed)
    <3>1. PICK i \in DOMAIN batch : n = batch[i].seq
      BY DEF Tokens
    <3>2. i \in 1..Len(batch)
      BY DEF IInv, TypeOK
    <3>. QED
      BY <3>1, <3>2 DEF IInv, Signal, SignalInv
  <2>. QED
    BY <2>1 DEF IInv, Signal, TokenInv
<1>4. ControlInv' /\ SignalInv' /\ DrainInv' /\ FlushMeansCommitted'
  BY DEF IInv, Signal, ControlInv, SignalInv, DrainInv, FlushMeansCommitted
<1>. QED
  BY <1>1, <1>2, <1>3, <1>4, IInvParts

\* The steps that only move the writer thread to another phase.
LEMMA RetryInv == IInv /\ (LastUnconnected \/ RetryTimer \/ RetryStopped) => IInv'
<1>. SUFFICES ASSUME IInv, LastUnconnected \/ RetryTimer \/ RetryStopped PROVE IInv'
  OBVIOUS
<1>1. TypeOK'
  BY ZenonT(60) DEF IInv, TypeOK, LastUnconnected, RetryTimer, RetryStopped
<1>2. NothingLost' /\ Numbered'
  BY TasksKept DEF LastUnconnected, RetryTimer, RetryStopped
<1>3. ControlInv'
  BY DEF IInv, TypeOK, LastUnconnected, RetryTimer, RetryStopped, ControlInv
<1>4. TokenInv' /\ SignalInv' /\ DrainInv' /\ FlushMeansCommitted'
  BY DEF IInv, LastUnconnected, RetryTimer, RetryStopped, TokenInv, SignalInv, DrainInv,
         FlushMeansCommitted
<1>. QED
  BY <1>1, <1>2, <1>3, <1>4, IInvParts

\* The pending tokens get an exception; the main thread waits for none of them.
LEMMA WriterExitInv == IInv /\ WriterExit => IInv'
<1>. SUFFICES ASSUME IInv, WriterExit PROVE IInv'
  OBVIOUS
<1>1. TypeOK'
  <2>1. connected' \in BOOLEAN
    BY Zenon DEF WriterExit
  <2>. QED
    BY <2>1 DEF IInv, TypeOK, WriterExit
<1>2. NothingLost' /\ Numbered'
  BY TasksKept DEF WriterExit
<1>3. ControlInv'
  BY DEF IInv, WriterExit, ControlInv
<1>4. TokenInv'
  <2>1. Len(committed) \in Nat /\ tok \in Nat
    BY DEF IInv, TypeOK
  <2>. QED
    BY <2>1 DEF IInv, WriterExit, ControlInv, TokenInv
<1>5. SignalInv' /\ DrainInv' /\ FlushMeansCommitted'
  BY DEF IInv, WriterExit, SignalInv, DrainInv, FlushMeansCommitted
<1>. QED
  BY <1>1, <1>2, <1>3, <1>4, <1>5, IInvParts

\* Damage to the file touches nothing the threads hold.
LEMMA DamageFileInv == IInv /\ DamageFile => IInv'
<1>. SUFFICES ASSUME IInv, DamageFile PROVE IInv'
  OBVIOUS
<1>1. TypeOK'
  BY PersistAssumption DEF IInv, TypeOK, DamageFile
<1>. QED
  BY <1>1, PhasesKept DEF DamageFile

\* The invariant speaks of the variables only.
LEMMA StutterInv == IInv /\ UNCHANGED vars => IInv'
<1>. SUFFICES ASSUME IInv, UNCHANGED vars PROVE IInv'
  OBVIOUS
<1>1. TypeOK'
  BY DEF IInv, TypeOK, vars
<1>. QED
  BY <1>1, PhasesKept DEF vars

\* Every step preserves the invariant: one case for each action.
LEMMA NextInv == IInv /\ [Next]_vars => IInv'
<1>. SUFFICES ASSUME IInv, [Next]_vars PROVE IInv'
  OBVIOUS
<1>1. CASE MainNext
  BY <1>1, OpenInv, StartWriterInv, EnqueueTaskInv, EnqueueFlushInv, WaitInv, StopInv
     DEF MainNext
<1>2. CASE WriterNext
  BY <1>2, ReconnectInv, TakeBatchInv, BeginInv, ExecTaskInv, CommitOkInv, CommitFailInv,
     SignalStepInv, RetryInv, WriterExitInv DEF WriterNext
<1>3. CASE DamageFile
  BY <1>3, DamageFileInv
<1>4. CASE UNCHANGED vars
  BY <1>4, StutterInv
<1>. QED
  BY <1>1, <1>2, <1>3, <1>4 DEF Next

-----------------------------------------------------------------------------
(* The results *)

\* The inductive invariant holds in every state of the persistence writer.
THEOREM Invariance == Spec => []IInv
<1>. QED
  BY InitInv, NextInv, PTL DEF Spec

\* Type correctness.
THEOREM TypeCorrect == Spec => []TypeOK
<1>1. IInv => TypeOK
  BY DEF IInv
<1>. QED
  BY <1>1, Invariance, PTL

\* What enqueue accepted is committed, in hand or queued, in order and once, across
\* every failed transaction, lost connection and replaced file.
THEOREM NoTaskLost == Spec => []NothingLost
<1>1. IInv => NothingLost
  BY DEF IInv
<1>. QED
  BY <1>1, Invariance, PTL

\* wait_flush returns true only when everything queued before the token is committed,
\* although the token it looks up may already be gone from pending_flushes_.
THEOREM FlushIsBarrier == Spec => []FlushMeansCommitted
<1>1. IInv => FlushMeansCommitted
  BY DEF IInv
<1>. QED
  BY <1>1, Invariance, PTL

\* Both together, as the run checks them.
THEOREM DurableCorrect == Spec => []Durable
<1>1. NothingLost /\ FlushMeansCommitted => Durable
  BY DEF Durable
<1>. QED
  BY <1>1, NoTaskLost, FlushIsBarrier, PTL

\* The writer thread never ends silently with tasks left.
THEOREM DrainedUnlessFailing == Spec => []DrainedOrFailing
<1>1. IInv => DrainedOrFailing
  <2>. SUFFICES ASSUME IInv, wr = "done", ~failing PROVE committed = accepted
    BY DEF DrainedOrFailing
  <2>1. batch = <<>> /\ queue = <<>>
    BY DEF IInv, DrainInv
  <2>2. accepted = (committed \o <<>>) \o <<>>
    BY <2>1 DEF IInv, NothingLost, InHand
  <2>. QED
    BY <2>2, EmptyEnds DEF IInv
<1>. QED
  BY <1>1, Invariance, PTL

\* The structural invariant the runs check: the types, and no silent end.
THEOREM StructureCorrect == Spec => []StructureOK
<1>1. TypeOK /\ DrainedOrFailing => StructureOK
  BY DEF StructureOK
<1>. QED
  BY <1>1, TypeCorrect, DrainedUnlessFailing, PTL

-----------------------------------------------------------------------------
(* The rows of the file.  TableMatchesLog speaks of the committed tasks    *)
(* through a CHOOSE; the induction uses the relation RowIs over the        *)
(* accepted tasks instead, of which the committed ones are a prefix, and   *)
(* needs to know what the open transaction has done so far (WorkInv).      *)

\* v is what the tasks first+1 .. n of log leave in row k.
RowIs(k, v, log, first, n) ==
    \/ /\ v = 0
       /\ \A i \in first + 1 .. n : ~Touches(log[i], k)
    \/ \E i \in first + 1 .. n :
          /\ Touches(log[i], k)
          /\ \A j \in i + 1 .. n : ~Touches(log[j], k)
          /\ v = IF k \in log[i].keys THEN i ELSE 0

TableInv ==
    /\ fileStart <= Len(committed)
    /\ \A k \in Keys : RowIs(k, table[k], accepted, fileStart, Len(committed))

WorkInv ==
    wr \in {"txn", "last"} =>
        /\ pos <= Len(batch) + 1
        /\ \A k \in Keys : RowIs(k, work[k], accepted, fileStart, Len(committed) + pos - 1)

RowsInv == TableInv /\ WorkInv

\* A row without a task since the file was created is absent.
LEMMA RowEmpty ==
    ASSUME NEW k, NEW log, NEW n \in Nat
    PROVE  RowIs(k, 0, log, n, n)
BY DEF RowIs

\* Tasks after the n-th say nothing about the row.
LEMMA RowKept ==
    ASSUME NEW k, NEW v, NEW log, NEW log2, NEW first \in Nat, NEW n \in Nat,
           \A i \in 1..n : log2[i] = log[i],
           RowIs(k, v, log, first, n)
    PROVE  RowIs(k, v, log2, first, n)
<1>1. CASE v = 0 /\ \A i \in first + 1 .. n : ~Touches(log[i], k)
  BY <1>1 DEF RowIs
<1>2. ASSUME NEW i \in first + 1 .. n,
             Touches(log[i], k),
             \A j \in i + 1 .. n : ~Touches(log[j], k),
             v = IF k \in log[i].keys THEN i ELSE 0
      PROVE  RowIs(k, v, log2, first, n)
  <2>1. log2[i] = log[i] /\ \A j \in i + 1 .. n : log2[j] = log[j]
    OBVIOUS
  <2>. QED
    BY <1>2, <2>1 DEF RowIs
<1>. QED
  BY <1>1, <1>2 DEF RowIs

\* One more task: Apply gives the row what that task leaves in it.
LEMMA RowStep ==
    ASSUME NEW k \in Keys, NEW rows \in [Keys -> Nat], NEW log, NEW first \in Nat,
           NEW n \in Nat, first <= n,
           RowIs(k, rows[k], log, first, n),
           log[n + 1].seq = n + 1
    PROVE  RowIs(k, Apply(rows, log[n + 1])[k], log, first, n + 1)
<1>. DEFINE t == log[n + 1]
            v == Apply(rows, t)[k]
<1>1. v = IF k \in t.keys THEN n + 1
          ELSE IF t.op = "rebuild" /\ GroupOf[k] = t.grp THEN 0 ELSE rows[k]
  BY DEF Apply
<1>2. CASE Touches(t, k)
  <2>1. v = IF k \in log[n + 1].keys THEN n + 1 ELSE 0
    BY <1>1, <1>2 DEF Touches
  <2>2. n + 1 \in first + 1 .. n + 1 /\ \A j \in (n + 1) + 1 .. n + 1 : ~Touches(log[j], k)
    OBVIOUS
  <2>. QED
    BY <1>2, <2>1, <2>2 DEF RowIs
<1>3. CASE ~Touches(t, k)
  <2>1. v = rows[k]
    BY <1>1, <1>3 DEF Touches
  <2>2. CASE rows[k] = 0 /\ \A i \in first + 1 .. n : ~Touches(log[i], k)
    <3>1. \A i \in first + 1 .. n + 1 : i \in first + 1 .. n \/ i = n + 1
      OBVIOUS
    <3>. QED
      BY <1>3, <2>1, <2>2, <3>1 DEF RowIs
  <2>3. ASSUME NEW i \in first + 1 .. n,
               Touches(log[i], k),
               \A j \in i + 1 .. n : ~Touches(log[j], k),
               rows[k] = IF k \in log[i].keys THEN i ELSE 0
        PROVE  RowIs(k, v, log, first, n + 1)
    <3>1. i \in first + 1 .. n + 1
          /\ \A j \in i + 1 .. n + 1 : j \in i + 1 .. n \/ j = n + 1
      OBVIOUS
    <3>2. \A j \in i + 1 .. n + 1 : ~Touches(log[j], k)
      BY <1>3, <2>3, <3>1
    <3>. QED
      BY <2>1, <2>3, <3>1, <3>2 DEF RowIs
  <2>. QED
    BY <2>2, <2>3 DEF RowIs
<1>. QED
  BY <1>2, <1>3

LEMMA InitRows == Init => RowsInv
<1>. SUFFICES ASSUME Init PROVE RowsInv
  OBVIOUS
<1>1. Len(committed) = 0 /\ fileStart = 0 /\ wr = "off"
  BY DEF Init
<1>2. \A k \in Keys : table[k] = 0
  BY DEF Init, NoRows
<1>. QED
  BY <1>1, <1>2, RowEmpty DEF RowsInv, TableInv, WorkInv

\* The tasks committed so far are not changed by the acceptance of another one.
LEMMA LogGrows ==
    ASSUME IInv, IInv', Next
    PROVE  /\ Len(accepted) \in Nat /\ Len(committed) \in Nat
           /\ Len(committed) + Len(InHand) <= Len(accepted)
           /\ Len(InHand) \in Nat
           /\ \A i \in 1..Len(accepted) : accepted'[i] = accepted[i]
<1>1. InHand \in Seq(Tasks)
  BY InHandType DEF IInv
<1>2. /\ Len(accepted) \in Nat /\ Len(committed) \in Nat
      /\ Len(committed) + Len(InHand) <= Len(accepted)
      /\ Len(InHand) \in Nat
  BY <1>1, Parts DEF IInv
<1>3. ASSUME NEW t, accepted' = Append(accepted, t)
      PROVE  \A i \in 1..Len(accepted) : accepted'[i] = accepted[i]
  BY <1>3 DEF IInv, TypeOK
<1>4. accepted' = accepted \/ \E t : accepted' = Append(accepted, t)
  <2>1. CASE EnqueueTask
    BY <2>1 DEF EnqueueTask, Enqueue
  <2>2. CASE EnqueueFlush
    BY <2>2 DEF EnqueueFlush
  <2>3. CASE ~EnqueueTask /\ ~EnqueueFlush
    BY <2>3 DEF Next, MainNext, WriterNext, Open, StartWriter, WaitFlush, WaitDone,
       WaitTimeout, StopRequest, StopReturn, QuickExit, Exit, Reconnect, TakeBatch,
       Begin, ExecTask, CommitOk, CommitFail, LastUnconnected, Signal, RetryTimer,
       RetryStopped, WriterExit, DamageFile
  <2>. QED
    BY <2>1, <2>2, <2>3
<1>. QED
  BY <1>2, <1>3, <1>4

\* A step that leaves the file and the transaction alone.
LEMMA RowsUntouched ==
    ASSUME IInv, IInv', Next, RowsInv,
           UNCHANGED <<table, fileStart, committed>>,
           wr' \in {"txn", "last"} => wr' = wr /\ UNCHANGED <<work, pos, batch>>
    PROVE  RowsInv'
<1>0. /\ Len(accepted) \in Nat /\ Len(committed) \in Nat /\ Len(InHand) \in Nat
      /\ Len(committed) + Len(InHand) <= Len(accepted)
      /\ \A i \in 1..Len(accepted) : accepted'[i] = accepted[i]
  BY LogGrows
<1>1. /\ Len(accepted) \in Nat /\ Len(committed) \in Nat /\ fileStart \in Nat
      /\ Len(committed) <= Len(accepted)
      /\ \A i \in 1..Len(committed) : accepted'[i] = accepted[i]
  <2>1. fileStart \in Nat
    BY DEF IInv, TypeOK
  <2>2. 1..Len(committed) \subseteq 1..Len(accepted)
    BY <1>0
  <2>. QED
    BY <1>0, <2>1, <2>2
<1>2. TableInv'
  <2>. SUFFICES ASSUME NEW k \in Keys
                PROVE  RowIs(k, table[k], accepted', fileStart, Len(committed))
    BY DEF RowsInv, TableInv
  <2>1. RowIs(k, table[k], accepted, fileStart, Len(committed))
    BY DEF RowsInv, TableInv
  <2>. QED
    BY <1>1, <2>1, RowKept
<1>3. WorkInv'
  <2>. SUFFICES ASSUME wr' \in {"txn", "last"}
                PROVE  /\ pos <= Len(batch) + 1
                       /\ \A k \in Keys : RowIs(k, work[k], accepted', fileStart,
                                                 Len(committed) + pos - 1)
    BY DEF WorkInv
  <2>1. wr \in {"txn", "last"} /\ pos \in Nat \ {0} /\ InHand = batch
    BY DEF IInv, TypeOK, InHand
  <2>2. pos <= Len(batch) + 1
        /\ \A k \in Keys : RowIs(k, work[k], accepted, fileStart, Len(committed) + pos - 1)
    BY <2>1 DEF RowsInv, WorkInv
  <2>3. /\ Len(committed) + pos - 1 \in Nat
        /\ \A i \in 1 .. Len(committed) + pos - 1 : accepted'[i] = accepted[i]
    BY <1>1, <2>1, <2>2, LogGrows
  <2>. QED
    BY <1>1, <2>2, <2>3, RowKept
<1>. QED
  BY <1>2, <1>3 DEF RowsInv

\* Opening the file keeps its rows or starts a new file, of which nothing is known.
LEMMA RowsOpened ==
    ASSUME IInv, IInv', Next, RowsInv, TryOpenOk \/ TryOpenFail,
           UNCHANGED committed, wr' \notin {"txn", "last"}
    PROVE  RowsInv'
<1>1. CASE UNCHANGED <<table, fileStart>>
  BY <1>1, RowsUntouched
<1>2. CASE Quarantine
  <2>1. Len(committed) \in Nat
    BY LogGrows
  <2>2. \A k \in Keys : table'[k] = 0
    BY <1>2 DEF Quarantine, NoRows
  <2>. QED
    BY <1>2, <2>1, <2>2, RowEmpty DEF RowsInv, TableInv, WorkInv, Quarantine
<1>. QED
  BY <1>1, <1>2 DEF TryOpenOk, TryOpenFail

LEMMA BeginRows == IInv /\ IInv' /\ RowsInv /\ Next /\ Begin => RowsInv'
<1>. SUFFICES ASSUME IInv, IInv', RowsInv, Next, Begin PROVE RowsInv'
  OBVIOUS
<1>1. /\ pos' = 1 /\ work' = table /\ UNCHANGED <<batch, committed, accepted, table, fileStart>>
      /\ Len(committed) \in Nat /\ Len(batch) \in Nat
  BY LogGrows DEF Begin, IInv, TypeOK
<1>2. Len(committed) + 1 - 1 = Len(committed)
  BY <1>1
<1>. QED
  BY <1>1, <1>2 DEF RowsInv, TableInv, WorkInv

LEMMA ExecRows == IInv /\ IInv' /\ RowsInv /\ Next /\ ExecTask => RowsInv'
<1>. SUFFICES ASSUME IInv, IInv', RowsInv, Next, ExecTask PROVE RowsInv'
  OBVIOUS
<1>. DEFINE n == Len(committed) + pos - 1
<1>1. /\ wr \in {"txn", "last"} /\ pos <= Len(batch) /\ work' = Apply(work, batch[pos])
      /\ pos' = pos + 1 /\ UNCHANGED <<wr, batch, committed, accepted, table, fileStart>>
  BY DEF ExecTask
<1>2. /\ Len(committed) \in Nat /\ Len(batch) \in Nat /\ pos \in Nat \ {0}
      /\ fileStart \in Nat /\ work \in [Keys -> Nat] /\ InHand = batch
      /\ batch \in Seq(Tasks)
  BY <1>1, LogGrows DEF IInv, TypeOK, InHand
<1>3. n \in Nat /\ fileStart <= n /\ n + 1 = Len(committed) + pos
      /\ Len(committed) + (pos + 1) - 1 = n + 1
  BY <1>2 DEF RowsInv, TableInv
<1>4. batch[pos] = accepted[n + 1]
  <2>1. \A i \in 1..Len(batch) : batch[i] = accepted[Len(committed) + i]
    BY <1>2, Parts DEF IInv
  <2>2. pos \in 1..Len(batch)
    BY <1>1, <1>2
  <2>. QED
    BY <1>3, <2>1, <2>2
<1>5. n + 1 \in 1..Len(accepted)
  BY <1>1, <1>2, <1>3, LogGrows
<1>6. accepted[n + 1].seq = n + 1
  BY <1>5 DEF IInv, Numbered
<1>7. \A k \in Keys : RowIs(k, work[k], accepted, fileStart, n)
  BY <1>1 DEF RowsInv, WorkInv
<1>8. \A k \in Keys : RowIs(k, Apply(work, accepted[n + 1])[k], accepted, fileStart, n + 1)
  BY <1>2, <1>3, <1>6, <1>7, RowStep
<1>9. WorkInv'
  BY <1>1, <1>2, <1>3, <1>4, <1>8 DEF WorkInv
<1>. QED
  BY <1>1, <1>9 DEF RowsInv, TableInv

LEMMA CommitRows == IInv /\ IInv' /\ RowsInv /\ Next /\ CommitOk => RowsInv'
<1>. SUFFICES ASSUME IInv, IInv', RowsInv, Next, CommitOk PROVE RowsInv'
  OBVIOUS
<1>1. /\ wr \in {"txn", "last"} /\ pos > Len(batch) /\ table' = work
      /\ committed' = committed \o batch /\ wr' = "signal"
      /\ UNCHANGED <<accepted, fileStart>>
  BY DEF CommitOk
<1>2. /\ Len(committed) \in Nat /\ Len(batch) \in Nat /\ pos \in Nat \ {0} /\ fileStart \in Nat
      /\ Len(committed') = Len(committed) + Len(batch)
  BY <1>1, ConcatProperties DEF IInv, TypeOK
<1>3. pos <= Len(batch) + 1
      /\ \A k \in Keys : RowIs(k, work[k], accepted, fileStart, Len(committed) + pos - 1)
  BY <1>1 DEF RowsInv, WorkInv
<1>4. Len(committed) + pos - 1 = Len(committed')
  <2>1. pos = Len(batch) + 1
    BY <1>1, <1>2, <1>3
  <2>. QED
    BY <1>2, <2>1
<1>5. fileStart <= Len(committed')
  BY <1>2 DEF RowsInv, TableInv
<1>6. TableInv'
  <2>. SUFFICES ASSUME NEW k \in Keys
                PROVE  RowIs(k, work[k], accepted, fileStart, Len(committed'))
    BY <1>1, <1>5 DEF TableInv
  <2>. QED
    BY <1>3, <1>4
<1>. QED
  BY <1>1, <1>6 DEF RowsInv, WorkInv

LEMMA NextRows == IInv /\ IInv' /\ RowsInv /\ [Next]_vars => RowsInv'
<1>. SUFFICES ASSUME IInv, IInv', RowsInv, [Next]_vars PROVE RowsInv'
  OBVIOUS
<1>1. CASE UNCHANGED vars
  BY <1>1 DEF vars, RowsInv, TableInv, WorkInv
<1>2. CASE Next /\ (Open \/ Reconnect)
  <2>1. UNCHANGED committed /\ (TryOpenOk \/ TryOpenFail)
    BY <1>2 DEF Open, Reconnect
  <2>2. wr' \notin {"txn", "last"}
    BY <1>2 DEF Open, Reconnect, IInv, ControlInv
  <2>. QED
    BY <1>2, <2>1, <2>2, RowsOpened
<1>3. CASE Next /\ Begin
  BY <1>3, BeginRows
<1>4. CASE Next /\ ExecTask
  BY <1>4, ExecRows
<1>5. CASE Next /\ CommitOk
  BY <1>5, CommitRows
<1>6. CASE /\ Next /\ ~Open /\ ~Reconnect /\ ~Begin /\ ~ExecTask /\ ~CommitOk
  <2>1. /\ UNCHANGED <<table, fileStart, committed>>
        /\ wr' \in {"txn", "last"} => wr' = wr /\ UNCHANGED <<work, pos, batch>>
    BY <1>6 DEF Next, MainNext, WriterNext, EnqueueTask, Enqueue, EnqueueFlush,
       StartWriter, WaitFlush, WaitDone, WaitTimeout, StopRequest, StopReturn,
       QuickExit, Exit, TakeBatch, CommitFail, LastUnconnected, Signal, RetryTimer,
       RetryStopped, WriterExit, DamageFile
  <2>. QED
    BY <1>6, <2>1, RowsUntouched
<1>. QED
  BY <1>1, <1>2, <1>3, <1>4, <1>5, <1>6

\* The rows of the file and of the open transaction are what the tasks executed so far
\* left in them: Begin, each task, the commit and a replaced file keep it so.
THEOREM RowsInvariance == Spec => []RowsInv
<1>1. Init => RowsInv
  BY InitRows
<1>2. IInv /\ IInv' /\ RowsInv /\ [Next]_vars => RowsInv'
  BY NextRows
<1>. QED
  BY <1>1, <1>2, Invariance, PTL DEF Spec

\* The relation determines the row.
LEMMA RowsAreRowOf == IInv /\ RowsInv => TableMatchesLog
<1>. SUFFICES ASSUME IInv, RowsInv, NEW k \in Keys PROVE table[k] = RowOf(k)
  BY DEF TableMatchesLog
<1>. DEFINE n == Len(committed)
            hits == {i \in fileStart + 1 .. n : Touches(committed[i], k)}
            last == CHOOSE j \in hits : \A h \in hits : h <= j
<1>1. n \in Nat /\ fileStart \in Nat
  BY DEF IInv, TypeOK
<1>2. \A i \in fileStart + 1 .. n : committed[i] = accepted[i]
  <2>. SUFFICES ASSUME NEW i \in fileStart + 1 .. n PROVE committed[i] = accepted[i]
    OBVIOUS
  <2>1. InHand \in Seq(Tasks) /\ committed \in Seq(Tasks) /\ queue \in Seq(Tasks)
    BY InHandType DEF IInv, TypeOK
  <2>2. committed \o InHand \in Seq(Tasks) /\ i \in 1..Len(committed)
        /\ i \in 1..Len(committed \o InHand)
    BY <1>1, <2>1, ConcatProperties
  <2>3. (committed \o InHand)[i] = committed[i]
    BY <2>1, <2>2, ConcatProperties
  <2>4. accepted[i] = (committed \o InHand)[i]
    BY <2>1, <2>2, ConcatProperties DEF IInv, NothingLost
  <2>. QED
    BY <2>3, <2>4
<1>3. RowIs(k, table[k], accepted, fileStart, n)
  BY DEF RowsInv, TableInv
<1>4. RowOf(k) = IF hits = {} THEN 0 ELSE IF k \in committed[last].keys THEN last ELSE 0
  BY DEF RowOf
<1>5. CASE table[k] = 0 /\ \A i \in fileStart + 1 .. n : ~Touches(accepted[i], k)
  <2>1. hits = {}
    BY <1>2, <1>5
  <2>. QED
    BY <1>4, <1>5, <2>1
<1>6. ASSUME NEW i \in fileStart + 1 .. n,
             Touches(accepted[i], k),
             \A j \in i + 1 .. n : ~Touches(accepted[j], k),
             table[k] = IF k \in accepted[i].keys THEN i ELSE 0
      PROVE  table[k] = RowOf(k)
  <2>1. i \in hits
    BY <1>2, <1>6
  <2>2. \A h \in hits : h <= i
    <3>. SUFFICES ASSUME NEW h \in hits, ~(h <= i) PROVE FALSE
      OBVIOUS
    <3>1. h \in i + 1 .. n /\ h \in fileStart + 1 .. n
      BY <1>1
    <3>. QED
      BY <1>2, <1>6, <3>1
  <2>3. last \in hits /\ \A h \in hits : h <= last
    BY <2>1, <2>2
  <2>4. last = i
    <3>. HIDE DEF last
    <3>1. last <= i /\ i <= last
      BY <2>1, <2>2, <2>3
    <3>2. \A h \in hits : h \in Nat
      BY <1>1
    <3>3. last \in Nat /\ i \in Nat
      BY <2>1, <2>3, <3>2
    <3>. QED
      BY <3>1, <3>3
  <2>. QED
    BY <1>2, <1>4, <1>6, <2>1, <2>4
<1>. QED
  BY <1>3, <1>5, <1>6 DEF RowIs

\* td_persist_writer.cpp, commit_batch and rebuild_positions: whatever fails, is
\* retried or replaced, the rows of the file are what the committed tasks left in it.
THEOREM TableCorrect == Spec => []TableMatchesLog
<1>1. IInv /\ RowsInv => TableMatchesLog
  BY RowsAreRowOf
<1>. QED
  BY <1>1, Invariance, RowsInvariance, PTL

-----------------------------------------------------------------------------
(***************************************************************************)
(* The positions of an account.                                            *)
(*                                                                         *)
(* NoDrift says nothing of reports that are under way or of the snapshot   *)
(* of an answer.  Chain does: each report leads from the counter's holding *)
(* before it to the one at its own moment, from what the session has taken *)
(* in (seen) to what the counter holds (held), and two of these holdings   *)
(* with the same number of trades are the same.  So a snapshot that is as  *)
(* old as the reports is the holding at that moment, and from there each   *)
(* trade takes from the session's holding what it took from the counter's. *)
(*                                                                         *)
(* Sums over orders are folds over sets.  That such a fold is defined, and *)
(* counts, is proved by the smallest set for which it is not (FoldExists). *)
(***************************************************************************)

\* An order, a report, a table of orders.
OrderType == [effect : Effects, volume : Nat, traded : Nat,
              status : {"none", "working", "done"}]

ReportType ==
    [kind : {"order"}, id : Orders, order : OrderType, at : HeldType]
    \cup [kind : {"trade"}, effect : Effects \cup {"open"}, volume : Nat \ {0}, at : HeldType]

\* Orders by their number.
OrderTable(f) == DOMAIN f \subseteq Orders /\ \A i \in DOMAIN f : f[i] \in OrderType

\* What a report says of the holding p before it.
Follows(r, p) ==
    IF r.kind = "order" THEN r.at = p
    ELSE Held(r.at) = Held(MoveBy(p, r)) /\ r.at.trades = p.trades + 1

Before(rs, from, i) == IF i = 1 THEN from ELSE rs[i - 1].at

Points(rs, h, from, snap) == {h, from, snap} \cup {rs[i].at : i \in 1..Len(rs)}

\* The reports lead from one holding of the counter to the next, and a number of
\* trades says which holding it was.
Chain(rs, h, from, snap) ==
    /\ rs \in Seq(ReportType)
    /\ h \in HeldType /\ from \in HeldType /\ snap \in HeldType
    /\ \A i \in 1..Len(rs) : Follows(rs[i], Before(rs, from, i))
    /\ h = IF rs = <<>> THEN from ELSE rs[Len(rs)].at
    /\ \A p \in Points(rs, h, from, snap) :
          /\ p.trades <= h.trades
          /\ \A q \in Points(rs, h, from, snap) : p.trades = q.trades => p = q

TypeInv ==
    /\ PositionTypeOK
    /\ OrderTable(book) /\ DOMAIN book = Orders
    /\ OrderTable(active) /\ OrderTable(known)
    /\ buffered \in 0..Len(reports)
    /\ drops \in Nat

\* Where the session and its query are.
StateInv ==
    /\ ready => st # "down"
    /\ st = "ready" => ready
    /\ st = "down" => query = "none"
    /\ buffered # 0 => st = "loading"
    /\ st = "loading" /\ ready => query = "none" /\ Held(side) = Held(snapshot)
    /\ ~ready => side = Flat
    /\ ~ready /\ drops = 0 => pushed = Flat

PInv == /\ Chain(reports, held, seen, snapshot)
        /\ TypeInv
        /\ StateInv
        /\ NoDrift
        /\ FramesFollowHolding

-----------------------------------------------------------------------------
\* A set of numbers has a least element.
LEMMA Least ==
    ASSUME NEW S \in SUBSET Nat, S # {}
    PROVE  \E x \in S : \A y \in S : x <= y
<1>1. IsWellFoundedOn(OpToRel(<, Nat), Nat)
  BY NatLessThanWellFounded
<1>2. PICK x \in S : \A y \in S : ~(<<y, x>> \in OpToRel(<, Nat))
  BY <1>1, WFMin
<1>3. \A y \in S : ~(y < x)
  BY <1>2 DEF OpToRel
<1>. QED
  BY <1>3

\* The larger and the smaller of two.
LEMMA MaxOfTwo ==
    ASSUME NEW a \in Int, NEW b \in Int
    PROVE  Max({a, b}) = IF a >= b THEN a ELSE b
BY DEF Max

LEMMA MinOfTwo ==
    ASSUME NEW a \in Int, NEW b \in Int
    PROVE  Min({a, b}) = IF a <= b THEN a ELSE b
BY DEF Min

\* A function defined by recursion over smaller subsets exists, and counts.
Adds(S, term, rest, f) ==
    f = [s \in SUBSET S |-> IF s = {} THEN 0 ELSE term[s] + f[rest[s]]]

Shrinks(S, term, rest) ==
    \A s \in SUBSET S : s # {} =>
        term[s] \in Nat /\ rest[s] \in SUBSET S /\ Cardinality(rest[s]) < Cardinality(s)

LEMMA FoldExists ==
    ASSUME NEW S, IsFiniteSet(S), NEW term, NEW rest, Shrinks(S, term, rest)
    PROVE  /\ \E f : Adds(S, term, rest, f)
           /\ \A f : Adds(S, term, rest, f) => \A s \in SUBSET S : f[s] \in Nat
<1>. USE DEF Adds, Shrinks
<1>1. ASSUME NEW s \in SUBSET S
      PROVE  Cardinality(s) \in Nat /\ (Cardinality(s) = 0 => s = {})
             /\ Cardinality(s) <= Cardinality(S)
  <2>1. IsFiniteSet(s)
    BY FS_Subset
  <2>. QED
    BY <2>1, FS_Subset, FS_CardinalityType, FS_EmptySet
<1>2. \E f : f = [s \in SUBSET S |-> IF s = {} THEN 0 ELSE term[s] + f[rest[s]]]
  <2>. DEFINE upto(n) == {s \in SUBSET S : Cardinality(s) <= n}
              part(n, f) == [s \in upto(n) |-> IF s = {} THEN 0 ELSE term[s] + f[rest[s]]]
              good(n) == \E f : f = part(n, f)
              Bad == {n \in Nat : ~good(n)}
  <2>1. good(0)
    <3>1. \A s \in upto(0) : s = {}
      BY <1>1
    <3>2. part(0, [s \in upto(0) |-> 0]) = [s \in upto(0) |-> 0]
      BY <3>1
    <3>. QED
      BY <3>2
  <2>2. ASSUME NEW n \in Nat, n # 0, good(n - 1) PROVE good(n)
    <3>1. PICK f : f = part(n - 1, f)
      BY <2>2
    <3>2. ASSUME NEW s \in upto(n), s # {} PROVE rest[s] \in upto(n - 1) /\ rest[s] \in upto(n)
      BY <1>1, <2>2, <3>2
    <3>3. ASSUME NEW s \in upto(n - 1) PROVE s \in upto(n)
      BY <1>1, <2>2
    <3>. HIDE DEF upto
    <3>. DEFINE h == part(n, f)
    <3>4. ASSUME NEW s \in upto(n - 1) PROVE h[s] = f[s]
      BY <3>1, <3>3
    <3>5. ASSUME NEW s \in upto(n)
          PROVE  (IF s = {} THEN 0 ELSE term[s] + f[rest[s]])
                 = (IF s = {} THEN 0 ELSE term[s] + h[rest[s]])
      <4>1. CASE s = {}
        BY <4>1
      <4>2. CASE s # {}
        BY <4>2, <3>2, <3>4
      <4>. QED
        BY <4>1, <4>2
    <3>6. part(n, f) = part(n, h)
      BY <3>5
    <3>. QED
      BY <3>6
  <2>3. Bad = {}
    <3>. HIDE DEF good
    <3>. SUFFICES ASSUME Bad # {} PROVE FALSE
      OBVIOUS
    <3>1. PICK n \in Bad : \A m \in Bad : n <= m
      BY Least
    <3>. QED
      BY <2>1, <2>2, <3>1
  <2>4. PICK f : f = part(Cardinality(S), f)
    BY <1>1, <2>3
  <2>5. upto(Cardinality(S)) = SUBSET S
    BY <1>1
  <2>. QED
    BY <2>4, <2>5
<1>3. ASSUME NEW f, f = [s \in SUBSET S |-> IF s = {} THEN 0 ELSE term[s] + f[rest[s]]]
      PROVE  \A s \in SUBSET S : f[s] \in Nat
  <2>. DEFINE Bad == {Cardinality(s) : s \in {u \in SUBSET S : f[u] \notin Nat}}
  <2>. SUFFICES ASSUME Bad # {} PROVE FALSE
    OBVIOUS
  <2>0. Bad \subseteq Nat
    BY <1>1
  <2>1. PICK n \in Bad : \A m \in Bad : n <= m
    BY <2>0, Least
  <2>2. PICK s \in SUBSET S : Cardinality(s) = n /\ f[s] \notin Nat
    BY <2>1
  <2>3. s # {} /\ f[s] = term[s] + f[rest[s]]
    BY <1>3, <2>2
  <2>4. f[rest[s]] \in Nat
    BY <1>1, <2>1, <2>2, <2>3
  <2>. QED
    BY <2>2, <2>3, <2>4
<1>. QED
  BY <1>2, <1>3

\* What working orders have left is a number.
LEMMA RemainingType ==
    ASSUME NEW orders, OrderTable(orders), IsFiniteSet(Orders), NEW effects
    PROVE  Remaining(orders, effects) \in Nat
<1>. DEFINE S == {i \in DOMAIN orders : orders[i].effect \in effects}
            one(s) == CHOOSE x \in s : TRUE
            left(i) == Max({0, orders[i].volume - orders[i].traded})
            term == [s \in SUBSET S |-> left(one(s))]
            rest == [s \in SUBSET S |-> s \ {one(s)}]
            sum(f) == [s \in SUBSET S |-> IF s = {} THEN 0 ELSE left(one(s)) + f[s \ {one(s)}]]
            it == CHOOSE f : f = sum(f)
<1>1. Remaining(orders, effects) = it[S]
  BY Zenon DEF Remaining, MapThenSumSet, MapThenFoldSet
<1>2. ASSUME NEW i \in DOMAIN orders PROVE left(i) \in Nat
  <2>1. orders[i].volume \in Nat /\ orders[i].traded \in Nat
    BY DEF OrderTable, OrderType
  <2>2. orders[i].volume - orders[i].traded \in Int
    BY <2>1
  <2>. QED
    BY <2>2, MaxOfTwo
<1>3. IsFiniteSet(S)
  BY FS_Subset DEF OrderTable
<1>4. ASSUME NEW s \in SUBSET S, s # {}
      PROVE  term[s] \in Nat /\ rest[s] \in SUBSET S /\ Cardinality(rest[s]) < Cardinality(s)
  <2>1. one(s) \in s
    BY <1>4
  <2>2. IsFiniteSet(s) /\ Cardinality(s) \in Nat
    BY <1>3, FS_Subset, FS_CardinalityType
  <2>3. Cardinality(s \ {one(s)}) = Cardinality(s) - 1
    BY <2>1, <2>2, FS_RemoveElement
  <2>4. term[s] = left(one(s)) /\ rest[s] = s \ {one(s)} /\ one(s) \in DOMAIN orders
    BY <2>1
  <2>. HIDE DEF one, left, term, rest
  <2>. QED
    BY <1>2, <2>2, <2>3, <2>4
<1>5. ASSUME NEW f
      PROVE  sum(f) = [s \in SUBSET S |-> IF s = {} THEN 0 ELSE term[s] + f[rest[s]]]
  <2>. HIDE DEF left, one
  <2>. QED
    OBVIOUS
<1>. HIDE DEF S, term, rest, one, left
<1>6. Shrinks(S, term, rest)
  BY <1>4 DEF Shrinks
<1>7. /\ \E f : Adds(S, term, rest, f)
      /\ \A f : Adds(S, term, rest, f) => \A s \in SUBSET S : f[s] \in Nat
  BY <1>3, <1>6, FoldExists, Zenon
<1>. HIDE DEF sum
<1>8. it = sum(it)
  BY <1>5, <1>7 DEF Adds
<1>. HIDE DEF it
<1>9. Adds(S, term, rest, it)
  BY <1>5, <1>8 DEF Adds
<1>10. it[S] \in Nat
  BY <1>7, <1>9, Zenon
<1>. QED
  BY <1>1, <1>10

\* Freezing leaves what is held alone and never takes more.
LEMMA FrozenWithin ==
    ASSUME NEW s \in SideType, NEW orders, OrderTable(orders), IsFiniteSet(Orders)
    PROVE  /\ recompute_frozen(s, orders) \in SideType
           /\ Held(recompute_frozen(s, orders)) = Held(s)
           /\ recompute_frozen(s, orders).frozen_td <= recompute_frozen(s, orders).today
           /\ recompute_frozen(s, orders).frozen_yd <= recompute_frozen(s, orders).yd
<1>. DEFINE generic == Remaining(orders, {"close"})
            td == Remaining(orders, {"close_today"})
            yd == Remaining(orders, {"close_yd"})
            room_td == Max({0, s.today - td})
            room_yd == Max({0, s.yd - yd})
            take_td == Min({generic, room_td})
            take_yd == Min({generic - take_td, room_yd})
            f_td == Min({td + take_td, s.today})
            f_yd == Min({yd + take_yd, s.yd})
<1>1. generic \in Nat /\ td \in Nat /\ yd \in Nat
  BY RemainingType
<1>2. s.today \in Nat /\ s.yd \in Nat
  BY DEF SideType
<1>. HIDE DEF generic, td, yd
<1>3. room_td \in Nat /\ room_yd \in Nat
  BY <1>1, <1>2, MaxOfTwo
<1>. HIDE DEF room_td, room_yd
<1>4. take_td \in Nat /\ take_td <= generic
  BY <1>1, <1>3, MinOfTwo
<1>. HIDE DEF take_td
<1>5. take_yd \in Nat
  BY <1>1, <1>3, <1>4, MinOfTwo
<1>. HIDE DEF take_yd
<1>6. f_td \in Nat /\ f_yd \in Nat /\ f_td <= s.today /\ f_yd <= s.yd
  BY <1>1, <1>2, <1>4, <1>5, MinOfTwo
<1>. HIDE DEF f_td, f_yd
<1>7. recompute_frozen(s, orders) = [s EXCEPT !.frozen_td = f_td, !.frozen_yd = f_yd]
  BY Zenon DEF recompute_frozen, f_td, f_yd, take_td, take_yd, room_td, room_yd, generic, td, yd
<1>. QED
  BY <1>6, <1>7 DEF SideType, Held

\* What is left of the two parts of a holding when n of it are closed.
Plain(effect) == effect = "close" /\ exchange # "SHFE"

TodayAfter(today, effect, n) ==
    Max({0, IF Plain(effect) \/ effect = "close_today" THEN today - n ELSE today})

YdAfter(today, yd, effect, n) ==
    Max({0, IF Plain(effect) THEN yd + (IF today - n < 0 THEN today - n ELSE 0)
            ELSE IF effect = "close_today" THEN yd ELSE yd - n})

With(s, today, yd) == [s EXCEPT !.today = today, !.yd = yd]

LEMMA CloseParts ==
    ASSUME NEW s, NEW effect, NEW n, s.today \in Nat, s.yd \in Nat, n \in Nat
    PROVE  /\ close_side(s, effect, n) =
                  With(s, TodayAfter(s.today, effect, n), YdAfter(s.today, s.yd, effect, n))
           /\ TodayAfter(s.today, effect, n) \in Nat
           /\ YdAfter(s.today, s.yd, effect, n) \in Nat
<1>. USE DEF With
<1>1. ASSUME NEW x \in Int PROVE Max({0, x}) \in Nat
  BY MaxOfTwo
<1>2. CASE Plain(effect)
  <2>1. effect # "close_today"
    BY <1>2 DEF Plain
  <2>. DEFINE d == s.today - n
  <2>2. YdAfter(s.today, s.yd, effect, n) = Max({0, s.yd + (IF d < 0 THEN d ELSE 0)})
    BY <1>2 DEF YdAfter
  <2>3. TodayAfter(s.today, effect, n) = Max({0, d})
    BY <1>2 DEF TodayAfter
  <2>4. close_side(s, effect, n) = [s EXCEPT !.today = Max({0, d}), !.yd = Max({0, s.yd + (IF d < 0 THEN d ELSE 0)})]
    BY <1>2 DEF close_side, Plain
  <2>5. d \in Int /\ s.yd + (IF d < 0 THEN d ELSE 0) \in Int
    OBVIOUS
  <2>. HIDE DEF d
  <2>. QED
    BY <1>1, <2>2, <2>3, <2>4, <2>5
<1>3. CASE ~Plain(effect) /\ effect = "close_today"
  <2>2. YdAfter(s.today, s.yd, effect, n) = Max({0, s.yd})
    BY <1>3 DEF YdAfter
  <2>3. TodayAfter(s.today, effect, n) = Max({0, s.today - n})
    BY <1>3 DEF TodayAfter
  <2>4. s.yd + 0 = s.yd
    OBVIOUS
  <2>5. close_side(s, effect, n) = [s EXCEPT !.today = Max({0, s.today - n}), !.yd = Max({0, s.yd + 0})]
    BY <1>3 DEF close_side, Plain
  <2>6. s.today - n \in Int /\ s.yd \in Int
    OBVIOUS
  <2>. QED
    BY <1>1, <2>2, <2>3, <2>4, <2>5, <2>6
<1>4. CASE ~Plain(effect) /\ effect # "close_today"
  <2>2. YdAfter(s.today, s.yd, effect, n) = Max({0, s.yd - n})
    BY <1>4 DEF YdAfter
  <2>3. TodayAfter(s.today, effect, n) = Max({0, s.today})
    BY <1>4 DEF TodayAfter
  <2>5. close_side(s, effect, n) = [s EXCEPT !.today = Max({0, s.today}), !.yd = Max({0, s.yd - n})]
    BY <1>4 DEF close_side, Plain
  <2>6. s.today \in Int /\ s.yd - n \in Int
    OBVIOUS
  <2>. QED
    BY <1>1, <2>2, <2>3, <2>5, <2>6
<1>. QED
  BY <1>2, <1>3, <1>4

\* What a trade moves depends on the holding alone.
LEMMA MoveType ==
    ASSUME NEW s \in SideType, NEW t \in ReportType, t.kind = "trade"
    PROVE  MoveBy(s, t) \in SideType
<1>1. s.today \in Nat /\ s.yd \in Nat /\ t.volume \in Nat
  BY DEF SideType, ReportType
<1>2. CASE t.effect = "open"
  BY <1>1, <1>2 DEF MoveBy, SideType
<1>3. CASE t.effect # "open"
  <2>1. MoveBy(s, t) = close_side(s, t.effect, t.volume)
    BY <1>3 DEF MoveBy
  <2>. DEFINE a == TodayAfter(s.today, t.effect, t.volume)
              b == YdAfter(s.today, s.yd, t.effect, t.volume)
  <2>2. close_side(s, t.effect, t.volume) = With(s, a, b) /\ a \in Nat /\ b \in Nat
    BY <1>1, CloseParts, Zenon
  <2>. HIDE DEF a, b
  <2>. QED
    BY <2>1, <2>2 DEF SideType, With
<1>. QED
  BY <1>2, <1>3

LEMMA MoveHeld ==
    ASSUME NEW s \in SideType, NEW p \in HeldType, Held(s) = Held(p),
           NEW t \in ReportType, t.kind = "trade"
    PROVE  Held(MoveBy(s, t)) = Held(MoveBy(p, t))
<1>1. /\ s.today = p.today /\ s.yd = p.yd /\ t.volume \in Nat
      /\ s.today \in Nat /\ s.yd \in Nat
  BY DEF Held, SideType, ReportType
<1>2. CASE t.effect = "open"
  BY <1>1, <1>2 DEF MoveBy, Held, SideType, HeldType
<1>3. CASE t.effect # "open"
  <2>1. MoveBy(s, t) = close_side(s, t.effect, t.volume)
        /\ MoveBy(p, t) = close_side(p, t.effect, t.volume)
    BY <1>3 DEF MoveBy
  <2>2. close_side(s, t.effect, t.volume) =
          With(s, TodayAfter(s.today, t.effect, t.volume), YdAfter(s.today, s.yd, t.effect, t.volume))
    BY <1>1, CloseParts, Zenon
  <2>3. close_side(p, t.effect, t.volume) =
          With(p, TodayAfter(s.today, t.effect, t.volume), YdAfter(s.today, s.yd, t.effect, t.volume))
    BY <1>1, CloseParts, Zenon
  <2>. QED
    BY <2>1, <2>2, <2>3 DEF Held, SideType, HeldType, With
<1>. QED
  BY <1>2, <1>3

\* The counter and the session agree on what a trade takes that is there.
LEMMA CtpMoves ==
    ASSUME held \in HeldType, NEW effect \in Effects, CtpHolds(effect, 1)
    PROVE  /\ CtpClosed(effect, 1) \in HeldType
           /\ CtpClosed(effect, 1).trades = held.trades + 1
           /\ Held(CtpClosed(effect, 1)) = Held(MoveBy(held, TradeReport(effect, 1, CtpClosed(effect, 1))))
<1>. DEFINE next == CtpClosed(effect, 1)
            a == TodayAfter(held.today, effect, 1)
            b == YdAfter(held.today, held.yd, effect, 1)
<1>1. held \in HeldType /\ held.today \in Nat /\ held.yd \in Nat /\ held.trades \in Nat
  BY DEF HeldType
<1>2. MoveBy(held, TradeReport(effect, 1, next)) = close_side(held, effect, 1)
  BY DEF MoveBy, TradeReport, Effects
<1>3. close_side(held, effect, 1) = With(held, a, b) /\ a \in Nat /\ b \in Nat
  BY <1>1, CloseParts, Zenon
<1>4. next = [today |-> a, yd |-> b, trades |-> held.trades + 1]
  <2>1. CASE effect = "close_today"
    <3>1. next = [held EXCEPT !.today = held.today - 1, !.trades = held.trades + 1]
      BY <2>1 DEF CtpClosed, OnlyYd
    <3>2. held.today >= 1
      BY <1>1, <2>1 DEF CtpHolds, OnlyYd
    <3>3. a = Max({0, held.today - 1}) /\ b = Max({0, held.yd})
      BY <2>1 DEF TodayAfter, YdAfter, Plain
    <3>. HIDE DEF next, a, b
    <3>4. a = held.today - 1 /\ b = held.yd
      BY <1>1, <3>2, <3>3, MaxOfTwo
    <3>. QED
      BY <1>1, <3>1, <3>4 DEF HeldType
  <2>2. CASE OnlyYd(effect)
    <3>1. next = [held EXCEPT !.yd = held.yd - 1, !.trades = held.trades + 1]
      BY <2>2 DEF CtpClosed, OnlyYd
    <3>2. held.yd >= 1
      BY <1>1, <2>2 DEF CtpHolds, OnlyYd
    <3>3. a = Max({0, held.today}) /\ b = Max({0, held.yd - 1})
      BY <2>2 DEF TodayAfter, YdAfter, Plain, OnlyYd
    <3>. HIDE DEF next, a, b
    <3>4. a = held.today /\ b = held.yd - 1
      BY <1>1, <3>2, <3>3, MaxOfTwo
    <3>. QED
      BY <1>1, <3>1, <3>4 DEF HeldType
  <2>3. CASE effect = "close" /\ exchange # "SHFE"
    <3>1. next = [today |-> Max({0, held.today - 1}), yd |-> held.yd - Max({0, 1 - held.today}),
                  trades |-> held.trades + 1]
      BY <2>3 DEF CtpClosed, OnlyYd
    <3>2. held.today + held.yd >= 1
      BY <1>1, <2>3 DEF CtpHolds, Volume, OnlyYd
    <3>3. a = Max({0, held.today - 1})
          /\ b = Max({0, held.yd + (IF held.today - 1 < 0 THEN held.today - 1 ELSE 0)})
      BY <2>3 DEF TodayAfter, YdAfter, Plain
    <3>. HIDE DEF next, a, b
    <3>4. CASE held.today >= 1
      <4>1. Max({0, 1 - held.today}) = 0 /\ b = held.yd
        BY <1>1, <3>3, <3>4, MaxOfTwo
      <4>2. a = Max({0, held.today - 1})
        BY <3>3
      <4>. QED
        BY <1>1, <3>1, <4>1, <4>2
    <3>5. CASE ~(held.today >= 1)
      <4>1. Max({0, 1 - held.today}) = 1 /\ b = held.yd - 1
        BY <1>1, <3>2, <3>3, <3>5, MaxOfTwo
      <4>. QED
        BY <3>1, <3>3, <4>1
    <3>. QED
      BY <3>4, <3>5
  <2>. QED
    BY <2>1, <2>2, <2>3 DEF Effects, OnlyYd
<1>. HIDE DEF a, b, next
<1>9. /\ close_side(held, effect, 1).today = a
      /\ close_side(held, effect, 1).yd = b
  BY <1>1, <1>3 DEF HeldType, With
<1>5. next \in HeldType /\ next.trades = held.trades + 1 /\ Held(next) = Held(close_side(held, effect, 1))
  BY <1>1, <1>3, <1>4, <1>9 DEF HeldType, Held
<1>. QED
  BY <1>2, <1>5 DEF next

\* What a query puts in place of a holding.
LEMMA QuerySide ==
    ASSUME NEW s \in SideType, NEW orders, OrderTable(orders), IsFiniteSet(Orders),
           NEW p \in HeldType
    PROVE  /\ apply_query_side(s, orders, Volume(p), p.yd) \in SideType
           /\ Held(apply_query_side(s, orders, Volume(p), p.yd)) = Held(p)
<1>. DEFINE y == Max({0, Min({p.yd, Volume(p)})})
<1>1. p.today \in Nat /\ p.yd \in Nat
  BY DEF HeldType
<1>2. y = p.yd /\ Volume(p) - y = p.today
  <2>1. Min({p.yd, Volume(p)}) = p.yd /\ Volume(p) - p.yd = p.today
    BY <1>1, MinOfTwo DEF Volume
  <2>2. Max({0, p.yd}) = p.yd
    BY <1>1, MaxOfTwo
  <2>. QED
    BY <2>1, <2>2
<1>. DEFINE n == [s EXCEPT !.today = p.today, !.yd = p.yd]
<1>3. n \in SideType /\ Held(n) = Held(p)
  BY <1>1 DEF SideType, Held
<1>4. apply_query_side(s, orders, Volume(p), p.yd) = recompute_frozen(n, orders)
  BY <1>2 DEF apply_query_side
<1>. QED
  BY <1>3, <1>4, FrozenWithin

-----------------------------------------------------------------------------
(* The reports *)

\* A report that follows the last one.
LEMMA ChainGrows ==
    ASSUME NEW rs, NEW h, NEW from, NEW snap, Chain(rs, h, from, snap),
           NEW r \in ReportType, Follows(r, h)
    PROVE  Chain(Append(rs, r), r.at, from, snap)
<1>. DEFINE n == Len(rs)
            new == Append(rs, r)
<1>1. /\ rs \in Seq(ReportType) /\ n \in Nat
      /\ h \in HeldType /\ from \in HeldType /\ snap \in HeldType /\ r.at \in HeldType
  BY DEF Chain, ReportType
<1>2. /\ new \in Seq(ReportType) /\ Len(new) = n + 1
      /\ \A i \in 1..n : new[i] = rs[i]
      /\ new[n + 1] = r /\ new # <<>>
  BY <1>1
<1>3. h = IF n = 0 THEN from ELSE rs[n].at
  BY <1>1 DEF Chain
<1>. HIDE DEF n, new
<1>4. ASSUME NEW i \in 1..Len(new) PROVE Follows(new[i], Before(new, from, i))
  <2>1. CASE i = n + 1
    <3>1. Before(new, from, i) = h
      BY <1>1, <1>2, <1>3, <2>1 DEF Before
    <3>. QED
      BY <1>2, <2>1, <3>1
  <2>2. CASE i \in 1..n
    <3>1. Before(new, from, i) = Before(rs, from, i)
      BY <1>1, <1>2, <2>2 DEF Before
    <3>. QED
      BY <1>2, <2>2, <3>1 DEF Chain, n
  <2>. QED
    BY <1>1, <1>2, <2>1, <2>2
<1>5. Points(new, r.at, from, snap) \subseteq Points(rs, h, from, snap) \cup {r.at}
  BY <1>1, <1>2 DEF Points, n
<1>6. \A p \in Points(rs, h, from, snap) :
         /\ p \in HeldType /\ p.trades <= h.trades
         /\ \A q \in Points(rs, h, from, snap) : p.trades = q.trades => p = q
  <2>1. \A i \in 1..n : rs[i] \in ReportType
    BY <1>1 DEF n
  <2>2. \A i \in 1..n : rs[i].at \in HeldType
    BY <2>1 DEF ReportType
  <2>. QED
    BY <1>1, <2>2 DEF Chain, Points, n
<1>7. h \in Points(rs, h, from, snap)
  BY DEF Points
<1>8. r.at = h \/ r.at.trades = h.trades + 1
  BY DEF Follows
<1>. HIDE DEF Points
<1>9. ASSUME NEW p \in Points(new, r.at, from, snap)
      PROVE  /\ p.trades <= r.at.trades
             /\ \A q \in Points(new, r.at, from, snap) : p.trades = q.trades => p = q
  <2>1. h.trades \in Nat /\ r.at.trades \in Nat /\ \A q \in Points(rs, h, from, snap) : q.trades \in Nat
    BY <1>1, <1>6 DEF HeldType
  <2>2. p \in Points(rs, h, from, snap) \/ p = r.at
    BY <1>5
  <2>3. CASE r.at = h
    BY <1>5, <1>6, <1>7, <2>2, <2>3
  <2>4. CASE r.at.trades = h.trades + 1
    BY <1>5, <1>6, <1>7, <2>1, <2>2, <2>4
  <2>. QED
    BY <1>8, <2>3, <2>4
<1>. QED
  BY <1>1, <1>2, <1>4, <1>9 DEF Chain, new

\* The first reports have been taken in.
LEMMA ChainCut ==
    ASSUME NEW rs, NEW h, NEW from, NEW snap, Chain(rs, h, from, snap), NEW n \in 1..Len(rs)
    PROVE  Chain(SubSeq(rs, n + 1, Len(rs)), h, rs[n].at, snap)
<1>. DEFINE new == SubSeq(rs, n + 1, Len(rs))
<1>1. rs \in Seq(ReportType) /\ h \in HeldType /\ snap \in HeldType /\ n \in Nat /\ Len(rs) \in Nat
  BY DEF Chain
<1>2. /\ new \in Seq(ReportType) /\ Len(new) = Len(rs) - n
      /\ \A i \in 1..(Len(rs) - n) : new[i] = rs[n + i]
  BY <1>1
<1>3. rs[n] \in ReportType /\ rs[n].at \in HeldType
  BY <1>1 DEF ReportType
<1>4. h = rs[Len(rs)].at
  BY <1>1 DEF Chain
<1>. HIDE DEF new
<1>5. ASSUME NEW i \in 1..Len(new) PROVE Follows(new[i], Before(new, rs[n].at, i))
  <2>1. Before(new, rs[n].at, i) = Before(rs, from, n + i)
    BY <1>1, <1>2, SMTT(60) DEF Before
  <2>2. new[i] = rs[n + i] /\ n + i \in 1..Len(rs)
    BY <1>1, <1>2
  <2>. QED
    BY <2>1, <2>2 DEF Chain
<1>6. h = IF new = <<>> THEN rs[n].at ELSE new[Len(new)].at
  <2>1. CASE Len(rs) = n
    BY <1>1, <1>2, <1>4, <2>1
  <2>2. CASE Len(rs) > n
    BY <1>1, <1>2, <1>4, <2>2
  <2>. QED
    BY <1>1, <2>1, <2>2
<1>7. Points(new, h, rs[n].at, snap) \subseteq Points(rs, h, from, snap)
  BY <1>1, <1>2 DEF Points
<1>8. ASSUME NEW p \in Points(new, h, rs[n].at, snap)
      PROVE  /\ p.trades <= h.trades
             /\ \A q \in Points(new, h, rs[n].at, snap) : p.trades = q.trades => p = q
  BY <1>7 DEF Chain
<1>. QED
  BY <1>1, <1>2, <1>3, <1>5, <1>6, <1>8 DEF Chain, new

\* A snapshot is the holding of this moment.
LEMMA ChainAnswered ==
    ASSUME NEW rs, NEW h, NEW from, NEW snap, Chain(rs, h, from, snap)
    PROVE  Chain(rs, h, from, h)
BY DEF Chain, Points

-----------------------------------------------------------------------------
(* The tables of orders *)

LEMMA TablesKept ==
    ASSUME NEW a, NEW b, OrderTable(a), OrderTable(b)
    PROVE  /\ OrderTable(Updated(a, b))
           /\ OrderTable(apply_orders(a, b))
           /\ OrderTable(rebuild_active_orders(a))
<1>3. OrderTable(Updated(a, b))
  BY DEF OrderTable, Updated
<1>. DEFINE all == Updated(a, b)
<1>. HIDE DEF all
<1>4. OrderTable(apply_orders(a, b))
  <2>1. apply_orders(a, b) =
          [i \in {j \in DOMAIN all : ~(j \in DOMAIN b /\ is_terminal(all[j]))} |-> all[i]]
    BY DEF apply_orders, all
  <2>. QED
    BY <1>3, <2>1 DEF OrderTable, all
<1>5. OrderTable(rebuild_active_orders(a))
  BY DEF OrderTable, rebuild_active_orders
<1>. QED
  BY <1>3, <1>4, <1>5

LEMMA OneOrder ==
    ASSUME NEW r \in ReportType, r.kind = "order"
    PROVE  OrderTable(Latest(r))
<1>1. r.id \in Orders /\ r.order \in OrderType
  BY DEF ReportType
<1>. QED
  BY <1>1 DEF OrderTable, Latest

\* The largest of some numbers up to n.
LEMMA MaxOfSome ==
    ASSUME NEW n \in Nat, NEW S \in SUBSET (1..n), S # {}
    PROVE  Max(S) \in S
<1>. DEFINE D == {n - k : k \in S}
<1>1. PICK d \in D : \A e \in D : d <= e
  <2>1. \A k \in S : k \in 1..n /\ n - k \in Nat
    OBVIOUS
  <2>2. D \in SUBSET Nat /\ D # {}
    BY <2>1
  <2>. QED
    BY <2>2, Least
<1>2. PICK k \in S : d = n - k
  BY <1>1
<1>3. ASSUME NEW m \in S PROVE k >= m
  <2>1. d <= n - m
    BY <1>1
  <2>2. k \in 1..n /\ m \in 1..n
    OBVIOUS
  <2>. QED
    BY <1>2, <2>1, <2>2
<1>. QED
  BY <1>2, <1>3 DEF Max

LEMMA BufferedTable ==
    ASSUME reports \in Seq(ReportType), buffered \in 0..Len(reports)
    PROVE  OrderTable(BufferedOrders)
<1>1. ASSUME NEW i \in Orders, BufferedOf(i) # {}
      PROVE  reports[Max(BufferedOf(i))].order \in OrderType
  <2>0. BufferedOf(i) \in SUBSET (1..buffered) /\ buffered \in Nat
    BY DEF BufferedOf
  <2>1. Max(BufferedOf(i)) \in BufferedOf(i)
    BY <1>1, <2>0, MaxOfSome
  <2>2. PICK k \in BufferedOf(i) : k = Max(BufferedOf(i))
    BY <2>1
  <2>4. k \in 1..Len(reports) /\ reports[k].kind = "order"
    BY DEF BufferedOf
  <2>3. reports[k] \in ReportType
    BY <2>4
  <2>. QED
    BY <2>2, <2>3, <2>4 DEF ReportType
<1>. QED
  BY <1>1 DEF OrderTable, BufferedOrders

-----------------------------------------------------------------------------
(* The counter's steps *)

\* A step that touches neither the session nor its query keeps what they are.
LEMMA CounterStep ==
    ASSUME PInv, UNCHANGED <<query, snapshot, session, drops>>,
           Chain(reports, held, seen, snapshot)', Len(reports') >= Len(reports),
           reports' = <<>> => seen = held',
           OrderTable(book') /\ DOMAIN book' = Orders
    PROVE  PInv'
<1>. USE DEF session
<1>1. held' \in HeldType /\ Len(reports) \in Nat /\ Len(reports') \in Nat
  BY DEF PInv, Chain
<1>2. PositionTypeOK'
  BY <1>1 DEF PInv, TypeInv, PositionTypeOK
<1>3. TypeInv'
  BY <1>1, <1>2 DEF PInv, TypeInv, OrderTable
<1>4. StateInv'
  BY DEF PInv, StateInv
<1>5. NoDrift'
  BY <1>2 DEF PInv, NoDrift
<1>6. FramesFollowHolding'
  BY DEF PInv, FramesFollowHolding
<1>. QED
  BY <1>3, <1>4, <1>5, <1>6 DEF PInv

LEMMA AcceptKeeps ==
    ASSUME PositionAssumption, PInv, NEW i \in Orders, NEW e \in Effects, NEW n \in Volumes,
           Accept(i, e, n)
    PROVE  PInv'
<1>. DEFINE o == [effect |-> e, volume |-> n, traded |-> 0, status |-> "working"]
            r == OrderReport(i, o, held)
<1>1. Chain(reports, held, seen, snapshot) /\ reports \in Seq(ReportType) /\ held \in HeldType
  BY DEF PInv, Chain
<1>2. o \in OrderType
  BY DEF OrderType, PositionAssumption
<1>3. r \in ReportType /\ r.at = held /\ r.kind = "order"
  BY <1>1, <1>2 DEF ReportType, OrderReport
<1>4. /\ reports' = Append(reports, r) /\ book' = [book EXCEPT ![i] = o]
      /\ UNCHANGED <<held, query, snapshot, session, drops>>
  BY DEF Accept
<1>. HIDE DEF o, r
<1>5. Chain(Append(reports, r), r.at, seen, snapshot)
  BY <1>1, <1>3, ChainGrows DEF Follows
<1>6. OrderTable(book') /\ DOMAIN book' = Orders
  BY <1>2, <1>4 DEF PInv, TypeInv, OrderTable
<1>7. Len(reports') >= Len(reports) /\ reports' # <<>>
  BY <1>1, <1>3, <1>4
<1>8. Chain(reports, held, seen, snapshot)'
  BY <1>3, <1>4, <1>5 DEF session
<1>. QED
  BY <1>4, <1>6, <1>7, <1>8, CounterStep

LEMMA MatchKeeps ==
    ASSUME PInv, NEW i \in Orders, Match(i)
    PROVE  PInv'
<1>. DEFINE o == book[i]
            next == [o EXCEPT !.traded = @ + 1,
                              !.status = IF o.traded + 1 = o.volume THEN "done" ELSE "working"]
            t == TradeReport(o.effect, 1, held')
            first == OrderReport(i, next, held)
            last == OrderReport(i, next, held')
<1>1. Chain(reports, held, seen, snapshot) /\ reports \in Seq(ReportType) /\ held \in HeldType
  BY DEF PInv, Chain
<1>2. o \in OrderType
  BY DEF PInv, TypeInv, OrderTable
<1>3. next \in OrderType
  <2>. DEFINE status == IF o.traded + 1 = o.volume THEN "done" ELSE "working"
  <2>1. o.traded + 1 \in Nat /\ status \in {"none", "working", "done"}
    BY <1>2 DEF OrderType
  <2>. HIDE DEF o, status
  <2>2. [o EXCEPT !.traded = o.traded + 1, !.status = status] \in OrderType
    BY <1>2, <2>1 DEF OrderType
  <2>. QED
    BY <2>2 DEF status
<1>4. /\ CtpHolds(o.effect, 1) /\ held' = CtpClosed(o.effect, 1)
      /\ book' = [book EXCEPT ![i] = next]
      /\ UNCHANGED <<query, snapshot, session, drops>>
      /\ reports' = reports \o <<t, last>> \/ reports' = reports \o <<first, t>>
  BY DEF Match
<1>5. /\ held' \in HeldType /\ held'.trades = held.trades + 1
      /\ Held(held') = Held(MoveBy(held, t))
  <2>1. o.effect \in Effects
    BY <1>2 DEF OrderType
  <2>. HIDE DEF o
  <2>. QED
    BY <1>1, <1>4, <2>1, CtpMoves
<1>6. t \in ReportType /\ t.at = held' /\ t.kind = "trade"
  BY <1>2, <1>5 DEF ReportType, TradeReport, OrderType
<1>7. first \in ReportType /\ first.at = held /\ first.kind = "order"
  BY <1>1, <1>3 DEF ReportType, OrderReport
<1>8. last \in ReportType /\ last.at = held' /\ last.kind = "order"
  BY <1>3, <1>5 DEF ReportType, OrderReport
<1>9. OrderTable(book') /\ DOMAIN book' = Orders
  BY <1>3, <1>4 DEF PInv, TypeInv, OrderTable
<1>. HIDE DEF o, next, t, first, last
<1>10. Chain(reports', held', seen, snapshot) /\ Len(reports') >= Len(reports) /\ reports' # <<>>
  <2>1. CASE reports' = reports \o <<t, last>>
    <3>1. Chain(Append(reports, t), t.at, seen, snapshot)
      BY <1>1, <1>5, <1>6, ChainGrows DEF Follows
    <3>2. Chain(Append(Append(reports, t), last), last.at, seen, snapshot)
      BY <1>6, <1>8, <3>1, ChainGrows DEF Follows
    <3>3. reports' = Append(Append(reports, t), last)
      BY <1>1, <1>6, <1>8, <2>1
    <3>4. Len(reports') = Len(reports) + 2 /\ Len(reports) \in Nat
      BY <1>1, <1>6, <1>8, <3>3
    <3>. QED
      BY <1>8, <3>2, <3>3, <3>4
  <2>2. CASE reports' = reports \o <<first, t>>
    <3>1. Chain(Append(reports, first), first.at, seen, snapshot)
      BY <1>1, <1>7, ChainGrows DEF Follows
    <3>2. Chain(Append(Append(reports, first), t), t.at, seen, snapshot)
      BY <1>5, <1>6, <1>7, <3>1, ChainGrows DEF Follows
    <3>3. reports' = Append(Append(reports, first), t)
      BY <1>1, <1>6, <1>7, <2>2
    <3>4. Len(reports') = Len(reports) + 2 /\ Len(reports) \in Nat
      BY <1>1, <1>6, <1>7, <3>3
    <3>. QED
      BY <1>6, <3>2, <3>3, <3>4
  <2>. QED
    BY <1>4, <2>1, <2>2
<1>11. Chain(reports, held, seen, snapshot)'
  BY <1>4, <1>10 DEF session
<1>. QED
  BY <1>4, <1>9, <1>10, <1>11, CounterStep

LEMMA CancelKeeps ==
    ASSUME PInv, NEW i \in Orders, Cancel(i)
    PROVE  PInv'
<1>. DEFINE o == [book[i] EXCEPT !.status = "done"]
            r == OrderReport(i, o, held)
<1>1. Chain(reports, held, seen, snapshot) /\ reports \in Seq(ReportType) /\ held \in HeldType
  BY DEF PInv, Chain
<1>2. o \in OrderType
  <2>1. book[i] \in OrderType
    BY DEF PInv, TypeInv, OrderTable
  <2>. QED
    BY <2>1 DEF OrderType
<1>3. r \in ReportType /\ r.at = held /\ r.kind = "order"
  BY <1>1, <1>2 DEF ReportType, OrderReport
<1>4. /\ reports' = Append(reports, r) /\ book' = [book EXCEPT ![i] = o]
      /\ UNCHANGED <<held, query, snapshot, session, drops>>
  BY DEF Cancel
<1>. HIDE DEF o, r
<1>5. Chain(Append(reports, r), r.at, seen, snapshot)
  BY <1>1, <1>3, ChainGrows DEF Follows
<1>6. OrderTable(book') /\ DOMAIN book' = Orders
  BY <1>2, <1>4 DEF PInv, TypeInv, OrderTable
<1>7. Len(reports') >= Len(reports) /\ reports' # <<>>
  BY <1>1, <1>3, <1>4
<1>8. Chain(reports, held, seen, snapshot)'
  BY <1>3, <1>4, <1>5 DEF session
<1>. QED
  BY <1>4, <1>6, <1>7, <1>8, CounterStep

LEMMA OpenKeeps ==
    ASSUME PInv, OpenTrade
    PROVE  PInv'
<1>. DEFINE r == TradeReport("open", 1, held')
<1>1. Chain(reports, held, seen, snapshot) /\ reports \in Seq(ReportType) /\ held \in HeldType
  BY DEF PInv, Chain
<1>2. /\ held' = [held EXCEPT !.today = @ + 1, !.trades = @ + 1]
      /\ reports' = Append(reports, r)
      /\ UNCHANGED <<book, query, snapshot, session, drops>>
  BY DEF OpenTrade
<1>3. held' \in HeldType /\ held'.trades = held.trades + 1
  <2>1. held.today + 1 \in Nat /\ held.trades + 1 \in Nat
    BY <1>1 DEF HeldType
  <2>2. held' = [held EXCEPT !.today = held.today + 1, !.trades = held.trades + 1]
    BY <1>2
  <2>. QED
    BY <1>1, <2>1, <2>2 DEF HeldType
<1>4. r \in ReportType /\ r.at = held' /\ r.kind = "trade" /\ r.effect = "open" /\ r.volume = 1
  BY <1>3 DEF ReportType, TradeReport
<1>. HIDE DEF r
<1>5. Held(held') = Held(MoveBy(held, r))
  BY <1>1, <1>2, <1>4 DEF MoveBy, Held, HeldType
<1>6. Chain(Append(reports, r), r.at, seen, snapshot)
  BY <1>1, <1>3, <1>4, <1>5, ChainGrows DEF Follows
<1>7. Len(reports') >= Len(reports) /\ reports' # <<>>
  BY <1>1, <1>2, <1>4
<1>8. Chain(reports, held, seen, snapshot)'
  BY <1>2, <1>4, <1>6 DEF session
<1>9. OrderTable(book') /\ DOMAIN book' = Orders
  BY <1>2 DEF PInv, TypeInv, OrderTable
<1>. QED
  BY <1>2, <1>7, <1>8, <1>9, CounterStep

-----------------------------------------------------------------------------
(* The session's steps *)

\* A pushed holding is the one the readers and the database have.
LEMMA PushFollows ==
    ASSUME ready, FramesFollowHolding, NEW holding, push_position(holding),
           UNCHANGED <<ready, drops>>
    PROVE  /\ side' = holding
           /\ pushed' \in {pushed, holding} /\ row' \in {row, holding}
           /\ FramesFollowHolding'
<1>1. /\ side' = holding
      /\ pushed' = IF holding = side THEN pushed ELSE holding
      /\ row' = IF holding = side THEN row ELSE holding
  BY DEF push_position
<1>2. CASE holding = side
  BY <1>1, <1>2 DEF FramesFollowHolding
<1>3. CASE holding # side
  BY <1>1, <1>3 DEF FramesFollowHolding
<1>. QED
  BY <1>1, <1>2, <1>3

\* What every state of the invariant has.
LEMMA Facts ==
    ASSUME PInv
    PROVE  /\ Chain(reports, held, seen, snapshot) /\ reports \in Seq(ReportType)
           /\ held \in HeldType /\ seen \in HeldType /\ snapshot \in HeldType
           /\ side \in SideType /\ pushed \in SideType /\ (row = NoRow \/ row \in SideType)
           /\ OrderTable(active) /\ OrderTable(known) /\ OrderTable(book) /\ DOMAIN book = Orders
           /\ buffered \in 0..Len(reports) /\ Len(reports) \in Nat /\ drops \in Nat
           /\ st \in {"down", "loading", "ready"}
           /\ query \in {"none", "asked", "answered", "failed", "lost"}
           /\ FramesFollowHolding
<1>1. PositionTypeOK /\ TypeInv /\ Chain(reports, held, seen, snapshot) /\ FramesFollowHolding
  BY DEF PInv, TypeInv
<1>2. reports \in Seq(ReportType)
  BY <1>1 DEF Chain
<1>3. Len(reports) \in Nat
  BY <1>2
<1>4. ready \in BOOLEAN /\ in_flight \in BOOLEAN /\ raced \in BOOLEAN
  BY <1>1, Zenon DEF PositionTypeOK
<1>. QED
  BY <1>1, <1>2, <1>3 DEF PositionTypeOK, TypeInv

\* Putting the parts together.
LEMMA AllParts ==
    ASSUME Chain(reports, held, seen, snapshot)',
           (/\ side \in SideType /\ pushed \in SideType /\ (row = NoRow \/ row \in SideType)
            /\ side.frozen_td <= side.today /\ side.frozen_yd <= side.yd
            /\ OrderTable(active) /\ OrderTable(known) /\ OrderTable(book) /\ DOMAIN book = Orders
            /\ buffered \in 0..Len(reports) /\ drops \in Nat
            /\ st \in {"down", "loading", "ready"}
            /\ query \in {"none", "asked", "answered", "failed", "lost"})',
           ready' \in BOOLEAN, in_flight' \in BOOLEAN, raced' \in BOOLEAN,
           StateInv', (st = "ready" /\ ~raced => Held(side) = Held(seen))',
           FramesFollowHolding'
    PROVE  PInv'
<1>1. (held \in HeldType /\ snapshot \in HeldType /\ seen \in HeldType)'
  BY DEF Chain
<1>2. (reports = <<>> => seen = held)'
  BY DEF Chain
<1>3. PositionTypeOK'
  BY <1>1 DEF PositionTypeOK, OrderTable
<1>. QED
  BY <1>2, <1>3 DEF PInv, TypeInv, NoDrift

LEMMA Flags ==
    ASSUME PInv
    PROVE  ready \in BOOLEAN /\ in_flight \in BOOLEAN /\ raced \in BOOLEAN
BY Zenon DEF PInv, TypeInv, PositionTypeOK

LEMMA DeliverKeeps ==
    ASSUME PositionAssumption, PInv, Deliver
    PROVE  PInv'
<1>. DEFINE r == Head(reports)
<1>1. /\ Chain(reports, held, seen, snapshot) /\ reports \in Seq(ReportType)
      /\ side \in SideType /\ pushed \in SideType /\ (row = NoRow \/ row \in SideType)
      /\ OrderTable(active) /\ OrderTable(known) /\ OrderTable(book) /\ DOMAIN book = Orders
      /\ buffered \in 0..Len(reports) /\ Len(reports) \in Nat /\ drops \in Nat
      /\ st \in {"down", "loading", "ready"}
      /\ query \in {"none", "asked", "answered", "failed", "lost"}
      /\ FramesFollowHolding /\ IsFiniteSet(Orders) /\ seen \in HeldType
  BY Facts DEF PositionAssumption
<1>2. buffered < Len(reports) /\ st # "down"
      /\ UNCHANGED <<counter, query, snapshot, st, ready, in_flight, raced, drops, fails>>
  BY DEF Deliver
<1>3. ready' \in BOOLEAN /\ in_flight' \in BOOLEAN /\ raced' \in BOOLEAN
  BY <1>2, Flags
<1>4. CASE st = "loading"
  <2>1. /\ buffered' = buffered + 1
        /\ UNCHANGED <<reports, side, active, known, seen, pushed, row>>
    BY <1>4 DEF Deliver
  <2>2. Chain(reports, held, seen, snapshot)'
    BY <1>1, <1>2, <2>1 DEF counter
  <2>3. StateInv' /\ FramesFollowHolding'
    BY <1>2, <1>4, <2>1 DEF PInv, StateInv, FramesFollowHolding, counter
  <2>4. (side.frozen_td <= side.today /\ side.frozen_yd <= side.yd)'
    BY <2>1 DEF PInv, NoDrift
  <2>5. (buffered \in 0..Len(reports))'
    BY <1>1, <1>2, <2>1
  <2>6. (OrderTable(active) /\ OrderTable(known) /\ OrderTable(book) /\ DOMAIN book = Orders)'
    BY <1>1, <1>2, <2>1 DEF counter
  <2>. QED
    BY <1>1, <1>2, <1>3, <1>4, <2>1, <2>2, <2>3, <2>4, <2>5, <2>6, AllParts
<1>5. CASE st # "loading"
  <2>1. st = "ready" /\ ready /\ buffered = 0
    BY <1>1, <1>2, <1>5 DEF PInv, StateInv
  <2>2. /\ UNCHANGED buffered
        /\ reports' = Tail(reports) /\ seen' = r.at
        /\ IF r.kind = "order" THEN on_rtn_order(r) ELSE on_rtn_trade(r)
    BY <1>5 DEF Deliver
  <2>3. r = reports[1] /\ r \in ReportType /\ 1 \in 1..Len(reports)
    BY <1>1, <1>2, <2>1
  <2>4. Chain(reports, held, seen, snapshot)'
    <3>1. reports' = SubSeq(reports, 1 + 1, Len(reports))
      BY <1>1, <1>2, <2>1, <2>2
    <3>2. Chain(SubSeq(reports, 1 + 1, Len(reports)), held, reports[1].at, snapshot)
      BY <1>1, <2>3, ChainCut
    <3>3. held' = held /\ snapshot' = snapshot /\ seen' = reports[1].at
      BY <1>2, <2>2, <2>3 DEF counter
    <3>. QED
      BY <3>1, <3>2, <3>3, Zenon
  <2>5. Follows(r, seen)
    BY <1>1, <2>3 DEF Chain, Before
  <2>6. (buffered \in 0..Len(reports))'
    BY <2>1, <2>2, <2>4 DEF Chain
  <2>7. /\ side' \in SideType /\ pushed' \in SideType /\ (row' = NoRow \/ row' \in SideType)
        /\ side'.frozen_td <= side'.today /\ side'.frozen_yd <= side'.yd
        /\ OrderTable(active') /\ OrderTable(known') /\ FramesFollowHolding'
        /\ ~raced => Held(side') = Held(seen')
    <3>1. CASE r.kind = "order"
      <4>. DEFINE orders == apply_orders(active, Latest(r))
      <4>1. /\ known' = Updated(known, Latest(r)) /\ active' = orders
            /\ push_position(recompute_frozen(side, orders))
        BY <2>1, <2>2, <3>1 DEF on_rtn_order
      <4>2. OrderTable(Latest(r))
        BY <2>3, <3>1, OneOrder
      <4>3. OrderTable(orders) /\ OrderTable(known')
        BY <1>1, <4>1, <4>2, TablesKept
      <4>. HIDE DEF orders
      <4>4. /\ side' = recompute_frozen(side, orders)
            /\ pushed' \in {pushed, side'} /\ row' \in {row, side'}
            /\ FramesFollowHolding'
        BY <1>1, <1>2, <2>1, <4>1, PushFollows
      <4>5. /\ side' \in SideType /\ Held(side') = Held(side)
            /\ side'.frozen_td <= side'.today /\ side'.frozen_yd <= side'.yd
        BY <1>1, <4>3, <4>4, FrozenWithin
      <4>6. seen' = seen
        BY <2>2, <2>5, <3>1 DEF Follows
      <4>7. ~raced => Held(side) = Held(seen)
        BY <2>1 DEF PInv, NoDrift
      <4>. QED
        BY <1>1, <4>1, <4>3, <4>4, <4>5, <4>6, <4>7
    <3>2. CASE r.kind # "order"
      <4>1. UNCHANGED <<active, known>> /\ push_position(apply_trade(side, active, r))
        BY <2>1, <2>2, <3>2 DEF on_rtn_trade
      <4>2. r.kind = "trade"
        BY <2>3, <3>2 DEF ReportType
      <4>3. /\ side' = recompute_frozen(MoveBy(side, r), active)
            /\ pushed' \in {pushed, side'} /\ row' \in {row, side'}
            /\ FramesFollowHolding'
        BY <1>1, <1>2, <2>1, <4>1, PushFollows DEF apply_trade
      <4>4. MoveBy(side, r) \in SideType
        BY <1>1, <2>3, <4>2, MoveType
      <4>5. /\ side' \in SideType /\ Held(side') = Held(MoveBy(side, r))
            /\ side'.frozen_td <= side'.today /\ side'.frozen_yd <= side'.yd
        BY <1>1, <4>3, <4>4, FrozenWithin
      <4>6. Held(r.at) = Held(MoveBy(seen, r))
        BY <2>5, <3>2 DEF Follows
      <4>7. ~raced => Held(side) = Held(seen)
        BY <2>1 DEF PInv, NoDrift
      <4>8. ~raced => Held(MoveBy(side, r)) = Held(MoveBy(seen, r))
        BY <1>1, <2>3, <4>2, <4>7, MoveHeld
      <4>. QED
        BY <1>1, <2>2, <4>1, <4>3, <4>5, <4>6, <4>8
    <3>. QED
      BY <3>1, <3>2
  <2>8. StateInv'
    BY <1>2, <2>1, <2>2 DEF PInv, StateInv
  <2>9. (OrderTable(book) /\ DOMAIN book = Orders)'
    BY <1>1, <1>2 DEF counter
  <2>10. (st = "ready" /\ ~raced => Held(side) = Held(seen))'
    BY <1>2, <2>7
  <2>. QED
    BY <1>1, <1>2, <1>3, <2>4, <2>6, <2>7, <2>8, <2>9, <2>10, AllParts
<1>. QED
  BY <1>4, <1>5

LEMMA AnswerKeeps ==
    ASSUME PInv, Answer
    PROVE  PInv'
<1>1. /\ Chain(reports, held, seen, snapshot) /\ reports \in Seq(ReportType)
      /\ side \in SideType /\ pushed \in SideType /\ (row = NoRow \/ row \in SideType)
      /\ OrderTable(active) /\ OrderTable(known) /\ OrderTable(book) /\ DOMAIN book = Orders
      /\ buffered \in 0..Len(reports) /\ drops \in Nat
      /\ st \in {"down", "loading", "ready"}
      /\ FramesFollowHolding
  BY Facts
<1>2. /\ query = "asked" /\ query' = "answered" /\ snapshot' = held
      /\ UNCHANGED <<held, book, opens, reports, session, drops, fails>>
  BY DEF Answer, counter
<1>3. ready' \in BOOLEAN /\ in_flight' \in BOOLEAN /\ raced' \in BOOLEAN
  BY <1>2, Flags DEF session
<1>4. Chain(reports, held, seen, snapshot)'
  <2>1. Chain(reports, held, seen, held)
    BY <1>1, ChainAnswered
  <2>2. reports' = reports /\ held' = held /\ seen' = seen
    BY <1>2 DEF session
  <2>. QED
    BY <1>2, <2>1, <2>2, Zenon
<1>5. StateInv'
  BY <1>2 DEF PInv, StateInv, session
<1>6. FramesFollowHolding'
  BY <1>1, <1>2 DEF FramesFollowHolding, session
<1>7. (side.frozen_td <= side.today /\ side.frozen_yd <= side.yd)'
      /\ (st = "ready" /\ ~raced => Held(side) = Held(seen))'
  BY <1>2 DEF PInv, NoDrift, session
<1>. QED
  BY <1>1, <1>2, <1>3, <1>4, <1>5, <1>6, <1>7, AllParts DEF session

\* Steps of the query that leave holding, reports and snapshot alone.
LEMMA QueryStep ==
    ASSUME PInv,
           UNCHANGED <<held, book, reports, snapshot, ready, side, active, known, buffered,
                       seen, raced, pushed, row, drops>>,
           query' \in {"none", "asked", "answered", "failed", "lost"},
           in_flight' \in BOOLEAN,
           \/ st' = st /\ st = "ready"
           \/ st = "down" /\ st' = "loading"
    PROVE  PInv'
<1>1. /\ Chain(reports, held, seen, snapshot) /\ reports \in Seq(ReportType)
      /\ side \in SideType /\ pushed \in SideType /\ (row = NoRow \/ row \in SideType)
      /\ OrderTable(active) /\ OrderTable(known) /\ OrderTable(book) /\ DOMAIN book = Orders
      /\ buffered \in 0..Len(reports) /\ drops \in Nat
      /\ FramesFollowHolding
  BY Facts
<1>3. ready' \in BOOLEAN /\ raced' \in BOOLEAN
  BY Flags
<1>4. Chain(reports, held, seen, snapshot)'
  BY <1>1
<1>5. StateInv'
  BY DEF PInv, StateInv
<1>6. FramesFollowHolding'
  BY <1>1 DEF FramesFollowHolding
<1>7. (side.frozen_td <= side.today /\ side.frozen_yd <= side.yd)'
      /\ (st = "ready" /\ ~raced => Held(side) = Held(seen))'
  BY DEF PInv, NoDrift
<1>. QED
  BY <1>1, <1>3, <1>4, <1>5, <1>6, <1>7, AllParts

LEMMA QueryStepsKeep ==
    ASSUME PInv, AnswerFails \/ start_login \/ on_position_poll_timer \/ QueryTimeout
    PROVE  PInv'
<1>0. in_flight \in BOOLEAN
  BY Flags
<1>9. query \in {"none", "asked", "answered", "failed", "lost"}
  BY Facts
<1>1. CASE AnswerFails
  <2>1. /\ query' \in {"failed", "lost"} /\ in_flight' = in_flight /\ st' = st /\ st = "ready"
        /\ UNCHANGED <<held, book, reports, snapshot, ready, side, active, known, buffered,
                       seen, raced, pushed, row, drops>>
    BY <1>1 DEF AnswerFails, counter, session
  <2>. QED
    BY <1>0, <2>1, QueryStep
<1>2. CASE start_login
  <2>1. /\ query' = "asked" /\ in_flight' = TRUE /\ st' = "loading" /\ st = "down"
        /\ UNCHANGED <<held, book, reports, snapshot, ready, side, active, known, buffered,
                       seen, raced, pushed, row, drops>>
    BY <1>2 DEF start_login, counter
  <2>. QED
    BY <2>1, QueryStep
<1>3. CASE on_position_poll_timer
  <2>1. /\ query' = "asked" /\ in_flight' = TRUE /\ st' = st /\ st = "ready"
        /\ UNCHANGED <<held, book, reports, snapshot, ready, side, active, known, buffered,
                       seen, raced, pushed, row, drops>>
    BY <1>3 DEF on_position_poll_timer, counter
  <2>. QED
    BY <2>1, QueryStep
<1>4. CASE QueryTimeout
  <2>1. /\ query' = query /\ in_flight' = FALSE /\ st' = st /\ st = "ready"
        /\ UNCHANGED <<held, book, reports, snapshot, ready, side, active, known, buffered,
                       seen, raced, pushed, row, drops>>
    BY <1>4 DEF QueryTimeout, counter
  <2>. QED
    BY <1>9, <2>1, QueryStep
<1>. QED
  BY <1>1, <1>2, <1>3, <1>4

\* A lost connection: nothing is held until the next login's answer.
LEMMA DropKeeps ==
    ASSUME PInv, on_front_disconnected
    PROVE  PInv'
<1>1. /\ Chain(reports, held, seen, snapshot) /\ reports \in Seq(ReportType)
      /\ pushed \in SideType /\ (row = NoRow \/ row \in SideType)
      /\ OrderTable(known) /\ OrderTable(book) /\ DOMAIN book = Orders
      /\ Len(reports) \in Nat /\ drops \in Nat
  BY Facts
<1>2. /\ drops' = drops + 1 /\ st' = "down" /\ ready' = FALSE /\ in_flight' = FALSE
      /\ query' = "none" /\ side' = Flat /\ active' = <<>> /\ buffered' = 0
      /\ UNCHANGED <<held, book, reports, snapshot, known, seen, raced, pushed, row>>
  BY DEF on_front_disconnected, counter
<1>3. raced' \in BOOLEAN
  BY <1>2, Flags
<1>4. Chain(reports, held, seen, snapshot)'
  BY <1>1, <1>2
<1>5. /\ Flat \in SideType /\ Flat.frozen_td <= Flat.today /\ Flat.frozen_yd <= Flat.yd
  BY DEF Flat, SideType
<1>6. OrderTable(<<>>)
  BY DEF OrderTable
<1>7. StateInv'
  BY <1>1, <1>2 DEF StateInv
<1>8. FramesFollowHolding'
  BY <1>2 DEF FramesFollowHolding
<1>9. (/\ side \in SideType /\ pushed \in SideType /\ (row = NoRow \/ row \in SideType)
       /\ side.frozen_td <= side.today /\ side.frozen_yd <= side.yd
       /\ OrderTable(active) /\ OrderTable(known) /\ OrderTable(book) /\ DOMAIN book = Orders
       /\ buffered \in 0..Len(reports) /\ drops \in Nat
       /\ st \in {"down", "loading", "ready"}
       /\ query \in {"none", "asked", "answered", "failed", "lost"})'
  BY <1>1, <1>2, <1>5, <1>6
<1>. QED
  BY <1>2, <1>3, <1>4, <1>7, <1>8, <1>9, AllParts

\* The answer of a query: the holding becomes the snapshot.
LEMMA RspKeeps ==
    ASSUME PositionAssumption, PInv, on_rsp_qry_investor_position
    PROVE  PInv'
<1>1. /\ Chain(reports, held, seen, snapshot) /\ reports \in Seq(ReportType)
      /\ side \in SideType /\ pushed \in SideType /\ (row = NoRow \/ row \in SideType)
      /\ OrderTable(active) /\ OrderTable(known) /\ OrderTable(book) /\ DOMAIN book = Orders
      /\ buffered \in 0..Len(reports) /\ drops \in Nat /\ st \in {"down", "loading", "ready"}
      /\ snapshot \in HeldType /\ seen \in HeldType
      /\ FramesFollowHolding /\ IsFiniteSet(Orders)
  BY Facts DEF PositionAssumption
<1>2. /\ query \in {"answered", "failed"} /\ query' = "none" /\ in_flight' = FALSE
      /\ UNCHANGED <<held, book, reports, snapshot, st, known, buffered, seen, drops>>
  BY DEF on_rsp_qry_investor_position, counter
<1>3. st # "down"
  BY <1>2 DEF PInv, StateInv
<1>4. Chain(reports, held, seen, snapshot)'
  BY <1>1, <1>2
<1>5. CASE query # "answered"
  <2>1. UNCHANGED <<active, side, pushed, row, ready, raced>>
    BY <1>5 DEF on_rsp_qry_investor_position
  <2>2. ready' \in BOOLEAN /\ raced' \in BOOLEAN
    BY <2>1, Flags
  <2>3. StateInv' /\ FramesFollowHolding'
    BY <1>2, <1>3, <2>1 DEF PInv, StateInv, FramesFollowHolding
  <2>4. (side.frozen_td <= side.today /\ side.frozen_yd <= side.yd)'
        /\ (st = "ready" /\ ~raced => Held(side) = Held(seen))'
    BY <1>2, <2>1 DEF PInv, NoDrift
  <2>. QED
    BY <1>1, <1>2, <1>4, <2>1, <2>2, <2>3, <2>4, AllParts
<1>6. CASE query = "answered"
  <2>. DEFINE absolute == apply_query_side(side, active, Volume(snapshot), snapshot.yd)
              orders == rebuild_active_orders(known)
              next == recompute_frozen(absolute, orders)
  <2>1. /\ active' = orders /\ side' = next
        /\ pushed' = IF next = side /\ absolute = side THEN pushed ELSE next
        /\ row' = CASE ~ready \/ absolute # side ->
                          IF Volume(snapshot) = 0 THEN NoRow ELSE next
                    [] ready /\ absolute = side /\ next # side -> next
                    [] OTHER -> row
        /\ ready' = TRUE /\ raced' = (snapshot.trades # seen.trades)
    BY <1>6 DEF on_rsp_qry_investor_position, apply_position_query
  <2>2. absolute \in SideType /\ Held(absolute) = Held(snapshot)
    BY <1>1, QuerySide
  <2>3. OrderTable(orders)
    BY <1>1, TablesKept
  <2>. HIDE DEF absolute, orders
  <2>4. /\ next \in SideType /\ Held(next) = Held(snapshot)
        /\ next.frozen_td <= next.today /\ next.frozen_yd <= next.yd
    BY <1>1, <2>2, <2>3, FrozenWithin
  <2>. HIDE DEF next
  <2>5. (st = "ready" /\ ~raced => Held(side) = Held(seen))'
    <3>1. snapshot.trades = seen.trades => snapshot = seen
      BY <1>1 DEF Chain, Points
    <3>. QED
      BY <1>2, <2>1, <2>4, <3>1
  <2>6. StateInv'
    BY <1>2, <1>3, <2>1, <2>4 DEF PInv, StateInv
  <2>7. Volume(snapshot) = 0 => Held(next) = Held(Flat)
    <3>1. snapshot.today \in Nat /\ snapshot.yd \in Nat
      BY <1>1 DEF HeldType
    <3>. QED
      BY <2>4, <3>1 DEF Volume, Held, Flat
  <2>8. row' = side' \/ (row' = NoRow /\ Held(side') = Held(Flat))
    <3>1. CASE ~ready \/ absolute # side
      BY <2>1, <2>7, <3>1
    <3>2. CASE ready /\ absolute = side /\ next # side
      BY <2>1, <3>2
    <3>3. CASE ready /\ absolute = side /\ next = side
      <4>1. row' = row
        BY <2>1, <3>3
      <4>. QED
        BY <1>1, <2>1, <3>3, <4>1 DEF FramesFollowHolding
    <3>. QED
      BY <3>1, <3>2, <3>3
  <2>9. drops = 0 \/ Held(side') # Held(Flat) => pushed' = side'
    <3>1. CASE ~(next = side /\ absolute = side)
      BY <2>1, <3>1
    <3>2. CASE next = side /\ ready
      BY <1>1, <2>1, <3>2 DEF FramesFollowHolding
    <3>3. CASE next = side /\ absolute = side /\ ~ready
      <4>1. side = Flat /\ (drops = 0 => pushed = Flat)
        BY <3>3 DEF PInv, StateInv
      <4>. QED
        BY <2>1, <3>3, <4>1
    <3>. QED
      BY <3>1, <3>2, <3>3
  <2>10. FramesFollowHolding'
    BY <1>2, <2>8, <2>9 DEF FramesFollowHolding
  <2>11. /\ side' \in SideType /\ pushed' \in SideType /\ (row' = NoRow \/ row' \in SideType)
         /\ side'.frozen_td <= side'.today /\ side'.frozen_yd <= side'.yd
         /\ OrderTable(active') /\ ready' \in BOOLEAN /\ raced' \in BOOLEAN
    BY <1>1, <2>1, <2>3, <2>4, <2>8
  <2>. QED
    BY <1>1, <1>2, <1>4, <2>5, <2>6, <2>10, <2>11, AllParts
<1>. QED
  BY <1>5, <1>6

\* The end of the login: the buffered reports have been taken in.
LEMMA ReplayKeeps ==
    ASSUME PositionAssumption, PInv, replay_buffered_reports
    PROVE  PInv'
<1>1. /\ Chain(reports, held, seen, snapshot) /\ reports \in Seq(ReportType)
      /\ side \in SideType /\ pushed \in SideType /\ (row = NoRow \/ row \in SideType)
      /\ OrderTable(active) /\ OrderTable(known) /\ OrderTable(book) /\ DOMAIN book = Orders
      /\ buffered \in 0..Len(reports) /\ Len(reports) \in Nat /\ drops \in Nat
      /\ query \in {"none", "asked", "answered", "failed", "lost"}
      /\ FramesFollowHolding /\ IsFiniteSet(Orders)
  BY Facts DEF PositionAssumption
<1>. DEFINE orders == apply_orders(active, BufferedOrders)
<1>2. /\ st = "loading" /\ ready /\ st' = "ready"
      /\ known' = Updated(known, BufferedOrders) /\ active' = orders
      /\ push_position(recompute_frozen(side, orders))
      /\ seen' = IF buffered = 0 THEN seen ELSE reports[buffered].at
      /\ raced' = (snapshot.trades # seen'.trades)
      /\ reports' = SubSeq(reports, buffered + 1, Len(reports)) /\ buffered' = 0
      /\ UNCHANGED <<held, book, query, snapshot, ready, in_flight, drops>>
  BY DEF replay_buffered_reports, counter
<1>3. OrderTable(BufferedOrders)
  BY <1>1, BufferedTable
<1>4. OrderTable(known') /\ OrderTable(orders)
  BY <1>1, <1>2, <1>3, TablesKept
<1>. HIDE DEF orders
<1>5. /\ side' = recompute_frozen(side, orders)
      /\ pushed' \in {pushed, side'} /\ row' \in {row, side'}
      /\ FramesFollowHolding'
  BY <1>1, <1>2, PushFollows
<1>6. /\ side' \in SideType /\ Held(side') = Held(side)
      /\ side'.frozen_td <= side'.today /\ side'.frozen_yd <= side'.yd
  BY <1>1, <1>4, <1>5, FrozenWithin
<1>7. Chain(reports', held, seen', snapshot)
  <2>1. CASE buffered = 0
    <3>1. reports' = reports /\ seen' = seen
      BY <1>1, <1>2, <2>1
    <3>. QED
      BY <1>1, <3>1
  <2>2. CASE buffered # 0
    <3>1. buffered \in 1..Len(reports)
      BY <1>1, <2>2
    <3>2. Chain(SubSeq(reports, buffered + 1, Len(reports)), held, reports[buffered].at, snapshot)
      BY <1>1, <3>1, ChainCut
    <3>3. reports' = SubSeq(reports, buffered + 1, Len(reports)) /\ seen' = reports[buffered].at
      BY <1>2, <2>2
    <3>. QED
      BY <3>2, <3>3, Zenon
  <2>. QED
    BY <2>1, <2>2
<1>8. Chain(reports, held, seen, snapshot)'
  BY <1>2, <1>7, Zenon
<1>9. Held(side) = Held(snapshot)
  BY <1>2 DEF PInv, StateInv
<1>10. (st = "ready" /\ ~raced => Held(side) = Held(seen))'
  <2>1. snapshot.trades = seen'.trades => snapshot = seen'
    BY <1>7 DEF Chain, Points
  <2>. QED
    BY <1>2, <1>6, <1>9, <2>1
<1>11. StateInv'
  BY <1>2 DEF StateInv
<1>12. (buffered \in 0..Len(reports))'
  BY <1>2, <1>8 DEF Chain
<1>13. ready' \in BOOLEAN /\ in_flight' \in BOOLEAN /\ raced' \in BOOLEAN
  BY <1>2, Flags
<1>14. pushed' \in SideType /\ (row' = NoRow \/ row' \in SideType)
  BY <1>1, <1>5, <1>6
<1>. QED
  BY <1>1, <1>2, <1>4, <1>5, <1>6, <1>8, <1>10, <1>11, <1>12, <1>13, <1>14, AllParts

-----------------------------------------------------------------------------
(* The theorem *)

LEMMA PositionStart == PositionAssumption /\ PositionInit => PInv
<1>. SUFFICES ASSUME PositionAssumption, PositionInit PROVE PInv
  OBVIOUS
<1>1. /\ held \in HeldType /\ seen = held /\ snapshot = held /\ reports = <<>>
  BY DEF PositionInit, PositionAssumption, HeldType
<1>2. Chain(reports, held, seen, snapshot)
  BY <1>1 DEF Chain, Points, HeldType
<1>3. side = Flat /\ pushed = Flat /\ Flat \in SideType /\ row = NoRow
      /\ Flat.frozen_td <= Flat.today /\ Flat.frozen_yd <= Flat.yd
  BY DEF PositionInit, Flat, SideType
<1>4. OrderTable(active) /\ OrderTable(known) /\ OrderTable(book) /\ DOMAIN book = Orders
  BY DEF PositionInit, OrderTable, OrderType, NoOrder, Effects
<1>5. ready = FALSE /\ in_flight = FALSE /\ raced = FALSE /\ st = "down" /\ query = "none"
      /\ buffered = 0 /\ drops = 0
  BY DEF PositionInit
<1>6. PositionTypeOK
  BY <1>1, <1>3, <1>4, <1>5 DEF PositionTypeOK, OrderTable
<1>7. TypeInv /\ StateInv /\ NoDrift /\ FramesFollowHolding
  BY <1>1, <1>3, <1>4, <1>5, <1>6 DEF TypeInv, StateInv, NoDrift, FramesFollowHolding
<1>. QED
  BY <1>2, <1>7 DEF PInv

LEMMA PositionStep ==
    ASSUME PositionAssumption, PInv, [PositionNext]_positionVars
    PROVE  PInv'
<1>1. ASSUME NEW i \in Orders, NEW e \in Effects, NEW n \in Volumes, Accept(i, e, n) PROVE PInv'
  BY <1>1, AcceptKeeps
<1>2. ASSUME NEW i \in Orders, Match(i) PROVE PInv'
  BY <1>2, MatchKeeps
<1>3. ASSUME NEW i \in Orders, Cancel(i) PROVE PInv'
  BY <1>3, CancelKeeps
<1>4. CASE OpenTrade
  BY <1>4, OpenKeeps
<1>5. CASE Answer
  BY <1>5, AnswerKeeps
<1>6. CASE AnswerFails \/ start_login \/ on_position_poll_timer \/ QueryTimeout
  BY <1>6, QueryStepsKeep
<1>7. CASE Deliver
  BY <1>7, DeliverKeeps
<1>8. CASE on_rsp_qry_investor_position
  BY <1>8, RspKeeps
<1>9. CASE replay_buffered_reports
  BY <1>9, ReplayKeeps
<1>10. CASE on_front_disconnected
  BY <1>10, DropKeeps
<1>11. CASE UNCHANGED positionVars
  <2>1. UNCHANGED <<query, snapshot, session, drops, reports, held, book>>
    BY <1>11 DEF positionVars, counter
  <2>2. Len(reports) \in Nat /\ (reports = <<>> => seen = held)
        /\ Chain(reports, held, seen, snapshot) /\ OrderTable(book) /\ DOMAIN book = Orders
    <3>1. reports = <<>> => seen = held
      BY DEF PInv, NoDrift
    <3>. QED
      BY <3>1, Facts
  <2>3. Chain(reports, held, seen, snapshot)'
    BY <2>1, <2>2 DEF session
  <2>4. Len(reports') >= Len(reports) /\ (reports' = <<>> => seen = held')
        /\ OrderTable(book') /\ DOMAIN book' = Orders
    BY <2>1, <2>2
  <2>. QED
    BY <2>1, <2>3, <2>4, CounterStep
<1>. QED
  BY <1>1, <1>2, <1>3, <1>4, <1>5, <1>6, <1>7, <1>8, <1>9, <1>10, <1>11 DEF PositionNext

(* td_account_session.cpp on_rtn_trade, push_position, apply_position_query: what
   the session holds is what the counter held after the last report taken in, as
   long as no answer was overtaken; it never freezes more than it holds; and the
   readers' frame and the database's row are the same holding. *)
THEOREM HoldingsCorrect ==
    ASSUME PositionAssumption
    PROVE  PositionSpec => []HoldingsAgree
<1>1. PositionInit => PInv
  BY PositionStart
<1>2. PInv /\ [PositionNext]_positionVars => PInv'
  BY PositionStep
<1>3. PInv => HoldingsAgree
  BY DEF PInv, HoldingsAgree
<1>. QED
  BY <1>1, <1>2, <1>3, PTL DEF PositionSpec
=============================================================================
