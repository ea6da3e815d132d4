--------------------------- MODULE PersistWriter ---------------------------
(***************************************************************************)
(* The trade-database writer of the trading gateway                        *)
(* (apps/ctp/td/td_persist_writer.cpp) with its two threads: the gateway's *)
(* main thread, which queues tasks, waits at the login flush barrier and   *)
(* stops the writer, and the writer thread, which drains the queue into a  *)
(* batch and commits it in one SQLite transaction, retries it, reconnects  *)
(* and has a broken file replaced (libs/tdstore/src/trade_db.cpp).         *)
(*                                                                         *)
(* A task is a set of rows to write: one row, or all rows of one account   *)
(* and day (PositionRebuild, which first deletes that group), or none (the *)
(* flush sentinel).  Row contents are reduced to the sequence number the   *)
(* task carries.                                                           *)
(***************************************************************************)
EXTENDS Integers, Sequences

CONSTANTS Keys,        \* the rows of the database
          Groups,      \* the (account, trading day) pairs of the position rows
          NoGroup,     \* the group of a row that no rebuild touches (an order, a trade)
          GroupOf,     \* GroupOf[k]: the group of row k
          Damage,      \* what may happen to the file: a subset of Broken
          MaxTasks,    \* bound: tasks queued
          MaxDamage    \* bound: times the file is damaged

\* What the file can be besides "absent" and "good".  foreign: not readable as a
\* database of this schema version; damaged: the schema page can be read, a data
\* page is corrupt.
Broken == {"foreign", "damaged"}

ASSUME PersistAssumption ==
    /\ NoGroup \notin Groups
    /\ GroupOf \in [Keys -> Groups \cup {NoGroup}]
    /\ Damage \subseteq Broken
    /\ MaxTasks \in Nat /\ MaxDamage \in Nat

kMaxCorruptionRebuilds == 3

Ops == {"upsert", "rebuild", "flush"}
Tasks == [op : Ops, grp : Groups \cup {NoGroup}, keys : SUBSET Keys, seq : Nat]

NoRows == [k \in Keys |-> 0]

VARIABLES
    main,       \* where the main thread is
    tok,        \* the flush token it waits for (0: a token that was never pending)
    wr,         \* where the writer thread is
    running,    \* running_
    shutdown,   \* shutdown_
    queue,      \* queue_
    batch,      \* the writer's batch, kept while its commit fails
    pos,        \* the task of the batch the transaction executes next
    work,       \* the rows as the open transaction sees them
    connected,  \* db_ is open
    rebuilds,   \* corruption_rebuilds_
    failing,    \* failing_: an ERROR was sent and no commit succeeded since
    pending,    \* pending_flushes_: tokens with an unset promise
    failed,     \* tokens whose promise got an exception
    disk,       \* the file at db_path_
    damages,    \* how often the file was damaged
    table,      \* table[k]: sequence number in row k of the file, 0 if there is no row
    fileStart,  \* how many tasks were committed before the file was created
    accepted,   \* history: every task enqueue took
    committed,  \* history: every task of a committed transaction
    acked       \* history: the latest token for which wait_flush returned true

mainVars == <<main, tok>>
dbVars   == <<disk, damages, table, fileStart>>
history  == <<accepted, committed, acked>>
vars == <<main, tok, wr, running, shutdown, queue, batch, pos, work, connected,
          rebuilds, failing, pending, failed, disk, damages, table, fileStart,
          accepted, committed, acked>>

Init ==
    /\ main = "new" /\ tok = 0 /\ wr = "off"
    /\ running = FALSE /\ shutdown = FALSE
    /\ queue = <<>> /\ batch = <<>> /\ pos = 1 /\ work = NoRows
    /\ connected = FALSE /\ rebuilds = 0 /\ failing = FALSE
    /\ pending = {} /\ failed = {}
    /\ disk \in {"absent", "good", "foreign"} /\ damages = 0
    /\ table = NoRows /\ fileStart = 0
    /\ accepted = <<>> /\ committed = <<>> /\ acked = 0

-----------------------------------------------------------------------------
(* Opening the database: PersistWriter::try_open over ensure_trade_db.     *)

\* quarantine_trade_db: the file is renamed, so its rows are out of reach.
Quarantine ==
    /\ table' = NoRows
    /\ fileStart' = Len(committed)

\* The first failure sends the ERROR notification, later ones are throttled.
NoteFailure == failing' = TRUE

\* An unreadable file is replaced, a missing one created, another one used as it is.
\* probe_existing reads the schema page only, so a damaged file passes.
TryOpenOk ==
    /\ connected' = TRUE
    /\ IF disk = "foreign"
       THEN disk' = "good" /\ Quarantine /\ NoteFailure
       ELSE /\ disk' = IF disk = "absent" THEN "good" ELSE disk
            /\ UNCHANGED <<table, fileStart, failing>>

\* Any of the steps can fail: before the file is touched, after it was renamed, or
\* after the new file was created.
TryOpenFail ==
    /\ connected' = FALSE
    /\ NoteFailure
    /\ \/ UNCHANGED <<disk, table, fileStart>>
       \/ /\ disk = "foreign"
          /\ disk' \in {"absent", "good"}
          /\ Quarantine
       \/ /\ disk = "absent"
          /\ disk' = "good"
          /\ UNCHANGED <<table, fileStart>>

-----------------------------------------------------------------------------
(* The main thread: TdApi's constructor, its event loop and handle_shutdown. *)

\* open(): one attempt to connect; a failure is left to the writer thread.
Open ==
    /\ main = "new"
    /\ main' = "opened"
    /\ TryOpenOk \/ TryOpenFail
    /\ UNCHANGED <<tok, wr, running, shutdown, queue, batch, pos, work, rebuilds,
                   pending, failed, damages, accepted, committed, acked>>

StartWriter ==
    /\ main = "opened"
    /\ main' = "run"
    /\ running' = TRUE
    /\ wr' = "loop"
    /\ UNCHANGED <<tok, shutdown, queue, batch, pos, work, connected, rebuilds,
                   failing, pending, failed, disk, damages, table, fileStart,
                   accepted, committed, acked>>

\* A report was pushed to the event channel and is now handed to enqueue.  After
\* handle_shutdown the loop still dispatches the frames and events it finds
\* ("down"): enqueue drops what they produce.
Enqueue(op, grp, keys) ==
    /\ main \in {"run", "down"}
    /\ IF shutdown
       THEN UNCHANGED <<queue, accepted>>
       ELSE LET t == [op |-> op, grp |-> grp, keys |-> keys, seq |-> Len(accepted) + 1]
            IN /\ Len(accepted) < MaxTasks
               /\ queue' = Append(queue, t)
               /\ accepted' = Append(accepted, t)
    /\ UNCHANGED <<main, tok, wr, running, shutdown, batch, pos, work, connected,
                   rebuilds, failing, pending, failed, disk, damages, table,
                   fileStart, committed, acked>>

\* The tasks the gateway makes: one row, or the whole group of an account and day.
EnqueueTask ==
    \/ \E k \in Keys : Enqueue("upsert", GroupOf[k], {k})
    \/ \E g \in Groups : \E ks \in SUBSET {k \in Keys : GroupOf[k] = g} :
            Enqueue("rebuild", g, ks)

\* After stop the token is set and erased at once: tok = 0 is such a token.
EnqueueFlush ==
    /\ main \in {"run", "down"}
    /\ main' = "flush"
    /\ IF shutdown
       THEN /\ tok' = 0
            /\ UNCHANGED <<queue, accepted, pending>>
       ELSE LET n == Len(accepted) + 1
                t == [op |-> "flush", grp |-> NoGroup, keys |-> {}, seq |-> n]
            IN /\ n <= MaxTasks
               /\ tok' = n
               /\ pending' = pending \cup {n}
               /\ queue' = Append(queue, t)
               /\ accepted' = Append(accepted, t)
    /\ UNCHANGED <<wr, running, shutdown, batch, pos, work, connected, rebuilds,
                   failing, failed, disk, damages, table, fileStart, committed, acked>>

Back == main' = IF shutdown THEN "down" ELSE "run"

Ack == acked' = IF tok > acked THEN tok ELSE acked

\* wait_flush: a token that is not in the map counts as committed.
WaitFlush ==
    /\ main = "flush"
    /\ IF tok \in pending
       THEN main' = "wait" /\ UNCHANGED acked
       ELSE Back /\ Ack
    /\ UNCHANGED <<tok, wr, running, shutdown, queue, batch, pos, work, connected,
                   rebuilds, failing, pending, failed, disk, damages, table,
                   fileStart, accepted, committed>>

\* The future is ready: true for a value, false for an exception.
WaitDone ==
    /\ main = "wait"
    /\ tok \notin pending
    /\ Back
    /\ IF tok \in failed THEN UNCHANGED acked ELSE Ack
    /\ UNCHANGED <<tok, wr, running, shutdown, queue, batch, pos, work, connected,
                   rebuilds, failing, pending, failed, disk, damages, table,
                   fileStart, accepted, committed>>

\* The 5 s of the login barrier are over: false, the token stays pending.
WaitTimeout ==
    /\ main = "wait"
    /\ Back
    /\ UNCHANGED <<tok, wr, running, shutdown, queue, batch, pos, work, connected,
                   rebuilds, failing, pending, failed, disk, damages, table,
                   fileStart, accepted, committed, acked>>

\* stop(), first half: the flags are set and the writer woken.
StopRequest ==
    /\ main = "run"
    /\ main' = "stop"
    /\ running' = FALSE
    /\ shutdown' = TRUE
    /\ UNCHANGED <<tok, wr, queue, batch, pos, work, connected, rebuilds, failing,
                   pending, failed, disk, damages, table, fileStart, accepted,
                   committed, acked>>

\* stop(), second half: the writer has exited and is joined.
StopReturn ==
    /\ main = "stop"
    /\ wr = "done"
    /\ main' = "down"
    /\ connected' = FALSE
    /\ UNCHANGED <<tok, wr, running, shutdown, queue, batch, pos, work, rebuilds,
                   failing, pending, failed, disk, damages, table, fileStart,
                   accepted, committed, acked>>

\* stop() gave up after kShutdownTimeout: quick_exit ends both threads.
QuickExit ==
    /\ main = "stop"
    /\ wr # "done"
    /\ main' = "killed"
    /\ UNCHANGED <<tok, wr, running, shutdown, queue, batch, pos, work, connected,
                   rebuilds, failing, pending, failed, disk, damages, table,
                   fileStart, accepted, committed, acked>>

\* The event loop ends.
Exit ==
    /\ main = "down"
    /\ main' = "gone"
    /\ UNCHANGED <<tok, wr, running, shutdown, queue, batch, pos, work, connected,
                   rebuilds, failing, pending, failed, disk, damages, table,
                   fileStart, accepted, committed, acked>>

-----------------------------------------------------------------------------
(* The writer thread: writer_loop.                                         *)

\* writer_loop, connection missing: connect, or report and wait.
Reconnect ==
    /\ wr = "loop"
    /\ ~connected
    /\ \/ TryOpenOk /\ wr' = "loop"
       \/ TryOpenFail /\ wr' = "backoff"
    /\ UNCHANGED <<main, tok, running, shutdown, queue, batch, pos, work, rebuilds,
                   pending, failed, damages, accepted, committed, acked>>

\* Mutant of Finished: a stop ends the loop before the queue is empty.
FinishedAtOnce == ~running

\* take_batch returns false.
Finished == ~running /\ queue = <<>>

\* take_batch: the whole queue becomes the batch; stopped and empty ends the loop.
TakeBatch ==
    /\ wr = "loop"
    /\ connected
    /\ batch = <<>>
    /\ \/ Finished /\ wr' = "exit" /\ UNCHANGED <<batch, queue>>
       \/ ~Finished /\ queue # <<>> /\ wr' = "loop" /\ batch' = queue /\ queue' = <<>>
    /\ UNCHANGED <<main, tok, running, shutdown, pos, work, connected, rebuilds,
                   failing, pending, failed, disk, damages, table, fileStart,
                   accepted, committed, acked>>

\* commit_batch opens a transaction: in the loop ("txn") and, once a stop was
\* requested, for the last attempt ("last").
Begin ==
    /\ batch # <<>> /\ connected
    /\ \/ wr = "loop" /\ wr' = "txn"
       \/ wr = "final" /\ wr' = "last"
    /\ pos' = 1
    /\ work' = table
    /\ UNCHANGED <<main, tok, running, shutdown, queue, batch, connected, rebuilds,
                   failing, pending, failed, disk, damages, table, fileStart,
                   accepted, committed, acked>>

\* Mutant of Apply: a rebuild does not delete its group.
ApplyNoDelete(rows, t) == [k \in Keys |-> IF k \in t.keys THEN t.seq ELSE rows[k]]

\* One task on the rows: a rebuild deletes its group where it stands, then its rows
\* are written.
Apply(rows, t) ==
    [k \in Keys |-> IF k \in t.keys THEN t.seq
                    ELSE IF t.op = "rebuild" /\ GroupOf[k] = t.grp THEN 0
                    ELSE rows[k]]

ExecTask ==
    /\ wr \in {"txn", "last"}
    /\ disk = "good"
    /\ pos <= Len(batch)
    /\ work' = Apply(work, batch[pos])
    /\ pos' = pos + 1
    /\ UNCHANGED <<main, tok, wr, running, shutdown, queue, batch, connected,
                   rebuilds, failing, pending, failed, disk, damages, table,
                   fileStart, accepted, committed, acked>>

CommitOk ==
    /\ wr \in {"txn", "last"}
    /\ disk = "good"
    /\ pos > Len(batch)
    /\ wr' = "signal"
    /\ table' = work
    /\ committed' = committed \o batch
    /\ UNCHANGED <<main, tok, running, shutdown, queue, batch, pos, work, connected,
                   rebuilds, failing, pending, failed, disk, damages, fileStart,
                   accepted, acked>>

\* handle_corruption: have the file replaced at the next connect, but only
\* kMaxCorruptionRebuilds times in a row.
HandleCorruption ==
    IF rebuilds >= kMaxCorruptionRebuilds
    THEN UNCHANGED <<rebuilds, connected>>
    ELSE rebuilds' = rebuilds + 1 /\ connected' = FALSE

\* Mutant of Rollback: a failed batch is thrown away.
RollbackDrops == batch' = <<>>

\* The transaction is undone and the batch kept for the next attempt.
Rollback == UNCHANGED batch

\* A statement or the commit throws (disk full, lock, a broken file): the transaction
\* is rolled back and the batch kept.  The last attempt gives up.
CommitFail ==
    /\ wr \in {"txn", "last"}
    /\ IF disk \in Broken
       THEN HandleCorruption
       ELSE UNCHANGED <<rebuilds, connected>>
    /\ IF wr = "txn"
       THEN wr' = "retry" /\ NoteFailure
       ELSE wr' = "exit" /\ UNCHANGED failing
    /\ Rollback
    /\ UNCHANGED <<main, tok, running, shutdown, queue, pos, work, pending,
                   failed, disk, damages, table, fileStart, accepted, committed, acked>>

\* commit_batch without a connection fails at once: the corruption that ended the
\* last transaction closed it.
LastUnconnected ==
    /\ wr = "final"
    /\ ~connected
    /\ wr' = "exit"
    /\ UNCHANGED <<main, tok, running, shutdown, queue, batch, pos, work, connected,
                   rebuilds, failing, pending, failed, disk, damages, table,
                   fileStart, accepted, committed, acked>>

\* The flush tokens of a batch.
Tokens(b) == {b[i].seq : i \in {j \in DOMAIN b : b[j].op = "flush"}}

\* signal_flush_tokens, note_recovered and the end of the round.
Signal ==
    /\ wr = "signal"
    /\ wr' = "loop"
    /\ pending' = pending \ Tokens(batch)
    /\ batch' = <<>>
    /\ failing' = FALSE
    /\ rebuilds' = 0
    /\ UNCHANGED <<main, tok, running, shutdown, queue, pos, work, connected, failed,
                   disk, damages, table, fileStart, accepted, committed, acked>>

\* Mutant of RetryDue: a failed batch waits for the next task.
RetryOnTask == running /\ queue # <<>>

\* The delay runs out by itself.
RetryDue == running

\* wait_retry_or_stop: the delay is over, the same batch or the connection is tried
\* again.
RetryTimer ==
    /\ wr \in {"retry", "backoff"}
    /\ RetryDue
    /\ wr' = "loop"
    /\ UNCHANGED <<main, tok, running, shutdown, queue, batch, pos, work, connected,
                   rebuilds, failing, pending, failed, disk, damages, table,
                   fileStart, accepted, committed, acked>>

\* wait_retry_or_stop: a stop was requested.  A failed batch gets its last attempt;
\* without a connection there is nothing to drain to.
RetryStopped ==
    /\ ~running
    /\ \/ wr = "retry" /\ wr' = "final"
       \/ wr = "backoff" /\ wr' = "exit"
    /\ UNCHANGED <<main, tok, running, shutdown, queue, batch, pos, work, connected,
                   rebuilds, failing, pending, failed, disk, damages, table,
                   fileStart, accepted, committed, acked>>

\* fail_pending_flush_waiters, close_connection, writer_exited_.
WriterExit ==
    /\ wr = "exit"
    /\ wr' = "done"
    /\ failed' = failed \cup pending
    /\ pending' = {}
    /\ connected' = FALSE
    /\ UNCHANGED <<main, tok, running, shutdown, queue, batch, pos, work, rebuilds,
                   failing, disk, damages, table, fileStart, accepted, committed, acked>>

-----------------------------------------------------------------------------
\* The storage breaks the file.
DamageFile ==
    /\ disk = "good"
    /\ damages < MaxDamage
    /\ disk' \in Damage
    /\ damages' = damages + 1
    /\ UNCHANGED <<main, tok, wr, running, shutdown, queue, batch, pos, work,
                   connected, rebuilds, failing, pending, failed, table, fileStart,
                   accepted, committed, acked>>

MainNext == \/ Open \/ StartWriter \/ EnqueueTask \/ EnqueueFlush \/ WaitFlush
            \/ WaitDone \/ WaitTimeout \/ StopRequest \/ StopReturn \/ QuickExit \/ Exit

WriterNext ==
    /\ main # "killed"
    /\ \/ Reconnect \/ TakeBatch \/ Begin \/ ExecTask \/ CommitOk \/ CommitFail
       \/ LastUnconnected \/ Signal \/ RetryTimer \/ RetryStopped \/ WriterExit

Next == MainNext \/ WriterNext \/ DamageFile

Spec == Init /\ [][Next]_vars

-----------------------------------------------------------------------------
(* Properties.                                                             *)

\* The part of the batch whose transaction has not committed.
InHand == IF wr = "signal" THEN <<>> ELSE batch

\* Type invariant.
TypeOK ==
    /\ main \in {"new", "opened", "run", "flush", "wait", "stop", "down", "gone", "killed"}
    /\ wr \in {"off", "loop", "txn", "signal", "retry", "backoff", "final", "last",
               "exit", "done"}
    /\ running \in BOOLEAN /\ shutdown \in BOOLEAN /\ connected \in BOOLEAN
    /\ failing \in BOOLEAN
    /\ queue \in Seq(Tasks) /\ batch \in Seq(Tasks)
    /\ accepted \in Seq(Tasks) /\ committed \in Seq(Tasks)
    /\ tok \in Nat /\ acked \in Nat /\ pos \in Nat \ {0}
    /\ pending \subseteq Nat /\ failed \subseteq Nat
    /\ work \in [Keys -> Nat] /\ table \in [Keys -> Nat]
    /\ rebuilds \in 0..kMaxCorruptionRebuilds
    /\ disk \in {"absent", "good"} \cup Broken
    /\ damages \in Nat /\ fileStart \in Nat

\* Nothing that enqueue accepted is lost, duplicated or overtaken, whatever fails in
\* between: the committed tasks, the batch and the queue are together the accepted
\* tasks, in order.  In particular the database always holds a prefix (the prefix
\* invariant of docs/frame_contracts/td-data-sync.md).
NothingLost == accepted = committed \o InHand \o queue

\* wait_flush returned true only for a token whose batch, and so every task before
\* it, was committed.
FlushMeansCommitted == acked <= Len(committed)

\* What the gateway was told is in the database, or will be, is: the two together.
Durable == NothingLost /\ FlushMeansCommitted

\* The rows of the file are those left by the last task that touched each of them,
\* among the tasks committed to this file: a rebuild erases what came before it in
\* its group and nothing that came after.
Touches(t, k) == k \in t.keys \/ (t.op = "rebuild" /\ t.grp = GroupOf[k])
RowOf(k) ==
    LET hits == {i \in fileStart + 1 .. Len(committed) : Touches(committed[i], k)}
    IN IF hits = {} THEN 0
       ELSE LET i == CHOOSE j \in hits : \A h \in hits : h <= j
            IN IF k \in committed[i].keys THEN i ELSE 0
TableMatchesLog == \A k \in Keys : table[k] = RowOf(k)

\* The writer thread ends with uncommitted tasks only while it is reporting a failure.
DrainedOrFailing == wr = "done" => failing \/ committed = accepted

\* The writer's variables are what they should be, and its thread never ends silently
\* with tasks left.
StructureOK ==
    /\ TypeOK
    /\ DrainedOrFailing

-----------------------------------------------------------------------------
(* Liveness.  The writer thread keeps running; what makes a transaction or *)
(* a connect fail (a lock, a full disk) is not there for ever.             *)
Fairness ==
    /\ WF_vars(WriterNext)
    /\ SF_vars(main # "killed" /\ Reconnect /\ connected')
    /\ SF_vars(main # "killed" /\ CommitOk)
    /\ \A p \in 1..MaxTasks : SF_vars(main # "killed" /\ ExecTask /\ pos = p)

FairSpec == Spec /\ Fairness

\* A task that was accepted is committed without any further call, unless the writer
\* is stopped.  A file whose data is damaged behind a readable schema is excepted: it
\* passes the probe of every reconnect, is never replaced and fails for ever.
EventuallyCommitted ==
    \A n \in 1..MaxTasks :
        Len(accepted) >= n ~> (Len(committed) >= n \/ shutdown \/ disk = "damaged")

\* Once a stop was requested the writer thread ends, also while the database fails.
WriterExits == shutdown ~> (wr = "done" \/ main = "killed")

\* td_persist_writer.cpp, writer_loop: no task and no stop waits for ever, however
\* often the database fails.
WriterProgress == EventuallyCommitted /\ WriterExits
=============================================================================
