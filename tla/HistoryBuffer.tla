----------------------------- MODULE HistoryBuffer -----------------------------
(***************************************************************************)
(* The write buffer of the history database (history.py): samples of the   *)
(* ports and points of charge sessions are collected and written in one    *)
(* transaction.  The methods run on threads; _db_lock guards the buffer    *)
(* and the writes, while queries by port only flush under the lock and     *)
(* read without it.  All of them share one connection, so a reader sees    *)
(* what is not committed yet.  Points are those of one session, see        *)
(* ChargeSession for the life of its row.                                  *)
(***************************************************************************)
EXTENDS Naturals, FiniteSets

CONSTANTS
    Threads,   \* of the executor
    BatchSize, \* BATCH_SIZE
    MaxRows    \* bound on rows

Nobody == "nobody"

BufferConstants ==
    /\ IsFiniteSet(Threads) /\ Nobody \notin Threads
    /\ BatchSize \in Nat \ {0} /\ MaxRows \in Nat

VARIABLES
    buffer,   \* _pending and _pending_points, as sets of rows
    disk,     \* committed rows
    seen,     \* rows as the connection sees them
    holder,   \* the thread that holds _db_lock, or Nobody
    jobs,     \* what each thread runs, and how far it is
    recorded, \* rows that were ever put into the buffer (auxiliary)
    gone,     \* those that a failed write or a deletion has cost (auxiliary)
    buried    \* points that a deletion has removed for good (auxiliary)

aux == <<recorded, gone, buried>>
vars == <<buffer, disk, seen, holder, jobs, aux>>

Row(kind, n) == [kind |-> kind, n |-> n]
Of(kind, rows) == {r \in rows : r.kind = kind}
Kinds == {"sample", "point"}
Reads == {"query", "points"}   \* by port, and of a session
Ops == Kinds \union Reads \union {"delete"}

(* "before" is what a read has to find.                                    *)
Job(op, pc, row, before) == [op |-> op, pc |-> pc, row |-> row, before |-> before]
NoRow == Row("none", 0)
Idle == Job("none", "idle", NoRow, {})

Init ==
    /\ buffer = {} /\ disk = {} /\ seen = {}
    /\ holder = Nobody
    /\ jobs = [t \in Threads |-> Idle]
    /\ recorded = {} /\ gone = {} /\ buried = {}

GoOn(t, pc) == jobs' = [jobs EXCEPT ![t].pc = pc]
Finish(t) == jobs' = [jobs EXCEPT ![t] = Idle] /\ holder' = Nobody

-----------------------------------------------------------------------------
(* A coroutine hands a call to a free thread, which then waits for the     *)
(* lock.                                                                   *)
Known == (recorded \union {jobs[t].row : t \in Threads}) \ {NoRow}

Submit(t, op) ==
    /\ jobs[t] = Idle
    /\ op \in Kinds => Cardinality(Known) < MaxRows
    /\ jobs' = [jobs EXCEPT ![t] =
           Job(op, "lock",
               IF op \in Kinds THEN Row(op, Cardinality(Of(op, Known)) + 1) ELSE NoRow,
               IF op \in Reads THEN recorded ELSE {})]
    /\ UNCHANGED <<buffer, disk, seen, holder, aux>>

NeverFull(rows) == FALSE  \* mutant
Full(rows) == \E kind \in Kinds : Cardinality(Of(kind, rows)) >= BatchSize

(* record_port_data, record_charge_point: a row is appended, and the batch *)
(* written when it is full or old.                                         *)
Record(t) ==
    /\ jobs[t].pc = "lock" /\ jobs[t].op \in Kinds /\ holder = Nobody
    /\ buffer' = buffer \union {jobs[t].row}
    /\ recorded' = recorded \union {jobs[t].row}
    /\ \/ holder' = t /\ GoOn(t, "flush")
       \/ ~Full(buffer') /\ Finish(t)
    /\ UNCHANGED <<disk, seen, gone, buried>>

DeleteAtOnce == "after"  \* mutant
FlushFirst == IF buffer = {} THEN "after" ELSE "flush"

(* The others flush before they do anything.                               *)
Acquire(t) ==
    /\ jobs[t].pc = "lock" /\ jobs[t].op \notin Kinds /\ holder = Nobody
    /\ holder' = t
    /\ GoOn(t, FlushFirst)
    /\ UNCHANGED <<buffer, disk, seen, aux>>

-----------------------------------------------------------------------------
(* _flush_pending, under the lock: samples, points, commit. *)

InsertSamples(t) ==
    /\ jobs[t].pc = "flush"
    /\ seen' = seen \union Of("sample", buffer)
    /\ buffer' = buffer \ Of("sample", buffer)
    /\ GoOn(t, "insert")
    /\ UNCHANGED <<disk, holder, aux>>

InsertPoints(t) ==
    /\ jobs[t].pc = "insert"
    /\ seen' = seen \union buffer
    /\ buffer' = {}
    /\ GoOn(t, "commit")
    /\ UNCHANGED <<disk, holder, aux>>

CommitNothing == disk  \* mutant
CommitAll == seen

Commit(t) ==
    /\ jobs[t].pc = "commit"
    /\ disk' = CommitAll
    /\ GoOn(t, "after")
    /\ UNCHANGED <<buffer, seen, holder, aux>>

(* Any of the three may raise: the buffer is dropped and all undone.       *)
FlushFails(t) ==
    /\ jobs[t].pc \in {"flush", "insert", "commit"}
    /\ gone' = gone \union buffer \union (seen \ disk)
    /\ buffer' = {}
    /\ seen' = disk
    /\ GoOn(t, "after")
    /\ UNCHANGED <<disk, holder, recorded, buried>>

-----------------------------------------------------------------------------
(* What comes after the flush. *)

Recorded(t) ==
    /\ jobs[t].pc = "after" /\ jobs[t].op \in Kinds
    /\ Finish(t)
    /\ UNCHANGED <<buffer, disk, seen, aux>>

(* get_session_points: still under the lock.                               *)
ReadPoints(t) ==
    /\ jobs[t].pc = "after" /\ jobs[t].op = "points"
    /\ Finish(t)
    /\ UNCHANGED <<buffer, disk, seen, aux>>

(* query_history and the like give the lock back and read then.            *)
EndFlush(t) ==
    /\ jobs[t].pc = "after" /\ jobs[t].op = "query"
    /\ holder' = Nobody
    /\ GoOn(t, "select")
    /\ UNCHANGED <<buffer, disk, seen, aux>>

Select(t) ==
    /\ jobs[t].pc = "select"
    /\ jobs' = [jobs EXCEPT ![t] = Idle]
    /\ UNCHANGED <<buffer, disk, seen, holder, aux>>

(* delete_session: the points and then the row.  If the second statement   *)
(* fails, the first stays in an open transaction, which the next commit    *)
(* completes and the next failure undoes.                                  *)
DeleteSession(t) ==
    /\ jobs[t].pc = "after" /\ jobs[t].op = "delete"
    /\ Finish(t)
    /\ \/ /\ seen' = seen \ Of("point", seen)
          /\ gone' = gone \union Of("point", recorded)
          /\ \/ disk' = seen' /\ buried' = buried \union Of("point", recorded)
             \/ UNCHANGED <<disk, buried>>
       \/ UNCHANGED <<seen, disk, gone, buried>>
    /\ UNCHANGED <<buffer, recorded>>

-----------------------------------------------------------------------------
Next ==
    \E t \in Threads :
       \/ \E op \in Ops : Submit(t, op)
       \/ Record(t) \/ Acquire(t)
       \/ InsertSamples(t) \/ InsertPoints(t) \/ Commit(t) \/ FlushFails(t)
       \/ Recorded(t) \/ ReadPoints(t) \/ EndFlush(t) \/ Select(t) \/ DeleteSession(t)

Spec == Init /\ [][Next]_vars

-----------------------------------------------------------------------------
(* The lock is held by a thread inside a method, and rows are where they   *)
(* came through the buffer.                                                *)
TypeOK ==
    /\ holder \in Threads \union {Nobody}
    /\ \A t \in Threads :
          (holder = t) <=> jobs[t].pc \in {"flush", "insert", "commit", "after"}
    /\ buffer \union disk \union seen \union gone \union buried \subseteq recorded

(* Whenever nobody is writing, all that a crash could cost is less than a  *)
(* batch of each kind: every other row is on disk, unless a write failed   *)
(* or its session was deleted.                                             *)
OnlyABatchAtRisk ==
    holder = Nobody =>
       /\ \A kind \in Kinds : Cardinality(Of(kind, buffer)) < BatchSize
       /\ recorded \ gone \subseteq disk \union buffer

(* A read finds whatever was recorded before it was called, though it may  *)
(* have been written by another thread, and read without the lock.         *)
ReadsSeeRecorded ==
    [][\A t \in Threads :
          ReadPoints(t) \/ Select(t) => jobs[t].before \ gone \subseteq seen]_vars

(* What a read under the lock returns is on disk.                          *)
LockedReadsAreDurable ==
    [][\A t \in Threads : ReadPoints(t) => seen \subseteq disk]_vars

(* A point that was recorded before its session was deleted does not come  *)
(* back from the buffer.                                                   *)
DeletedStaysDeleted == buried \intersect (buffer \union seen \union disk) = {}
===============================================================================
