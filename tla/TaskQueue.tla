----------------------------- MODULE TaskQueue -----------------------------
(***************************************************************************)
(* TaskQueue (levelDb/repo/inc/TaskQueue.h): the queue between the event   *)
(* loop of the database server, which writes the tasks it has parsed, and  *)
(* the thread that executes them.  It wraps the lock-free ring, and makes  *)
(* the two sides wait: a side whose first attempt fails takes the mutex mt *)
(* and waits on a condition variable, with the next attempt as the         *)
(* predicate; a side that succeeds notifies the other one without holding  *)
(* the mutex.                                                              *)
(*                                                                         *)
(* The steps of an attempt are those of SpscQueue, views included.  Taking *)
(* the mutex also makes visible what the other side did before it released *)
(* it, and so does being woken by it (pthread condition variables order a  *)
(* signal before the return from the wait that it ends): handedRead and    *)
(* handedWrite are the indices that a side will see at least once it has   *)
(* the mutex; they never lag behind what it has seen.                      *)
(***************************************************************************)
EXTENDS SpscQueue

VARIABLES
  mt,           \* who holds the mutex: "none", "writer" or "reader"
  wctl,         \* where the writer is in TaskQueue::write()
  task,         \* argument of that write(), until it is in the ring
  rctl,         \* where the reader is in TaskQueue::read()
  handedRead,   \* the least readIndex_ that the writer sees once it has mt
  handedWrite   \* the least writeIndex_ that the reader sees once it has mt

ring == vars
control == <<mt, wctl, task, rctl, handedRead, handedWrite>>
tqVars == <<ring, control>>

(* "fast" is the attempt before the lock, "pred" the one in the predicate; *)
(* "drowsy" is between a predicate that said no and the sleep of wait(),   *)
(* with the mutex still held.                                              *)
WriterAt == {"idle", "fast", "lock", "pred", "drowsy", "asleep", "unlock", "notify"}
ReaderAt == WriterAt \cup {"notifyLocked"}

TQInit ==
  /\ Init
  /\ mt = "none"
  /\ wctl = "idle" /\ task = NoItem /\ handedRead = 0
  /\ rctl = "idle" /\ handedWrite = 0

-----------------------------------------------------------------------------
(* The writer: write(t).                                                   *)

Write(t) ==
  /\ wctl = "idle"
  /\ wctl' = "fast" /\ task' = t
  /\ UNCHANGED <<ring, mt, rctl, handedRead, handedWrite>>

\* pq.write(task) loads readIndex_ and finds a slot
AttemptWrite ==
  /\ wctl \in {"fast", "pred"}
  /\ WriteBegin(task)
  /\ UNCHANGED control

FailWriteDrop ==                                              \* mutant
  /\ wctl \in {"fast", "pred"} /\ wpc = "idle"
  /\ isFull(seenRead, writeIndex_)
  /\ wctl' = "notify" /\ task' = NoItem
  /\ UNCHANGED <<ring, mt, rctl, handedRead, handedWrite>>

\* pq.write(task) loads readIndex_ and finds the ring full
FailWrite ==
  /\ wctl \in {"fast", "pred"} /\ wpc = "idle"
  /\ isFull(seenRead, writeIndex_)
  /\ wctl' = IF wctl = "fast" THEN "lock" ELSE "drowsy"
  /\ UNCHANGED <<ring, mt, task, rctl, handedRead, handedWrite>>

\* pq.write(task) returns true
FinishWrite ==
  /\ WriteStore
  /\ wctl' = IF wctl = "fast" THEN "notify" ELSE "unlock"
  /\ task' = NoItem
  /\ UNCHANGED <<mt, rctl, handedRead, handedWrite>>

WriterLock ==
  /\ wctl = "lock" /\ mt = "none"
  /\ mt' = "writer"
  /\ seenRead' = handedRead
  /\ wctl' = "pred"
  /\ UNCHANGED <<records_, readIndex_, writeIndex_, wpc, wItem, rpc, got, seenWrite,
                 live, task, rctl, handedRead, handedWrite>>

\* the mutex is released by wait() or by the unique_lock's destructor
WriterRelease ==
  /\ wctl \in {"drowsy", "unlock"}
  /\ mt' = "none"
  /\ handedWrite' = writeIndex_
  /\ wctl' = IF wctl = "drowsy" THEN "asleep" ELSE "notify"
  /\ UNCHANGED <<ring, task, rctl, handedRead>>

NotifyReaderNever ==                                          \* mutant
  /\ wctl = "notify"
  /\ wctl' = "idle"
  /\ UNCHANGED <<ring, mt, task, rctl, handedRead, handedWrite>>

\* not_full.notify_all(), the last statement of write(): the reader, if it
\* sleeps, has to get the mutex, and will see what was written before
NotifyReader ==
  /\ wctl = "notify"
  /\ wctl' = "idle"
  /\ IF rctl = "asleep" THEN rctl' = "lock" /\ handedWrite' = writeIndex_
                        ELSE UNCHANGED <<rctl, handedWrite>>
  /\ UNCHANGED <<ring, mt, task, handedRead>>

-----------------------------------------------------------------------------
(* The reader: read(record).                                               *)

Read ==
  /\ rctl = "idle"
  /\ rctl' = "fast"
  /\ UNCHANGED <<ring, mt, wctl, task, handedRead, handedWrite>>

AttemptRead ==
  /\ rctl \in {"fast", "pred"}
  /\ ReadBegin
  /\ UNCHANGED control

FailReadDoze ==                                               \* mutant
  /\ rctl \in {"fast", "pred"} /\ rpc = "idle"
  /\ isEmpty(readIndex_, seenWrite)
  /\ rctl' = IF rctl = "fast" THEN "lock" ELSE "asleep"
  /\ UNCHANGED <<ring, mt, wctl, task, handedRead, handedWrite>>

FailRead ==
  /\ rctl \in {"fast", "pred"} /\ rpc = "idle"
  /\ isEmpty(readIndex_, seenWrite)
  /\ rctl' = IF rctl = "fast" THEN "lock" ELSE "drowsy"
  /\ UNCHANGED <<ring, mt, wctl, task, handedRead, handedWrite>>

\* pq.read(record) returns true
FinishRead ==
  /\ ReadStore
  /\ rctl' = IF rctl = "fast" THEN "notify" ELSE "notifyLocked"
  /\ UNCHANGED <<mt, wctl, task, handedRead, handedWrite>>

ReaderLock ==
  /\ rctl = "lock" /\ mt = "none"
  /\ mt' = "reader"
  /\ seenWrite' = handedWrite
  /\ rctl' = "pred"
  /\ UNCHANGED <<records_, readIndex_, writeIndex_, wpc, wItem, seenRead, rpc, got,
                 live, wctl, task, handedRead, handedWrite>>

ReaderRelease ==
  /\ rctl \in {"drowsy", "unlock"}
  /\ mt' = "none"
  /\ handedRead' = readIndex_
  /\ rctl' = IF rctl = "drowsy" THEN "asleep" ELSE "notify"
  /\ UNCHANGED <<ring, wctl, task, handedWrite>>

NotifyWriterNever ==                                          \* mutant
  /\ rctl \in {"notifyLocked", "notify"}
  /\ rctl' = IF rctl = "notifyLocked" THEN "unlock" ELSE "idle"
  /\ UNCHANGED <<ring, mt, wctl, task, handedRead, handedWrite>>

\* not_empty.notify_all(): once under the mutex after a read that had to wait,
\* and at the end of every read
NotifyWriter ==
  /\ rctl \in {"notifyLocked", "notify"}
  /\ rctl' = IF rctl = "notifyLocked" THEN "unlock" ELSE "idle"
  /\ IF wctl = "asleep" THEN wctl' = "lock" /\ handedRead' = readIndex_
                        ELSE UNCHANGED <<wctl, handedRead>>
  /\ UNCHANGED <<ring, mt, task, handedWrite>>

-----------------------------------------------------------------------------
\* a condition variable may wake a sleeper for no reason
SpuriousWriter ==
  /\ wctl = "asleep" /\ wctl' = "lock"
  /\ UNCHANGED <<ring, mt, task, rctl, handedRead, handedWrite>>

SpuriousReader ==
  /\ rctl = "asleep" /\ rctl' = "lock"
  /\ UNCHANGED <<ring, mt, wctl, task, handedRead, handedWrite>>

\* the later of two indices, both counted from the index from
Later(from, a, b) == IF Dist(from, a) <= Dist(from, b) THEN b ELSE a

WriterSees ==
  /\ SeeRead
  /\ handedRead' = Later(seenRead, handedRead, seenRead')
  /\ UNCHANGED <<mt, wctl, task, rctl, handedWrite>>

ReaderSees ==
  /\ SeeWrite
  /\ handedWrite' = Later(seenWrite, handedWrite, seenWrite')
  /\ UNCHANGED <<mt, wctl, task, rctl, handedRead>>

\* what the writer does once write() has been called
WriterStep == \/ AttemptWrite \/ FailWrite \/ (WriteConstruct /\ UNCHANGED control)
              \/ FinishWrite
              \/ WriterLock \/ WriterRelease
              \/ NotifyReader

\* the reader calls read() again and again (dataUpdate_Entry)
ReaderStep == \/ Read
              \/ AttemptRead \/ FailRead
              \/ (ReadMove /\ UNCHANGED control)
              \/ (ReadDestroy /\ UNCHANGED control)
              \/ FinishRead
              \/ ReaderLock \/ ReaderRelease
              \/ NotifyWriter

TQNext == \/ \E t \in Item : Write(t)
          \/ WriterStep
          \/ ReaderStep
          \/ SpuriousWriter \/ SpuriousReader
          \/ WriterSees \/ ReaderSees

TQSpec == TQInit /\ [][TQNext]_tqVars

\* Both threads are scheduled, a thread that wants the mutex again and again
\* finds it free in time, and a store becomes visible to the other thread in
\* the end.  The event loop need not call write(), and no sleeper can count on
\* waking up for no reason.
Fairness == /\ WF_tqVars(WriterStep) /\ WF_tqVars(ReaderStep)
            /\ SF_tqVars(WriterLock) /\ SF_tqVars(ReaderLock)
            /\ WF_tqVars(WriterSees) /\ WF_tqVars(ReaderSees)

TQFairSpec == TQSpec /\ Fairness

\* A notification misses a side that does not sleep and still acts, or will
\* act, on an index older than the one the notification is about: because its
\* predicate has already said no, or because the store is not visible to it.
MissesReader ==
  /\ wctl = "notify" /\ wctl' = "idle"
  /\ rctl = "drowsy" \/ (rctl # "asleep" /\ seenWrite # writeIndex_)
MissesWriter ==
  /\ rctl = "notify" /\ rctl' = "idle"
  /\ wctl = "drowsy" \/ (wctl # "asleep" /\ seenRead # readIndex_)

-----------------------------------------------------------------------------
(* Safety.                                                                 *)

TQTypeOK ==
  /\ TypeOK
  /\ mt \in {"none", "writer", "reader"}
  /\ wctl \in WriterAt /\ rctl \in ReaderAt
  /\ task \in Item \cup {NoItem}
  /\ handedRead \in Index /\ handedWrite \in Index

\* an attempt runs only inside a call, and with the call's task
Attempts ==
  /\ wpc # "idle" => wctl \in {"fast", "pred"} /\ wItem = task
  /\ rpc # "idle" => rctl \in {"fast", "pred"}
  /\ rpc \notin {"front", "pop"}
  /\ wctl \in {"idle", "unlock", "notify"} <=> task = NoItem

\* the mutex is held from its acquisition to the sleep or the unlock
Mutex ==
  /\ wctl \in {"pred", "drowsy", "unlock"} <=> mt = "writer"
  /\ rctl \in {"pred", "drowsy", "notifyLocked", "unlock"} <=> mt = "reader"

\* an index that is handed over is neither older than the one that the side
\* has seen nor newer than the one stored
Handed == handedRead \in NewerRead /\ handedWrite \in NewerWrite

\* the ring's own invariant too, since one attempt per side at a time uses it
TQInv == IInv /\ live /\ Attempts /\ Mutex /\ Handed

(* What TaskQueue keeps while it moves between its two paths: the ring is   *)
(* used by one attempt per side at a time, the mutex is held for as long as *)
(* the paths say, and views never run ahead of the indices.                *)
TQIInv == TQTypeOK /\ TQInv

\* the task that the current call is about is the writer's offer
TaskFifo == INSTANCE BoundedFifo WITH
  Producers <- {"writer"}, Consumers <- {"reader"}, Capacity <- capacity,
  offered <- [p \in {"writer"} |-> task],
  queue <- Contents,
  taken <- [c \in {"reader"} |-> got],
  open <- live

(* The event loop and the executing thread share a bounded first-in        *)
(* first-out queue in which write() never gives up: no task is dropped,    *)
(* executed twice or overtaken, whichever of the two paths each side takes. *)
ImplementsBlockingFifo == TaskFifo!BlockingSpec

-----------------------------------------------------------------------------
(* Liveness.                                                               *)

(* While there are tasks in the queue, tasks are taken, also when no other *)
(* follows: the client sends one request and blocks until it has been      *)
(* answered (levelDb/client/client.cpp:49-50).  It fails under TQFairSpec:  *)
(* write() may succeed and notify while the reader, whose predicate has    *)
(* said no, does not sleep yet.                                            *)
TaskTaken == <>[](Contents # <<>>) => []<><<FinishRead>>_tqVars

(* Likewise the event loop, which serves every client, is not held up in   *)
(* write() for ever.                                                       *)
WriteReturns == wctl # "idle" ~> wctl = "idle"

=============================================================================
