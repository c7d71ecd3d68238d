-------------------------- MODULE TaskQueueProofs --------------------------
(***************************************************************************)
(* Proofs about TaskQueue, for every size of the ring and every set of     *)
(* tasks.  What is known of the ring is reused: every step of the task     *)
(* queue is a step of the ring, or leaves it alone.                        *)
(***************************************************************************)
EXTENDS TaskQueue, SpscQueueProofs

\* the steps that do not touch the ring
ControlStep ==
  \/ \E t \in Item : Write(t)
  \/ FailWrite \/ WriterRelease \/ NotifyReader
  \/ Read \/ FailRead \/ ReaderRelease \/ NotifyWriter
  \/ SpuriousWriter \/ SpuriousReader

\* The mutex, the condition variables and the calls leave the ring alone.
LEMMA ControlKeepsRing == ControlStep => UNCHANGED vars
  BY DEF ControlStep, Write, FailWrite, WriterRelease, NotifyReader, Read, FailRead,
         ReaderRelease, NotifyWriter, SpuriousWriter, SpuriousReader, ring

(* Taking the mutex is, to the ring, a load that sees what is handed over.  *)
LEMMA LockStep ==
  ASSUME TQInv, WriterLock \/ ReaderLock
  PROVE  SeeRead \/ SeeWrite \/ UNCHANGED vars
<1>1. CASE WriterLock
  BY <1>1 DEF WriterLock, TQInv, Handed, SeeRead, vars
<1>2. CASE ReaderLock
  BY <1>2 DEF ReaderLock, TQInv, Handed, SeeWrite, vars
<1> QED
  BY <1>1, <1>2

(* Every step of the task queue is one that the ring allows.                *)
LEMMA RingStep ==
  ASSUME TQTypeOK, TQInv, [TQNext]_tqVars
  PROVE  [Next]_vars /\ ~ Destruct /\ live'
<1>1. CASE ControlStep
  BY <1>1, ControlKeepsRing DEF TQInv, vars, Destruct
<1>2. CASE AttemptWrite
  <2>1. task \in Item
    BY <1>2 DEF AttemptWrite, TQInv, Attempts, TQTypeOK
  <2> QED
    BY <1>2, <2>1 DEF AttemptWrite, WriteBegin, Next, Producer, Destruct
<1>3. CASE WriteConstruct \/ FinishWrite \/ WriterSees
  BY <1>3
     DEF WriteConstruct, FinishWrite, WriteStore, WriterSees, SeeRead, Next, Producer,
         Destruct, TQInv
<1>4. CASE AttemptRead \/ ReadMove \/ ReadDestroy \/ FinishRead \/ ReaderSees
  BY <1>4
     DEF AttemptRead, ReadBegin, ReadMove, ReadDestroy, FinishRead, ReadStore, ReaderSees,
         SeeWrite, Next, Consumer, Destruct, TQInv
<1>5. CASE WriterLock \/ ReaderLock
  <2>1. SeeRead \/ SeeWrite \/ UNCHANGED vars
    BY <1>5, LockStep
  <2> QED
    BY <2>1 DEF SeeRead, SeeWrite, vars, Next, Producer, Consumer, Destruct, TQInv
<1>6. CASE UNCHANGED tqVars
  BY <1>6 DEF tqVars, ring, vars, Destruct, TQInv
<1> QED
  BY <1>1, <1>2, <1>3, <1>4, <1>5, <1>6 DEF TQNext, WriterStep, ReaderStep, ControlStep

-----------------------------------------------------------------------------
\* A task queue that nobody has called yet satisfies the invariant.
LEMMA TQInitInv == TQInit => TQTypeOK /\ TQInv
<1> SUFFICES ASSUME TQInit PROVE TQTypeOK /\ TQInv
  OBVIOUS
<1>1. IInv
  BY InitInv DEF TQInit
<1> QED
  BY <1>1, SizeAssumption
     DEF TQInit, Init, TQTypeOK, IInv, WriterAt, ReaderAt, TQInv, Attempts, Mutex, Handed,
         NewerRead, NewerWrite, Index, Dist

\* Every step keeps the types, those of the ring and those of the control.
LEMMA StepTQType ==
  ASSUME TQTypeOK, TQInv, [TQNext]_tqVars PROVE TQTypeOK'
<1>1. TypeOK'
  BY RingStep, StepInv DEF TQInv, IInv
<1> USE DEF TQTypeOK, WriterAt, ReaderAt
<1>2. ASSUME NEW t \in Item, Write(t) PROVE TQTypeOK'
  BY <1>1, <1>2 DEF Write
<1>3. CASE AttemptWrite \/ FailWrite \/ FinishWrite
  BY <1>1, <1>3 DEF AttemptWrite, FailWrite, FinishWrite, control
<1>4. CASE WriterLock \/ WriterRelease \/ NotifyReader \/ SpuriousWriter
  BY <1>1, <1>4 DEF WriterLock, WriterRelease, NotifyReader, SpuriousWriter, TypeOK
<1>5. CASE Read \/ AttemptRead \/ FailRead \/ FinishRead
  BY <1>1, <1>5 DEF Read, AttemptRead, FailRead, FinishRead, control
<1>6. CASE ReaderLock \/ ReaderRelease \/ NotifyWriter \/ SpuriousReader
  BY <1>1, <1>6 DEF ReaderLock, ReaderRelease, NotifyWriter, SpuriousReader, TypeOK
<1>7. CASE WriterSees \/ ReaderSees
  BY <1>1, <1>7 DEF WriterSees, ReaderSees, Later, TypeOK
<1>8. CASE UNCHANGED control
  BY <1>1, <1>8 DEF control
<1> QED
  BY <1>2, <1>3, <1>4, <1>5, <1>6, <1>7, <1>8 DEF TQNext, WriterStep, ReaderStep, tqVars

(* The attempts follow the calls.                                          *)
LEMMA StepAttempts ==
  ASSUME TQTypeOK, TQInv, [TQNext]_tqVars PROVE Attempts'
<1> USE ItemAssumption DEF TQInv, Attempts, TQTypeOK, TypeOK, WriterAt, ReaderAt
<1>1. ASSUME NEW t \in Item, Write(t) PROVE Attempts'
  BY <1>1 DEF Write, ring, vars
<1>2. CASE AttemptWrite \/ FailWrite
  BY <1>2 DEF AttemptWrite, WriteBegin, FailWrite, control, ring, vars
<1>3. CASE FinishWrite
  BY <1>3 DEF FinishWrite, WriteStore, IInv, Underway
<1>4. CASE WriteConstruct /\ UNCHANGED control
  BY <1>4 DEF WriteConstruct, control
<1>5. CASE WriterLock \/ WriterRelease \/ NotifyReader \/ SpuriousWriter \/ WriterSees
  BY <1>5 DEF WriterLock, WriterRelease, NotifyReader, SpuriousWriter, WriterSees, SeeRead,
              ring, vars
<1>6. CASE Read \/ AttemptRead \/ FailRead \/ FinishRead
  BY <1>6 DEF Read, AttemptRead, ReadBegin, FailRead, FinishRead, ReadStore, control, ring, vars
<1>7. CASE (ReadMove \/ ReadDestroy) /\ UNCHANGED control
  BY <1>7 DEF ReadMove, ReadDestroy, control
<1>8. CASE ReaderLock \/ ReaderRelease \/ NotifyWriter \/ SpuriousReader \/ ReaderSees
  BY <1>8 DEF ReaderLock, ReaderRelease, NotifyWriter, SpuriousReader, ReaderSees, SeeWrite,
              ring, vars
<1>9. CASE UNCHANGED tqVars
  BY <1>9 DEF tqVars, ring, vars, control
<1> QED
  BY <1>1, <1>2, <1>3, <1>4, <1>5, <1>6, <1>7, <1>8, <1>9 DEF TQNext, WriterStep, ReaderStep

(* The mutex excludes.                                                     *)
LEMMA StepMutex ==
  ASSUME TQTypeOK, TQInv, [TQNext]_tqVars PROVE Mutex'
<1> USE DEF TQInv, Mutex, Attempts, TQTypeOK, WriterAt, ReaderAt
<1>1. ASSUME NEW t \in Item, Write(t) PROVE Mutex'
  BY <1>1 DEF Write
<1>2. CASE AttemptWrite \/ FailWrite \/ FinishWrite
  BY <1>2 DEF AttemptWrite, FailWrite, FinishWrite, WriteStore, control
<1>3. CASE WriterLock \/ WriterRelease \/ NotifyReader \/ SpuriousWriter
  BY <1>3 DEF WriterLock, WriterRelease, NotifyReader, SpuriousWriter
<1>4. CASE Read \/ AttemptRead \/ FailRead \/ FinishRead
  BY <1>4 DEF Read, AttemptRead, FailRead, FinishRead, ReadStore, control
<1>5. CASE ReaderLock \/ ReaderRelease \/ NotifyWriter \/ SpuriousReader
  BY <1>5 DEF ReaderLock, ReaderRelease, NotifyWriter, SpuriousReader
<1>6. CASE UNCHANGED <<mt, wctl, rctl>>
  BY <1>6
<1>7. CASE WriterSees \/ ReaderSees \/ UNCHANGED control
  BY <1>6, <1>7 DEF WriterSees, ReaderSees, control
<1> QED
  BY <1>1, <1>2, <1>3, <1>4, <1>5, <1>7 DEF TQNext, WriterStep, ReaderStep, tqVars

(* What is handed over keeps between the view and the index: the index may *)
(* move on, and the view may catch up, but neither passes it.              *)
LEMMA StepHanded ==
  ASSUME TQTypeOK, TQInv, [TQNext]_tqVars PROVE Handed'
<1> USE DEF TQInv, IInv, TypeOK, Handed
<1>a. /\ Dist(writeIndex_, writeIndex_) = 0 /\ Dist(readIndex_, readIndex_) = 0
      /\ Dist(handedRead, handedRead) = 0 /\ Dist(handedRead, readIndex_) \in Nat
      /\ Dist(handedWrite, handedWrite) = 0 /\ Dist(handedWrite, writeIndex_) \in Nat
      /\ Dist(seenRead, readIndex_) \in Nat /\ Dist(seenWrite, writeIndex_) \in Nat
  BY DistType DEF NewerRead, NewerWrite
<1>b. /\ NewerRead' = {i \in Index : Dist(seenRead', i) <= Dist(seenRead', readIndex_')}
      /\ NewerWrite' = {i \in Index : Dist(seenWrite', i) <= Dist(seenWrite', writeIndex_')}
  BY DEF NewerRead, NewerWrite, Dist
<1>c. /\ handedRead \in Index /\ Dist(seenRead, handedRead) <= Dist(seenRead, readIndex_)
      /\ handedWrite \in Index /\ Dist(seenWrite, handedWrite) <= Dist(seenWrite, writeIndex_)
  BY DEF NewerRead, NewerWrite
<1>1. CASE FinishWrite
  <2>1. nextRecord(writeIndex_) # readIndex_
    BY <1>1, Views DEF FinishWrite, WriteStore, Underway, isFull
  <2>2. nextRecord(writeIndex_) # seenWrite
    <3>1. Dist(readIndex_, nextRecord(writeIndex_)) = Dist(readIndex_, writeIndex_) + 1
      BY <2>1, NextRecord
    <3> QED
      BY <3>1, DistType DEF ViewsOrdered
  <2>3. /\ Dist(seenWrite, nextRecord(writeIndex_)) = Dist(seenWrite, writeIndex_) + 1
        /\ Dist(seenWrite, writeIndex_) \in Nat /\ Dist(seenWrite, handedWrite) \in Nat
    BY <2>2, <1>c, NextRecord, DistType
  <2>4. handedWrite \in NewerWrite'
    BY <1>1, <1>b, <1>c, <2>3 DEF FinishWrite, WriteStore
  <2> QED
    BY <1>1, <1>b, <1>c, <2>4 DEF FinishWrite, WriteStore
<1>2. CASE FinishRead
  <2>1. nextRecord(readIndex_) # seenRead
    <3>1. readIndex_ # writeIndex_
      BY <1>2, Views DEF FinishRead, ReadStore, Underway
    <3>2. Dist(seenRead, writeIndex_) = Dist(seenRead, readIndex_) + Dist(readIndex_, writeIndex_)
      BY DistAdd DEF ViewsOrdered
    <3>3. CASE nextRecord(readIndex_) = seenRead
      BY <3>1, <3>2, <3>3, SizeAssumption DEF Dist, nextRecord, Index
    <3> QED
      BY <3>3
  <2>2. /\ Dist(seenRead, nextRecord(readIndex_)) = Dist(seenRead, readIndex_) + 1
        /\ Dist(seenRead, readIndex_) \in Nat /\ Dist(seenRead, handedRead) \in Nat
    BY <2>1, <1>c, NextRecord, DistType
  <2>3. handedRead \in NewerRead'
    BY <1>2, <1>b, <1>c, <2>2 DEF FinishRead, ReadStore
  <2> QED
    BY <1>2, <1>b, <1>c, <2>3 DEF FinishRead, ReadStore
<1>3. CASE WriterLock \/ WriterRelease
  <2>1. CASE WriterLock
    BY <2>1, <1>a, <1>b, <1>c DEF WriterLock
  <2>2. CASE WriterRelease
    <3>1. UNCHANGED <<readIndex_, writeIndex_, seenRead, seenWrite>>
      BY <2>2 DEF WriterRelease, ring, vars
    <3> QED
      BY <2>2, <3>1, <1>a, <1>b, <1>c DEF WriterRelease
  <2> QED
    BY <1>3, <2>1, <2>2
<1>4. CASE ReaderLock \/ ReaderRelease
  <2>1. CASE ReaderLock
    BY <2>1, <1>a, <1>b, <1>c DEF ReaderLock
  <2>2. CASE ReaderRelease
    <3>1. UNCHANGED <<readIndex_, writeIndex_, seenRead, seenWrite>>
      BY <2>2 DEF ReaderRelease, ring, vars
    <3> QED
      BY <2>2, <3>1, <1>a, <1>b, <1>c DEF ReaderRelease
  <2> QED
    BY <1>4, <2>1, <2>2
<1>5. CASE NotifyReader \/ NotifyWriter
  <2>1. UNCHANGED <<readIndex_, writeIndex_, seenRead, seenWrite>>
    BY <1>5 DEF NotifyReader, NotifyWriter, ring, vars
  <2> QED
    BY <1>5, <2>1, <1>a, <1>b, <1>c DEF NotifyReader, NotifyWriter
<1>6. CASE WriterSees
  BY <1>6, SizeAssumption DEF WriterSees, SeeRead, NewerRead, NewerWrite, Later, Dist, Index
<1>7. CASE ReaderSees
  BY <1>7, SizeAssumption DEF ReaderSees, SeeWrite, NewerRead, NewerWrite, Later, Dist, Index
<1>8. CASE UNCHANGED <<readIndex_, writeIndex_, seenRead, seenWrite, handedRead, handedWrite>>
  BY <1>8, <1>b, <1>c
<1> QED
  BY <1>1, <1>2, <1>3, <1>4, <1>5, <1>6, <1>7, <1>8
     DEF TQNext, WriterStep, ReaderStep, Write, AttemptWrite, WriteBegin, FailWrite,
         WriteConstruct, Read, AttemptRead, ReadBegin, FailRead, ReadMove, ReadDestroy,
         SpuriousWriter, SpuriousReader, tqVars, ring, vars, control

(* The invariant of the task queue holds in every reachable state, and with *)
(* it that of the ring.                                                     *)
THEOREM TQInductive == TQSpec => []TQIInv
<1>1. TQInit => TQIInv
  BY TQInitInv DEF TQIInv
<1>2. TQIInv /\ [TQNext]_tqVars => TQIInv'
  <2> SUFFICES ASSUME TQTypeOK, TQInv, [TQNext]_tqVars PROVE (TQTypeOK /\ TQInv)'
    BY DEF TQIInv
  <2>1. IInv' /\ live'
    BY RingStep, StepInv DEF TQInv
  <2> QED
    BY <2>1, StepTQType, StepAttempts, StepMutex, StepHanded DEF TQInv
<1> QED
  BY <1>1, <1>2, PTL DEF TQSpec

(* No slot of the ring is used raw, overwritten or entered by both sides,   *)
(* whichever path they take.                                               *)
THEOREM TQSlotSafety == TQSpec => []SlotLifetime
<1>1. TQIInv => SlotLifetime
  BY InvSlots DEF TQIInv, TQInv
<1> QED
  BY <1>1, TQInductive, PTL

-----------------------------------------------------------------------------
(* The queue that the event loop and the executing thread see.             *)

\* what the bounded queue sees of the task queue
tqFifoState == <<task, Contents, got, live>>

\* Initially the queue is empty and no task is on offer.
LEMMA TQFifoInit == TQInit => TaskFifo!Init
<1> SUFFICES ASSUME TQInit PROVE TaskFifo!Init
  OBVIOUS
<1>1. Fifo!Init
  BY FifoInit DEF TQInit
<1> QED
  BY <1>1 DEF TQInit, Fifo!Init, TaskFifo!Init

\* A call of write() offers its task.
LEMMA TQOfferStep ==
  ASSUME TQInv, NEW t \in Item, Write(t)
  PROVE  TaskFifo!Offer("writer", t)
<1>1. UNCHANGED <<Contents, got, live>>
  BY DEF Write, ring, vars, Contents, HeadIndex, Dist, Slot
<1> QED
  BY <1>1 DEF Write, TQInv, Attempts, TaskFifo!Offer

\* The task enters the queue when its index is published.
LEMMA TQAcceptStep ==
  ASSUME TQInv, IInv', FinishWrite
  PROVE  TaskFifo!Accept("writer")
<1>1. wItem = task /\ task # NoItem
  BY DEF FinishWrite, WriteStore, TQInv, Attempts
<1>2. Fifo!Accept("producer")
  BY AcceptStep DEF FinishWrite, TQInv
<1> QED
  BY <1>1, <1>2 DEF FinishWrite, WriteStore, TQInv, Fifo!Accept, TaskFifo!Accept

\* A task leaves the queue when it is moved out of its slot.
LEMMA TQTakeStep ==
  ASSUME TQInv, IInv', ReadMove, UNCHANGED control
  PROVE  TaskFifo!Take("reader")
<1>1. Fifo!Take("consumer")
  BY TakeStep DEF TQInv
<1> QED
  BY <1>1 DEF ReadMove, control, TQInv, Fifo!Take, TaskFifo!Take

(* A step that moves the ring's control only, or the calls' control only,   *)
(* is not seen from outside.                                               *)
LEMMA TQHiddenStep ==
  ASSUME TQInv, IInv',
         \/ AttemptWrite \/ (WriteConstruct /\ UNCHANGED control)
         \/ AttemptRead \/ (ReadDestroy /\ UNCHANGED control) \/ FinishRead
         \/ WriterSees \/ ReaderSees
  PROVE  UNCHANGED tqFifoState
<1>1. CASE AttemptWrite
  <2>1. HeadIndex' = HeadIndex
    BY <1>1 DEF AttemptWrite, WriteBegin, HeadIndex
  <2> QED
    BY <1>1, <2>1 DEF AttemptWrite, WriteBegin, control, tqFifoState, Contents, Dist, Slot
<1>2. CASE (WriteConstruct \/ ReadDestroy) /\ UNCHANGED control
  BY <1>2, HiddenStep DEF TQInv, fifoState, tqFifoState, control
<1>3. CASE FinishRead
  BY <1>3, HiddenStep DEF FinishRead, TQInv, fifoState, tqFifoState
<1>4. CASE AttemptRead
  BY <1>4, ViewStep DEF AttemptRead, TQInv, fifoState, tqFifoState, control
<1>5. CASE WriterSees \/ ReaderSees
  BY <1>5, ViewStep DEF WriterSees, ReaderSees, TQInv, fifoState, tqFifoState
<1> QED
  BY <1>1, <1>2, <1>3, <1>4, <1>5

\* Failed attempts, locking and notifying are invisible to the abstract queue.
LEMMA TQControlStep ==
  ASSUME TQInv,
         \/ FailWrite \/ WriterRelease \/ NotifyReader
         \/ Read \/ FailRead \/ ReaderRelease \/ NotifyWriter
         \/ SpuriousWriter \/ SpuriousReader
         \/ WriterLock \/ ReaderLock \/ UNCHANGED tqVars
  PROVE  UNCHANGED tqFifoState
<1>1. task' = task
  BY DEF FailWrite, WriterRelease, NotifyReader, Read, FailRead, ReaderRelease,
         NotifyWriter, SpuriousWriter, SpuriousReader, WriterLock, ReaderLock, tqVars,
         control
<1>2. SeeRead \/ SeeWrite \/ UNCHANGED vars
  <2>1. CASE WriterLock \/ ReaderLock
    BY <2>1, LockStep
  <2>2. CASE UNCHANGED tqVars
    BY <2>2 DEF tqVars, ring
  <2> QED
    BY <2>1, <2>2, ControlKeepsRing DEF ControlStep
<1>3. UNCHANGED fifoState
  BY <1>2, ViewStep DEF TQInv
<1> QED
  BY <1>1, <1>3 DEF fifoState, tqFifoState

(* The task queue implements the bounded queue whose write() never gives    *)
(* up, whatever the size of the ring, the tasks and the schedule.          *)
THEOREM TaskQueueImplementsFifo == TQSpec => ImplementsBlockingFifo
<1>1. TQIInv /\ [TQNext]_tqVars => [TaskFifo!BlockingNext]_(TaskFifo!fifoVars)
  <2> SUFFICES ASSUME TQTypeOK, TQInv, [TQNext]_tqVars
               PROVE  [TaskFifo!BlockingNext]_(TaskFifo!fifoVars)
    BY DEF TQIInv
  <2>0. IInv'
    BY RingStep, StepInv DEF TQInv
  <2>1. CASE \E t \in Item : Write(t)
    BY <2>1, TQOfferStep DEF TaskFifo!BlockingNext
  <2>2. CASE FinishWrite
    BY <2>0, <2>2, TQAcceptStep DEF TaskFifo!BlockingNext
  <2>3. CASE ReadMove /\ UNCHANGED control
    BY <2>0, <2>3, TQTakeStep DEF TaskFifo!BlockingNext
  <2>4. CASE \/ AttemptWrite \/ (WriteConstruct /\ UNCHANGED control)
             \/ AttemptRead \/ (ReadDestroy /\ UNCHANGED control) \/ FinishRead
             \/ WriterSees \/ ReaderSees
    BY <2>0, <2>4, TQHiddenStep DEF tqFifoState, TaskFifo!fifoVars
  <2>5. CASE \/ FailWrite \/ WriterRelease \/ NotifyReader
             \/ Read \/ FailRead \/ ReaderRelease \/ NotifyWriter
             \/ SpuriousWriter \/ SpuriousReader
             \/ WriterLock \/ ReaderLock \/ UNCHANGED tqVars
    BY <2>5, TQControlStep DEF tqFifoState, TaskFifo!fifoVars
  <2> QED
    BY <2>1, <2>2, <2>3, <2>4, <2>5 DEF TQNext, WriterStep, ReaderStep
<1> QED
  BY <1>1, TQInductive, TQFifoInit, PTL
     DEF TQSpec, ImplementsBlockingFifo, TaskFifo!BlockingSpec

=============================================================================
