------------------------ MODULE BlockingQueueProofs ------------------------
(***************************************************************************)
(* Proofs about BlockingQueue, for any number of threads, any capacity and *)
(* any set of values.                                                      *)
(***************************************************************************)
EXTENDS BlockingQueue, TLAPS

\* the actions of a thread, one by one
Act(t) == \/ CallPut(t) \/ CallPop(t) \/ CallSize(t) \/ Lock(t)
          \/ PutWait(t) \/ PutPush(t) \/ PopWait(t) \/ PopTake(t)
          \/ SizeRead(t) \/ NotifyAll(t) \/ Unlock(t) \/ Spurious(t)

\* A step is the step of one thread.
LEMMA NextIsAct == Next <=> \E t \in Threads : Act(t)
  BY DEF Next, Act, Run

-----------------------------------------------------------------------------
\* A queue that nobody has called yet satisfies the invariant.
LEMMA InitInv == Init => IInv
  BY NameAssumption
     DEF Init, IInv, TypeOK, Monitor, NoStranded, NotEmpty, NotFull, Waiting

(* Every step keeps the types.                                             *)
LEMMA StepType ==
  ASSUME IInv, [Next]_vars PROVE TypeOK'
<1> USE DEF IInv, TypeOK
<1>1. ASSUME NEW t \in Threads, CallPut(t) \/ CallPop(t) \/ CallSize(t) PROVE TypeOK'
  BY <1>1 DEF CallPut, CallPop, CallSize, Call
<1>2. ASSUME NEW t \in Threads, PutPush(t) PROVE TypeOK'
  <2>1. val[t] \in Item
    BY <1>2 DEF PutPush, Monitor
  <2> QED
    BY <1>2, <2>1 DEF PutPush
<1>3. ASSUME NEW t \in Threads, PopTake(t) PROVE TypeOK'
  <2>1. Head(data) \in Item /\ Tail(data) \in Seq(Item)
    BY <1>3 DEF PopTake, NotEmpty
  <2> QED
    BY <1>3, <2>1 DEF PopTake
<1>4. ASSUME NEW t \in Threads,
             \/ Lock(t) \/ PutWait(t) \/ PopWait(t) \/ SizeRead(t)
             \/ NotifyAll(t) \/ Unlock(t) \/ Spurious(t)
      PROVE  TypeOK'
  BY <1>4 DEF Lock, PutWait, PopWait, SizeRead, NotifyAll, Unlock, Spurious, Waiting
<1>5. CASE UNCHANGED vars
  BY <1>5 DEF vars
<1> QED
  BY <1>1, <1>2, <1>3, <1>4, <1>5, NextIsAct DEF Act

(* The mutex excludes: whoever is in the body of a call holds it.          *)
LEMMA StepMonitor ==
  ASSUME IInv, [Next]_vars PROVE Monitor'
<1> SUFFICES ASSUME NEW u \in Threads
             PROVE  /\ (pc[u] \in {"body", "notify", "unlock"} <=> m_lock = u)'
                    /\ (pc[u] = "idle" <=> op[u] = "none")'
                    /\ (pc[u] \in {"wait", "notify"} => op[u] \in {"put", "pop"})'
                    /\ (op[u] = "put" /\ pc[u] \in {"lock", "body", "wait"}
                          <=> val[u] # NoItem)'
  BY DEF Monitor
<1> USE NameAssumption DEF IInv, TypeOK, Monitor
<1>1. ASSUME NEW t \in Threads, CallPut(t) \/ CallPop(t) \/ CallSize(t) PROVE Monitor'
  BY <1>1 DEF CallPut, CallPop, CallSize, Call
<1>2. ASSUME NEW t \in Threads, Lock(t) \/ PutWait(t) \/ PopWait(t) \/ Unlock(t) PROVE Monitor'
  BY <1>2 DEF Lock, PutWait, PopWait, Unlock
<1>3. ASSUME NEW t \in Threads, PutPush(t) \/ PopTake(t) \/ SizeRead(t) \/ Spurious(t)
      PROVE Monitor'
  BY <1>3 DEF PutPush, PopTake, SizeRead, Spurious
<1>4. ASSUME NEW t \in Threads, NotifyAll(t) PROVE Monitor'
  BY <1>4 DEF NotifyAll, Waiting, Notified
<1>5. CASE UNCHANGED vars
  BY <1>5 DEF vars
<1> QED
  BY <1>1, <1>2, <1>3, <1>4, <1>5, NextIsAct DEF Act

(* No step loses a wake-up: only a put() makes an empty queue nonempty and  *)
(* only a pop() makes a full one not full, and then the caller holds the    *)
(* mutex until it has notified; only its holder can go to sleep, and it     *)
(* does so on a predicate that is false.                                    *)
LEMMA StepNoStranded ==
  ASSUME IInv, [Next]_vars PROVE NoStranded'
<1> USE DEF IInv, TypeOK, Monitor
<1>1. ASSUME NEW t \in Threads,
             \/ CallPut(t) \/ CallPop(t) \/ CallSize(t) \/ Lock(t)
             \/ SizeRead(t) \/ Spurious(t)
      PROVE  NoStranded'
  <2>1. /\ data' = data
        /\ \A u \in Threads : pc'[u] = "wait" => pc[u] = "wait" /\ op'[u] = op[u]
        /\ \A u \in Threads : pc[u] = "notify" /\ m_lock = u
                                => pc'[u] = "notify" /\ m_lock' = u /\ op'[u] = op[u]
    <3>1. CASE CallPut(t) \/ CallPop(t) \/ CallSize(t)
      BY <3>1 DEF CallPut, CallPop, CallSize, Call
    <3>2. CASE Lock(t)
      BY <3>2, NameAssumption DEF Lock
    <3>3. CASE SizeRead(t) \/ Spurious(t)
      BY <3>3 DEF SizeRead, Spurious
    <3> QED
      BY <1>1, <3>1, <3>2, <3>3
  <2> QED
    BY <2>1 DEF NoStranded, Waiting, NotEmpty, NotFull
<1>2. ASSUME NEW t \in Threads, PutWait(t) \/ PopWait(t) PROVE NoStranded'
  <2>1. m_lock = t /\ pc[t] = "body"
    BY <1>2 DEF PutWait, PopWait
  <2>2. \A u \in Threads : ~ (m_lock = u /\ pc[u] = "notify")
    BY <2>1
  <2> QED
    BY <1>2, <2>2 DEF PutWait, PopWait, NoStranded, Waiting, NotEmpty, NotFull
<1>3. ASSUME NEW t \in Threads, PutPush(t) PROVE NoStranded'
  <2>1. m_lock = t /\ \A u \in Threads : ~ (m_lock = u /\ pc[u] = "notify")
    BY <1>3 DEF PutPush
  <2>2. NotFull /\ Waiting("put") = {}
    BY <1>3, <2>1 DEF PutPush, NoStranded
  <2> QED
    BY <1>3, <2>1, <2>2 DEF PutPush, NoStranded, Waiting
<1>4. ASSUME NEW t \in Threads, PopTake(t) PROVE NoStranded'
  <2>1. m_lock = t /\ \A u \in Threads : ~ (m_lock = u /\ pc[u] = "notify")
    BY <1>4 DEF PopTake
  <2>2. NotEmpty /\ Waiting("pop") = {}
    BY <1>4, <2>1 DEF PopTake, NoStranded
  <2> QED
    BY <1>4, <2>1, <2>2 DEF PopTake, NoStranded, Waiting
<1>5. ASSUME NEW t \in Threads, NotifyAll(t) PROVE NoStranded'
  <2>1. m_lock = t /\ \A u \in Threads : pc[u] = "notify" => u = t
    BY <1>5 DEF NotifyAll
  <2>2. Waiting(Notified(op[t]))' = {}
    BY <1>5 DEF NotifyAll, Waiting, Notified
  <2>3. \A k \in {"put", "pop"} : Waiting(k)' \subseteq Waiting(k)
    BY <1>5 DEF NotifyAll, Waiting
  <2>4. UNCHANGED <<data, op>>
    BY <1>5 DEF NotifyAll
  <2>5. op[t] \in {"put", "pop"}
    BY <1>5 DEF NotifyAll
  <2> QED
    BY <2>1, <2>2, <2>3, <2>4, <2>5 DEF NoStranded, Notified, NotEmpty, NotFull
<1>6. ASSUME NEW t \in Threads, Unlock(t) PROVE NoStranded'
  <2>1. \A u \in Threads : ~ (m_lock = u /\ pc[u] = "notify")
    BY <1>6 DEF Unlock
  <2> QED
    BY <1>6, <2>1 DEF Unlock, NoStranded, Waiting, NotEmpty, NotFull
<1>7. CASE UNCHANGED vars
  BY <1>7 DEF vars, NoStranded, Waiting, NotEmpty, NotFull
<1> QED
  BY <1>1, <1>2, <1>3, <1>4, <1>5, <1>6, <1>7, NextIsAct DEF Act

(* The inductive invariant holds in every reachable state.                 *)
THEOREM Inductive == Spec => []IInv
<1>1. IInv /\ [Next]_vars => IInv'
  BY StepType, StepMonitor, StepNoStranded DEF IInv
<1> QED
  BY <1>1, InitInv, PTL DEF Spec

(* Type correctness.                                                       *)
THEOREM TypeCorrect == Spec => []TypeOK
  BY Inductive, PTL DEF IInv

(* No wake-up is ever lost, with any number of threads on both sides.      *)
THEOREM NobodyStranded == Spec => []NoStranded
  BY Inductive, PTL DEF IInv

(* The monitor implements the bounded blocking queue.                      *)
THEOREM MonitorImplementsFifo == Spec => ImplementsFifo
<1>1. Init => Fifo!Init
  BY DEF Init, Fifo!Init
<1>2. IInv /\ [Next]_vars => [Fifo!BlockingNext]_(Fifo!fifoVars)
  <2> SUFFICES ASSUME IInv, [Next]_vars
               PROVE  [Fifo!BlockingNext]_(Fifo!fifoVars)
    OBVIOUS
  <2> USE NameAssumption DEF IInv, TypeOK, Monitor, Fifo!BlockingNext, Fifo!fifoVars
  <2>1. ASSUME NEW t \in Threads, CallPut(t)
        PROVE  [Fifo!BlockingNext]_(Fifo!fifoVars)
    <3>1. PICK v \in Item : Call(t, "put", v)
      BY <2>1 DEF CallPut
    <3>2. Fifo!Offer(t, v)
      BY <3>1 DEF Call, Fifo!Offer
    <3> QED
      BY <3>2
  <2>2. ASSUME NEW t \in Threads, PutPush(t)
        PROVE  [Fifo!BlockingNext]_(Fifo!fifoVars)
    <3>1. Fifo!Accept(t)
      BY <2>2 DEF PutPush, NotFull, Fifo!Accept
    <3> QED
      BY <3>1
  <2>3. ASSUME NEW t \in Threads, PopTake(t)
        PROVE  [Fifo!BlockingNext]_(Fifo!fifoVars)
    <3>1. Fifo!Take(t)
      BY <2>3 DEF PopTake, NotEmpty, Fifo!Take
    <3> QED
      BY <3>1
  <2>4. ASSUME NEW t \in Threads, CallPop(t) \/ CallSize(t)
        PROVE  UNCHANGED <<val, data, got>>
    <3>1. val[t] = NoItem
      BY <2>4 DEF CallPop, CallSize, Call
    <3> QED
      BY <2>4, <3>1 DEF CallPop, CallSize, Call
  <2>5. ASSUME NEW t \in Threads,
               \/ Lock(t) \/ PutWait(t) \/ PopWait(t) \/ SizeRead(t)
               \/ NotifyAll(t) \/ Unlock(t) \/ Spurious(t)
        PROVE  UNCHANGED <<val, data, got>>
    BY <2>5 DEF Lock, PutWait, PopWait, SizeRead, NotifyAll, Unlock, Spurious
  <2>6. CASE UNCHANGED vars
    BY <2>6 DEF vars
  <2> QED
    BY <2>1, <2>2, <2>3, <2>4, <2>5, <2>6, NextIsAct DEF Act
<1> QED
  BY <1>1, <1>2, Inductive, PTL DEF Spec, ImplementsFifo, Fifo!BlockingSpec

=============================================================================
