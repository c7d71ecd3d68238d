--------------------------- MODULE BlockingQueue ---------------------------
(***************************************************************************)
(* usi::BlockingQueue (code/inc/concurrent/BlockingQueue.h): a monitor of  *)
(* one mutex and two condition variables around a std::queue.  Any thread  *)
(* may call put(), pop() and size().  One action is what a thread does     *)
(* between two points at which another thread can be scheduled: a call, an *)
(* acquisition of the mutex, the part of the body up to wait() or to       *)
(* notify_all(), the notification, and the release of the mutex.           *)
(***************************************************************************)
EXTENDS Integers, Sequences

CONSTANTS
  Threads,   \* threads that share the queue
  Item,      \* values that are put
  NoItem,    \* not a value
  NoThread,  \* not a thread: nobody holds the mutex
  cap        \* the constructor's argument

\* data.size() < cap compares as size_t: a negative cap would be no bound at
\* all, and no caller passes one
ASSUME CapAssumption == cap \in Nat
ASSUME NameAssumption == NoItem \notin Item /\ NoThread \notin Threads

VARIABLES
  data,    \* the queue
  m_lock,  \* the thread that holds the mutex, or NoThread
  op,      \* op[t]: the call that t is in, or "none"
  pc,      \* pc[t]: where t is in that call
  val,     \* val[t]: argument of t's put(), or NoItem
  got      \* got[t]: what t's last pop() took, or NoItem

vars == <<data, m_lock, op, pc, val, got>>

NotFullLate == Len(data) <= cap                                \* mutant

\* the predicates that put() and pop() wait for
NotFull == Len(data) < cap
NotEmpty == data # <<>>

\* the sleepers on the condition variable that put(), or pop(), waits on
Waiting(kind) == {t \in Threads : pc[t] = "wait" /\ op[t] = kind}

-----------------------------------------------------------------------------
Init ==
  /\ data = <<>>
  /\ m_lock = NoThread
  /\ op = [t \in Threads |-> "none"]
  /\ pc = [t \in Threads |-> "idle"]
  /\ val = [t \in Threads |-> NoItem]
  /\ got = [t \in Threads |-> NoItem]

\* t enters put(v), pop() or size() and heads for the mutex
Call(t, kind, v) ==
  /\ pc[t] = "idle"
  /\ op' = [op EXCEPT ![t] = kind]
  /\ pc' = [pc EXCEPT ![t] = "lock"]
  /\ val' = [val EXCEPT ![t] = v]
  /\ UNCHANGED <<data, m_lock, got>>

CallPut(t) == \E v \in Item : Call(t, "put", v)
CallPop(t) == Call(t, "pop", NoItem)
CallSize(t) == Call(t, "size", NoItem)

\* the unique_lock's constructor, or the end of a wait(): t gets the mutex
Lock(t) ==
  /\ pc[t] = "lock" /\ m_lock = NoThread
  /\ m_lock' = t
  /\ pc' = [pc EXCEPT ![t] = "body"]
  /\ UNCHANGED <<data, op, val, got>>

PutWaitHolding(t) ==                                          \* mutant
  /\ op[t] = "put" /\ pc[t] = "body"
  /\ ~ NotFull
  /\ pc' = [pc EXCEPT ![t] = "wait"]
  /\ UNCHANGED <<data, m_lock, op, val, got>>

\* the predicate is false: wait() releases the mutex and sleeps in one step
PutWait(t) ==
  /\ op[t] = "put" /\ pc[t] = "body"
  /\ ~ NotFull
  /\ pc' = [pc EXCEPT ![t] = "wait"]
  /\ m_lock' = NoThread
  /\ UNCHANGED <<data, op, val, got>>

PutPush(t) ==
  /\ op[t] = "put" /\ pc[t] = "body"
  /\ NotFull
  /\ data' = Append(data, val[t])
  /\ pc' = [pc EXCEPT ![t] = "notify"]
  /\ val' = [val EXCEPT ![t] = NoItem]
  /\ UNCHANGED <<m_lock, op, got>>

PopWait(t) ==
  /\ op[t] = "pop" /\ pc[t] = "body"
  /\ ~ NotEmpty
  /\ pc' = [pc EXCEPT ![t] = "wait"]
  /\ m_lock' = NoThread
  /\ UNCHANGED <<data, op, val, got>>

PopTake(t) ==
  /\ op[t] = "pop" /\ pc[t] = "body"
  /\ NotEmpty
  /\ got' = [got EXCEPT ![t] = Head(data)]
  /\ data' = Tail(data)
  /\ pc' = [pc EXCEPT ![t] = "notify"]
  /\ UNCHANGED <<m_lock, op, val>>

SizeRead(t) ==
  /\ op[t] = "size" /\ pc[t] = "body"
  /\ pc' = [pc EXCEPT ![t] = "unlock"]
  /\ UNCHANGED <<data, m_lock, op, val, got>>

NotifiedSame(kind) == kind                                     \* mutant

\* put() notifies not_empty, on which pop() waits, and the other way round
Notified(kind) == IF kind = "put" THEN "pop" ELSE "put"

NotifyOne(t) ==                                               \* mutant
  /\ pc[t] = "notify"
  /\ LET sleepers == Waiting(Notified(op[t]))
     IN  \/ sleepers = {} /\ pc' = [pc EXCEPT ![t] = "unlock"]
         \/ \E u \in sleepers : pc' = [pc EXCEPT ![t] = "unlock", ![u] = "lock"]
  /\ UNCHANGED <<data, m_lock, op, val, got>>

\* notify_all(): every sleeper has to get the mutex again
NotifyAll(t) ==
  /\ pc[t] = "notify"
  /\ pc' = [u \in Threads |-> IF u = t THEN "unlock"
                              ELSE IF u \in Waiting(Notified(op[t])) THEN "lock"
                              ELSE pc[u]]
  /\ UNCHANGED <<data, m_lock, op, val, got>>

\* the unique_lock's destructor; the call returns
Unlock(t) ==
  /\ pc[t] = "unlock"
  /\ m_lock' = NoThread
  /\ op' = [op EXCEPT ![t] = "none"]
  /\ pc' = [pc EXCEPT ![t] = "idle"]
  /\ UNCHANGED <<data, val, got>>

\* a condition variable may wake a sleeper for no reason
Spurious(t) ==
  /\ pc[t] = "wait"
  /\ pc' = [pc EXCEPT ![t] = "lock"]
  /\ UNCHANGED <<data, m_lock, op, val, got>>

\* what t does without being asked to, once it has called
Run(t) == \/ PutWait(t) \/ PutPush(t)
          \/ PopWait(t) \/ PopTake(t)
          \/ SizeRead(t)
          \/ NotifyAll(t)
          \/ Unlock(t)

Next == \E t \in Threads :
  \/ CallPut(t) \/ CallPop(t) \/ CallSize(t)
  \/ Lock(t) \/ Run(t) \/ Spurious(t)

Spec == Init /\ [][Next]_vars

\* A thread that holds the mutex is scheduled until it lets go of it, and a
\* free mutex goes to one of the threads that want it, whichever.
FairSpec ==
  /\ Spec
  /\ \A t \in Threads : WF_vars(Run(t))
  /\ WF_vars(\E t \in Threads : Lock(t))

-----------------------------------------------------------------------------
(* Safety.                                                                 *)

TypeOK ==
  /\ data \in Seq(Item)
  /\ m_lock \in Threads \cup {NoThread}
  /\ op \in [Threads -> {"none", "put", "pop", "size"}]
  /\ pc \in [Threads -> {"idle", "lock", "body", "wait", "notify", "unlock"}]
  /\ val \in [Threads -> Item \cup {NoItem}]
  /\ got \in [Threads -> Item \cup {NoItem}]

(* No wake-up is lost: while a thread sleeps in pop() although there is an *)
(* item, or in put() although there is room, the thread whose call made it *)
(* so still holds the mutex and has its notify_all() ahead of it.          *)
NoStranded ==
  /\ NotEmpty /\ Waiting("pop") # {} => \E t \in Threads :
       m_lock = t /\ op[t] = "put" /\ pc[t] = "notify"
  /\ NotFull /\ Waiting("put") # {} => \E t \in Threads :
       m_lock = t /\ op[t] = "pop" /\ pc[t] = "notify"

Fifo == INSTANCE BoundedFifo WITH
  Producers <- Threads, Consumers <- Threads, Capacity <- cap,
  offered <- val, queue <- data, taken <- got, open <- TRUE

(* The monitor is a bounded first-in first-out queue for any number of     *)
(* producers and consumers, whose put() never gives up: each put() that    *)
(* returns has added its value once, each pop() has removed one value, and *)
(* there are never more than cap of them.                                  *)
ImplementsFifo == Fifo!BlockingSpec

-----------------------------------------------------------------------------
(* Liveness.                                                               *)

Pending(kind) == \E t \in Threads : op[t] = kind

\* wake-ups for no reason, and calls of size(), come to an end; a mutex that
\* promises nobody a turn could be kept busy by them for ever
Undisturbed == <>[][\A t \in Threads : ~ Spurious(t) /\ ~ CallSize(t)]_vars

(* The queue does not come to a standstill: if from some moment on there   *)
(* is always a put() under way and always a pop(), then items go in and    *)
(* out for ever.                                                           *)
NoStandstill ==
  Undisturbed /\ <>[](Pending("put") /\ Pending("pop"))
    => /\ []<><<\E t \in Threads : PutPush(t)>>_vars
       /\ []<><<\E t \in Threads : PopTake(t)>>_vars

(* With items in the queue and threads in pop(), some pop() gets one; with *)
(* room and threads in put(), some put() gets in.                          *)
Served ==
  Undisturbed =>
    /\ <>[](Pending("pop") /\ NotEmpty) => []<><<\E t \in Threads : PopTake(t)>>_vars
    /\ <>[](Pending("put") /\ NotFull) => []<><<\E t \in Threads : PutPush(t)>>_vars

-----------------------------------------------------------------------------
(* The inductive invariant.                                                *)

\* exactly the thread that holds the mutex is past its acquisition, and what
\* a thread is doing fits its call
Monitor ==
  \A t \in Threads :
    /\ pc[t] \in {"body", "notify", "unlock"} <=> m_lock = t
    /\ pc[t] = "idle" <=> op[t] = "none"
    /\ pc[t] \in {"wait", "notify"} => op[t] \in {"put", "pop"}
    /\ op[t] = "put" /\ pc[t] \in {"lock", "body", "wait"} <=> val[t] # NoItem

(* What each step of put(), pop() and size() preserves.  A sleeper is        *)
(* accounted for by the holder of the mutex, so Monitor is needed to know    *)
(* that this thread is the only one and where it stands.                     *)
IInv == TypeOK /\ Monitor /\ NoStranded

=============================================================================
