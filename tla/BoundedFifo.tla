---------------------------- MODULE BoundedFifo ----------------------------
(***************************************************************************)
(* What a bounded first-in first-out queue promises to the threads that    *)
(* share it, without saying how.  Both queues of the repository are shown  *)
(* to implement it: the lock-free ring of ProducerConsumerQueue.h and the  *)
(* monitor of BlockingQueue.h; TaskQueue.h, which wraps the ring, is shown *)
(* to implement the blocking variant.                                      *)
(*                                                                         *)
(* A producer offers an item when it calls the put operation.  The item is *)
(* then accepted exactly once, at the tail, or refused (the non-blocking   *)
(* queue answers "full"); a consumer takes the item at the head.  Nothing  *)
(* is lost, duplicated, reordered or invented on the way.                  *)
(***************************************************************************)
EXTENDS Naturals, Sequences

CONSTANTS
  Producers,   \* threads that may put
  Consumers,   \* threads that may take
  Item,        \* what is queued
  NoItem,      \* not an item: "no offer pending", "nothing taken yet"
  Capacity     \* how many items the queue holds at most

VARIABLES
  offered,     \* offered[p]: the item of p's put in progress, or NoItem
  queue,       \* the items accepted and not yet taken, oldest first
  taken,       \* taken[c]: the item that c took last, or NoItem
  open         \* FALSE once the queue has been destroyed

fifoVars == <<offered, queue, taken, open>>

Init ==
  /\ offered = [p \in Producers |-> NoItem]
  /\ queue = <<>>
  /\ taken = [c \in Consumers |-> NoItem]
  /\ open = TRUE

\* p calls the put operation with v
Offer(p, v) ==
  /\ open
  /\ offered[p] = NoItem
  /\ offered' = [offered EXCEPT ![p] = v]
  /\ UNCHANGED <<queue, taken, open>>

\* p's item enters the queue, which has room for it
Accept(p) ==
  /\ open
  /\ offered[p] # NoItem
  /\ Len(queue) < Capacity
  /\ queue' = Append(queue, offered[p])
  /\ offered' = [offered EXCEPT ![p] = NoItem]
  /\ UNCHANGED <<taken, open>>

\* p's put gives up; a blocking queue never does
Refuse(p) ==
  /\ offered[p] # NoItem
  /\ offered' = [offered EXCEPT ![p] = NoItem]
  /\ UNCHANGED <<queue, taken, open>>

\* c takes the oldest item
Take(c) ==
  /\ open
  /\ queue # <<>>
  /\ queue' = Tail(queue)
  /\ taken' = [taken EXCEPT ![c] = Head(queue)]
  /\ UNCHANGED <<offered, open>>

\* the queue is destroyed with whatever it still holds
Close ==
  /\ open
  /\ open' = FALSE
  /\ queue' = <<>>
  /\ UNCHANGED <<offered, taken>>

BlockingNext ==
  \/ \E p \in Producers : \E v \in Item : Offer(p, v)
  \/ \E p \in Producers : Accept(p)
  \/ \E c \in Consumers : Take(c)
  \/ Close

Next == BlockingNext \/ \E p \in Producers : Refuse(p)

\* a queue whose put answers at once, and may answer "full"
Spec == Init /\ [][Next]_fifoVars

\* a queue whose put returns only when the item is in
BlockingSpec == Init /\ [][BlockingNext]_fifoVars

============================================================================
