-------------------------- MODULE SpscQueueProofs --------------------------
(***************************************************************************)
(* Proofs about SpscQueue, for every size and every set of items.          *)
(***************************************************************************)
EXTENDS SpscQueue, SequenceTheorems, TLAPS

-----------------------------------------------------------------------------
(* Going round the ring.  Dist is the only place where the index arithmetic *)
(* is expanded; the proofs below use these facts.                           *)

(* Distances stay below size_, and only an index is at distance 0 from      *)
(* itself.                                                                  *)
LEMMA DistType ==
  ASSUME NEW a \in Index, NEW b \in Index
  PROVE  /\ Dist(a, b) \in 0 .. size_ - 1
         /\ Dist(a, b) = 0 <=> a = b
  BY SizeAssumption DEF Index, Dist

(* The wrap-around of write() and read() keeps an index in range, one step  *)
(* further from where it was counted.                                       *)
LEMMA NextRecord ==
  ASSUME NEW a \in Index, NEW b \in Index
  PROVE  /\ nextRecord(b) \in Index
         /\ nextRecord(b) # b
         /\ nextRecord(b) # a => Dist(a, nextRecord(b)) = Dist(a, b) + 1
         /\ a # b => Dist(nextRecord(a), b) = Dist(a, b) - 1
  BY SizeAssumption DEF Index, Dist, nextRecord

(* If going round from a one meets b before c, the distances add up.        *)
LEMMA DistAdd ==
  ASSUME NEW a \in Index, NEW b \in Index, NEW c \in Index,
         Dist(a, b) <= Dist(a, c)
  PROVE  Dist(a, c) = Dist(a, b) + Dist(b, c)
  BY SizeAssumption DEF Index, Dist

(* Publishing an item puts its slot among those in use.                     *)
LEMMA BetweenPublish ==
  ASSUME NEW r \in Index, NEW w \in Index, nextRecord(w) # r
  PROVE  Between(r, nextRecord(w)) = Between(r, w) \cup {w}
  BY SizeAssumption DEF Between, Index, Dist, nextRecord

(* Releasing an item takes its slot out of those in use.                    *)
LEMMA BetweenRelease ==
  ASSUME NEW r \in Index, NEW w \in Index, r # w
  PROVE  Between(nextRecord(r), w) = Between(r, w) \ {r}
  BY SizeAssumption DEF Between, Index, Dist, nextRecord

(* The slot about to be written is not in use, the slot about to be read is.*)
LEMMA BetweenEnds ==
  ASSUME NEW r \in Index, NEW w \in Index
  PROVE  /\ w \notin Between(r, w)
         /\ r # w => r \in Between(r, w)
  BY SizeAssumption DEF Between, Index, Dist

(* What the views give to their owners: a producer that sees a free slot    *)
(* has one, a consumer that sees an item has one.                           *)
LEMMA Views ==
  ASSUME TypeOK, ViewsOrdered
  PROVE  /\ ~ isFull(seenRead, writeIndex_) => ~ isFull(readIndex_, writeIndex_)
         /\ ~ isEmpty(readIndex_, seenWrite) => readIndex_ # writeIndex_
  BY SizeAssumption
     DEF TypeOK, ViewsOrdered, Index, Dist, isFull, isEmpty, nextRecord

-----------------------------------------------------------------------------
\* A ring just constructed, empty and raw, satisfies the invariant.
LEMMA InitInv == Init => IInv
  BY ItemAssumption, SizeAssumption
     DEF Init, IInv, TypeOK, ViewsOrdered, Underway, SlotContent, NoLeak, Index,
         Between, Dist

(* What a thread is doing, and the order of the views, survive every step.  *)
LEMMA StepViews ==
  ASSUME TypeOK, ViewsOrdered, [Next]_vars, Underway PROVE ViewsOrdered'
<1> USE SizeAssumption DEF TypeOK, Index
<1>1. CASE WriteStore
  BY <1>1 DEF WriteStore, ViewsOrdered, Dist, nextRecord, Underway, isFull
<1>2. CASE ReadStore
  BY <1>2 DEF ReadStore, ViewsOrdered, Dist, nextRecord, Underway, isEmpty
<1>3. CASE SeeRead
  BY <1>3 DEF SeeRead, NewerRead, ViewsOrdered, Dist
<1>4. CASE SeeWrite
  BY <1>4 DEF SeeWrite, NewerWrite, ViewsOrdered, Dist
<1>5. CASE UNCHANGED <<readIndex_, writeIndex_, seenRead, seenWrite>>
  BY <1>5 DEF ViewsOrdered, Dist
<1> QED
  BY <1>1, <1>2, <1>3, <1>4, <1>5
     DEF Next, Producer, Consumer, vars, WriteBegin, WriteConstruct, ReadBegin, ReadMove,
         ReadDestroy, FrontPtr, PopFront, PopDestroy, Destruct, Destroyed

\* Indices, slots and program counters keep their types.
LEMMA StepType ==
  ASSUME IInv, [Next]_vars PROVE TypeOK'
<1> USE DEF IInv, TypeOK
<1>1. CASE Producer
  BY <1>1, NextRecord
     DEF Producer, WriteBegin, WriteConstruct, WriteStore, SeeRead, NewerRead, Underway
<1>2. CASE ReadMove
  <2>1. records_[readIndex_] \in Item
    BY <1>2, BetweenEnds, Views DEF ReadMove, Underway, SlotContent
  <2> QED
    BY <1>2, <2>1 DEF ReadMove
<1>3. CASE PopDestroy
  <2>1. records_[readIndex_] \in Item
    BY <1>3, BetweenEnds, Views DEF PopDestroy, Underway, SlotContent
  <2> QED
    BY <1>3, <2>1 DEF PopDestroy
<1>4. CASE ReadStore
  BY <1>4, NextRecord DEF ReadStore
<1>5. CASE ReadBegin \/ ReadDestroy \/ FrontPtr \/ PopFront \/ SeeWrite
  BY <1>5 DEF ReadBegin, ReadDestroy, FrontPtr, PopFront, SeeWrite, NewerWrite
<1>6. CASE Destruct
  BY <1>6 DEF Destruct
<1>7. CASE UNCHANGED vars
  BY <1>7 DEF vars
<1> QED
  BY <1>1, <1>2, <1>3, <1>4, <1>5, <1>6, <1>7 DEF Next, Consumer, Destroyed

(* A call under way rests on what its thread has seen, and a view that      *)
(* moves on while the call runs takes nothing of it back.                   *)
LEMMA StepUnderway ==
  ASSUME IInv, [Next]_vars PROVE Underway'
<1> USE DEF IInv, TypeOK, Underway
<1>1. CASE \E v \in Item : WriteBegin(v)
  BY <1>1 DEF WriteBegin, isFull, isEmpty
<1>2. CASE WriteConstruct
  BY <1>2 DEF WriteConstruct, isFull, isEmpty
<1>3. CASE WriteStore
  BY <1>3 DEF WriteStore, isEmpty
<1>4. CASE SeeRead
  BY <1>4, SizeAssumption
     DEF SeeRead, NewerRead, isFull, isEmpty, nextRecord, ViewsOrdered, Dist, Index
<1>5. CASE SeeWrite
  BY <1>5, SizeAssumption
     DEF SeeWrite, NewerWrite, isFull, isEmpty, ViewsOrdered, Dist, Index
<1>6. CASE ReadBegin \/ ReadMove \/ ReadDestroy \/ FrontPtr \/ PopFront \/ PopDestroy
  BY <1>6
     DEF ReadBegin, ReadMove, ReadDestroy, FrontPtr, PopFront, PopDestroy, isFull, isEmpty
<1>7. CASE ReadStore
  BY <1>7 DEF ReadStore, isFull
<1>8. CASE Destruct \/ Destroyed \/ UNCHANGED vars
  BY <1>8 DEF Destruct, Destroyed, vars, isFull, isEmpty
<1> QED
  BY <1>1, <1>2, <1>3, <1>4, <1>5, <1>6, <1>7, <1>8 DEF Next, Producer, Consumer

(* Every step leaves an item in each slot in use, apart from the one being  *)
(* emptied, and no object in the others, apart from the one being filled.   *)
LEMMA StepSlots ==
  ASSUME IInv, [Next]_vars, live' PROVE \A s \in Index : SlotContent(s)'
<1> SUFFICES ASSUME NEW s \in Index PROVE SlotContent(s)'
  OBVIOUS
<1> USE DEF IInv, TypeOK, SlotContent
<1>0. live /\ SlotContent(s)
  BY DEF Next, Producer, Consumer, vars, WriteBegin, WriteConstruct, WriteStore, SeeRead,
         ReadBegin, ReadMove, ReadDestroy, ReadStore, FrontPtr, PopFront, PopDestroy,
         SeeWrite, Destruct, Destroyed
<1>a. /\ writeIndex_ \notin Between(readIndex_, writeIndex_)
      /\ rpc # "idle" => readIndex_ \in Between(readIndex_, writeIndex_)
  BY BetweenEnds, Views DEF Underway
<1>1. CASE \E v \in Item : WriteBegin(v)
  BY <1>0, <1>1 DEF WriteBegin, Underway
<1>2. CASE WriteConstruct
  BY <1>0, <1>a, <1>2 DEF WriteConstruct
<1>3. CASE WriteStore
  <2>1. Between(readIndex_, writeIndex_)' = Between(readIndex_, writeIndex_) \cup {writeIndex_}
    BY <1>3, BetweenPublish, Views DEF WriteStore, Underway, isFull
  <2> QED
    BY <1>0, <1>a, <1>3, <2>1 DEF WriteStore, Underway
<1>4. CASE ReadStore
  <2>1. Between(readIndex_, writeIndex_)' = Between(readIndex_, writeIndex_) \ {readIndex_}
    BY <1>4, BetweenRelease, Views DEF ReadStore, Underway
  <2> QED
    BY <1>0, <1>a, <1>4, <2>1 DEF ReadStore
<1>5. CASE ReadMove \/ ReadDestroy \/ PopDestroy
  BY <1>0, <1>a, <1>5 DEF ReadMove, ReadDestroy, PopDestroy
<1>6. CASE SeeRead \/ SeeWrite \/ ReadBegin \/ FrontPtr \/ PopFront \/ UNCHANGED vars
  BY <1>0, <1>6 DEF SeeRead, SeeWrite, ReadBegin, FrontPtr, PopFront, vars
<1> QED
  BY <1>0, <1>1, <1>2, <1>3, <1>4, <1>5, <1>6 DEF Next, Producer, Consumer, Destruct, Destroyed

(* The destructor meets two idle threads, so that the slots in use are all  *)
(* that is constructed.                                                     *)
LEMMA StepNoLeak ==
  ASSUME IInv, [Next]_vars PROVE NoLeak'
<1> USE DEF IInv, TypeOK, NoLeak
<1>1. CASE Destruct
  BY <1>1 DEF Destruct, SlotContent
<1>2. CASE ~ Destruct /\ live
  BY <1>2
     DEF Next, Producer, Consumer, vars, WriteBegin, WriteConstruct, WriteStore, SeeRead,
         ReadBegin, ReadMove, ReadDestroy, ReadStore, FrontPtr, PopFront, PopDestroy,
         SeeWrite, Destroyed
<1>3. CASE ~ live
  <2>1. UNCHANGED vars
    BY <1>3
       DEF Next, Producer, Consumer, vars, WriteBegin, WriteConstruct, WriteStore, SeeRead,
           ReadBegin, ReadMove, ReadDestroy, ReadStore, FrontPtr, PopFront, PopDestroy,
           SeeWrite, Destruct, Destroyed, Underway
  <2> QED
    BY <1>3, <2>1 DEF vars
<1> QED
  BY <1>1, <1>2, <1>3

(* Every step keeps the invariant.                                          *)
LEMMA StepInv ==
  ASSUME IInv, [Next]_vars PROVE IInv'
  BY StepType, StepViews, StepUnderway, StepSlots, StepNoLeak DEF IInv

(* The inductive invariant holds in every reachable state.                  *)
THEOREM Inductive == Spec => []IInv
<1>1. IInv /\ [Next]_vars => IInv'
  BY StepInv
<1> QED
  BY <1>1, InitInv, PTL DEF Spec

-----------------------------------------------------------------------------
(* What the invariant says to the users of the queue.                       *)

(* Type correctness.                                                        *)
THEOREM TypeCorrect == Spec => []TypeOK
  BY Inductive, PTL DEF IInv

\* The invariant says of every slot what the lifetime rules need.
LEMMA InvSlots == IInv => SlotLifetime
<1> SUFFICES ASSUME IInv PROVE SlotLifetime
  OBVIOUS
<1> USE DEF IInv, TypeOK
<1>1. /\ writeIndex_ \notin Between(readIndex_, writeIndex_)
      /\ rpc # "idle" => /\ readIndex_ \in Between(readIndex_, writeIndex_)
                         /\ readIndex_ # writeIndex_
  BY BetweenEnds, Views DEF Underway
<1> QED
  BY <1>1 DEF SlotLifetime, SlotContent, Underway

(* The two threads never meet in a slot, and no slot is used raw or         *)
(* overwritten, for any size of the ring.                                   *)
THEOREM SlotSafety == Spec => []SlotLifetime
  BY Inductive, InvSlots, PTL

(* The assertion of popFront() never fails.                                 *)
THEOREM PopFrontSafe == Spec => []PopFrontAssert
<1>1. IInv => PopFrontAssert
  BY DEF IInv, Underway, PopFrontAssert
<1> QED
  BY <1>1, Inductive, PTL

(* The destructor leaks nothing.                                            *)
THEOREM NothingLeaks == Spec => []NoLeak
  BY Inductive, PTL DEF IInv

(* The comment above sizeGuess() is right about both of its callers.        *)
THEOREM GuessesBounded == Spec => []GuessBounds
<1>1. IInv => GuessBounds
  BY SizeAssumption
     DEF IInv, TypeOK, ViewsOrdered, GuessBounds, sizeGuess, Size, capacity, Dist, Index
<1> QED
  BY <1>1, Inductive, PTL

(* The answers of the observers stay good until their caller acts on them.  *)
THEOREM AnswersKeep == Spec => AnswersStick
<1>1. IInv /\ [Next]_vars =>
        [ /\ ~ isFull(seenRead, writeIndex_) /\ writeIndex_' = writeIndex_
            => ~ isFull(seenRead, writeIndex_)'
          /\ ~ isEmpty(readIndex_, seenWrite) /\ readIndex_' = readIndex_
            => ~ isEmpty(readIndex_, seenWrite)' ]_vars
  <2> SUFFICES ASSUME IInv, [Next]_vars
               PROVE  /\ ~ isFull(seenRead, writeIndex_) /\ writeIndex_' = writeIndex_
                        => ~ isFull(seenRead, writeIndex_)'
                      /\ ~ isEmpty(readIndex_, seenWrite) /\ readIndex_' = readIndex_
                        => ~ isEmpty(readIndex_, seenWrite)'
    OBVIOUS
  <2> USE DEF IInv, TypeOK
  <2>1. CASE SeeRead
    BY <2>1, SizeAssumption
       DEF SeeRead, NewerRead, isFull, isEmpty, nextRecord, ViewsOrdered, Dist, Index
  <2>2. CASE SeeWrite
    BY <2>2, SizeAssumption
       DEF SeeWrite, NewerWrite, isFull, isEmpty, ViewsOrdered, Dist, Index
  <2>3. CASE UNCHANGED <<seenRead, seenWrite>>
    BY <2>3 DEF isFull, isEmpty
  <2> QED
    BY <2>1, <2>2, <2>3
       DEF Next, Producer, Consumer, vars, WriteBegin, WriteConstruct, WriteStore, ReadBegin,
           ReadMove, ReadDestroy, ReadStore, FrontPtr, PopFront, PopDestroy, Destruct, Destroyed
<1> QED
  BY <1>1, Inductive, PTL DEF AnswersStick, Spec

(* A pointer into the ring is not disturbed by the producer.                *)
THEOREM FrontKeeps == Spec => FrontStable
<1>1. IInv /\ [Next]_vars =>
        [ rpc = "front" /\ rpc' = "front" /\ live'
            => records_'[readIndex_'] = records_[readIndex_] ]_vars
  <2> SUFFICES ASSUME IInv, [Next]_vars, rpc = "front", rpc' = "front", live'
               PROVE  records_'[readIndex_'] = records_[readIndex_]
    OBVIOUS
  <2> USE DEF IInv, TypeOK
  <2>1. readIndex_ # writeIndex_
    BY Views DEF Underway
  <2> QED
    BY <2>1
       DEF Next, Producer, Consumer, vars, WriteBegin, WriteConstruct, WriteStore, SeeRead,
           ReadBegin, ReadMove, ReadDestroy, ReadStore, FrontPtr, PopFront, PopDestroy,
           SeeWrite, Destruct, Destroyed
<1> QED
  BY <1>1, Inductive, PTL DEF FrontStable, Spec

-----------------------------------------------------------------------------
(* The refinement: what lies in the ring is the bounded queue.             *)

Content == Item \cup {Raw, Moved}

\* what the bounded queue sees of the ring
fifoState == <<wItem, Contents, got, live>>

-----------------------------------------------------------------------------
(* The slots of the items, counted from the head.                          *)

(* The i-th slot from index h is at distance i - 1.                        *)
LEMMA SlotDist ==
  ASSUME NEW h \in Index, NEW i \in 1 .. size_
  PROVE  Slot(h, i) \in Index /\ Dist(h, Slot(h, i)) = i - 1
  BY SizeAssumption DEF Slot, Index, Dist

(* The slot at distance d is the slot of number d + 1.                     *)
LEMMA SlotOfDist ==
  ASSUME NEW h \in Index, NEW s \in Index
  PROVE  Slot(h, Dist(h, s) + 1) = s
  BY SizeAssumption DEF Slot, Index, Dist

(* Counting from the next index shifts the numbers by one.                 *)
LEMMA SlotNext ==
  ASSUME NEW h \in Index, NEW i \in 1 .. size_
  PROVE  Slot(nextRecord(h), i) = Slot(h, i + 1)
  BY SizeAssumption DEF Slot, Index, nextRecord

(* The oldest item still queued lies at an index, never past the end.      *)
LEMMA HeadInRange ==
  ASSUME IInv
  PROVE  HeadIndex \in Index
  BY NextRecord DEF IInv, TypeOK, HeadIndex

(* What lies in n slots, read from a head index on, is a sequence.         *)
LEMMA SlotsSeq ==
  ASSUME NEW f \in [Index -> Content], NEW h \in Index, NEW n \in 0 .. size_ - 1
  PROVE  /\ [i \in 1 .. n |-> f[Slot(h, i)]] \in Seq(Content)
         /\ Len([i \in 1 .. n |-> f[Slot(h, i)]]) = n
<1>1. \A i \in 1 .. n : f[Slot(h, i)] \in Content
  BY SlotDist, SizeAssumption
<1>2. n \in Nat
  BY SizeAssumption
<1> QED
  BY <1>1, <1>2

(* Contents as a sequence.                                                 *)
LEMMA ContentsSeq ==
  ASSUME IInv, live
  PROVE  /\ Contents \in Seq(Content)
         /\ Len(Contents) = Dist(HeadIndex, writeIndex_)
         /\ \A i \in 1 .. Dist(HeadIndex, writeIndex_) :
              Contents[i] = records_[Slot(HeadIndex, i)]
<1>1. HeadIndex \in Index /\ Dist(HeadIndex, writeIndex_) \in 0 .. size_ - 1
  BY HeadInRange, DistType DEF IInv, TypeOK
<1> QED
  BY <1>1, SlotsSeq DEF Contents, Content, IInv, TypeOK

(* A step that touches no slot between the head and the tail leaves the    *)
(* contents alone.                                                         *)
LEMMA ContentsSame ==
  ASSUME IInv, IInv', live, live', HeadIndex' = HeadIndex,
         writeIndex_' = writeIndex_,
         \A s \in Index : Dist(HeadIndex, s) < Dist(HeadIndex, writeIndex_)
                            => records_'[s] = records_[s]
  PROVE  Contents' = Contents
<1>1. /\ HeadIndex \in Index
      /\ Dist(HeadIndex, writeIndex_) \in 0 .. size_ - 1
      /\ Dist(HeadIndex, writeIndex_)' = Dist(HeadIndex, writeIndex_)
  BY HeadInRange, DistType DEF IInv, TypeOK, Dist
<1>2. \A i \in 1 .. Dist(HeadIndex, writeIndex_) :
        records_'[Slot(HeadIndex, i)] = records_[Slot(HeadIndex, i)]
  BY <1>1, SlotDist, SizeAssumption
<1>3. Contents' = [i \in 1 .. Dist(HeadIndex, writeIndex_) |->
                     records_'[Slot(HeadIndex, i)]]
  BY <1>1 DEF Contents, Slot
<1> QED
  BY <1>2, <1>3 DEF Contents

-----------------------------------------------------------------------------
(* The initial state of the ring is that of an empty queue.                *)
LEMMA FifoInit == Init => Fifo!Init
<1> SUFFICES ASSUME Init PROVE Fifo!Init
  OBVIOUS
<1>1. IInv /\ live
  BY InitInv DEF Init
<1>2. Len(Contents) = 0 /\ Contents \in Seq(Content)
  BY <1>1, ContentsSeq DEF Init, HeadIndex, Dist
<1>3. Contents = <<>>
  BY <1>2, EmptySeq
<1> QED
  BY <1>3 DEF Init, Fifo!Init

(* A call of write() that finds room is an offer.                          *)
LEMMA OfferStep ==
  ASSUME IInv, IInv', NEW v \in Item, WriteBegin(v)
  PROVE  Fifo!Offer("producer", v)
<1>1. Contents' = Contents
  BY DEF WriteBegin, Contents, HeadIndex
<1>2. wItem = NoItem
  BY DEF IInv, Underway, WriteBegin
<1> QED
  BY <1>1, <1>2 DEF WriteBegin, Fifo!Offer

(* The store of writeIndex_ lets the item into the queue, at its tail.     *)
LEMMA AcceptStep ==
  ASSUME IInv, IInv', WriteStore
  PROVE  Fifo!Accept("producer")
<1> DEFINE n == Dist(HeadIndex, writeIndex_)
<1>1. /\ live /\ live' /\ wItem \in Item
      /\ ~ isFull(readIndex_, writeIndex_)
      /\ rpc # "idle" => readIndex_ # writeIndex_
  BY Views DEF IInv, TypeOK, Underway, WriteStore
<1>2. /\ HeadIndex \in Index /\ HeadIndex' = HeadIndex
      /\ n \in 0 .. size_ - 1
      /\ nextRecord(writeIndex_) # HeadIndex
  <2>1. HeadIndex \in Index /\ HeadIndex' = HeadIndex
    BY HeadInRange DEF WriteStore, HeadIndex
  <2>2. n \in 0 .. size_ - 1
    BY <2>1, DistType DEF IInv, TypeOK
  <2>3. nextRecord(writeIndex_) # HeadIndex
    BY <1>1 DEF IInv, TypeOK, HeadIndex, nextRecord, isFull, Index
  <2> QED
    BY <2>1, <2>2, <2>3
<1>3. Dist(HeadIndex, writeIndex_)' = n + 1 /\ n + 1 \in 0 .. size_ - 1
  BY <1>2, NextRecord, DistType DEF IInv, TypeOK, WriteStore, Dist
<1>4. /\ Contents \in Seq(Content) /\ Contents' \in Seq(Content)
      /\ Len(Contents) = n /\ Len(Contents') = n + 1
  <2>1. Contents' \in Seq(Content) /\ Len(Contents') = n + 1
    BY <1>1, <1>2, <1>3, SlotsSeq DEF Contents, Slot, Content, IInv, TypeOK
  <2> QED
    BY <1>1, <2>1, ContentsSeq
<1>5. \A i \in 1 .. n : Contents'[i] = Contents[i]
  BY <1>1, <1>2, <1>3, ContentsSeq DEF WriteStore, Contents, Slot
<1>6. Contents'[n + 1] = wItem
  <2>1. Slot(HeadIndex, n + 1) = writeIndex_
    BY <1>2, SlotOfDist DEF IInv, TypeOK
  <2>2. records_[writeIndex_] = wItem
    BY <1>1, BetweenEnds DEF IInv, TypeOK, SlotContent, WriteStore
  <2> QED
    BY <1>1, <1>2, <1>3, <2>1, <2>2 DEF WriteStore, Contents, Slot
<1>7. Contents' = Append(Contents, wItem)
  <2> HIDE DEF n
  <2>1. wItem \in Content
    BY <1>1 DEF Content
  <2>2. /\ Append(Contents, wItem) \in Seq(Content)
        /\ Len(Append(Contents, wItem)) = n + 1
        /\ \A i \in 1 .. n : Append(Contents, wItem)[i] = Contents[i]
        /\ Append(Contents, wItem)[n + 1] = wItem
    BY <1>4, <2>1, AppendProperties
  <2>3. \A i \in 1 .. n + 1 : Contents'[i] = Append(Contents, wItem)[i]
    BY <1>2, <1>5, <1>6, <2>2
  <2> QED
    BY <1>4, <2>2, <2>3, SeqEqual
<1>8. Len(Contents) < capacity
  BY <1>3, <1>4, SizeAssumption DEF capacity
<1>9. wItem # NoItem
  BY <1>1, ItemAssumption
<1> QED
  BY <1>1, <1>7, <1>8, <1>9 DEF WriteStore, Fifo!Accept

(* Moving the item out, or popping it, takes the head of the queue.        *)
LEMMA TakeStep ==
  ASSUME IInv, IInv', ReadMove \/ PopDestroy
  PROVE  Fifo!Take("consumer")
<1> DEFINE n == Dist(readIndex_, writeIndex_)
<1>1. /\ live /\ live' /\ readIndex_ # writeIndex_
      /\ HeadIndex = readIndex_ /\ HeadIndex' = nextRecord(readIndex_)
  BY Views DEF IInv, TypeOK, Underway, ReadMove, PopDestroy, HeadIndex
<1>2. n \in 1 .. size_ - 1
  BY <1>1, DistType, SizeAssumption DEF IInv, TypeOK
<1>3. Dist(HeadIndex, writeIndex_)' = n - 1
  BY <1>1, NextRecord DEF IInv, TypeOK, ReadMove, PopDestroy, Dist
<1>4. /\ Contents \in Seq(Content) /\ Contents' \in Seq(Content)
      /\ Len(Contents) = n /\ Len(Contents') = n - 1
  <2>1. n - 1 \in 0 .. size_ - 1 /\ nextRecord(readIndex_) \in Index
    BY <1>2, NextRecord, SizeAssumption DEF IInv, TypeOK
  <2>2. Contents' = [i \in 1 .. n - 1 |-> records_'[Slot(nextRecord(readIndex_), i)]]
    BY <1>1, <1>3 DEF Contents, Slot
  <2>3. records_' \in [Index -> Content]
    BY DEF IInv, TypeOK, Content
  <2>4. Contents' \in Seq(Content) /\ Len(Contents') = n - 1
    BY <2>1, <2>2, <2>3, SlotsSeq
  <2> QED
    BY <1>1, <2>4, ContentsSeq
<1>5. \A i \in 1 .. n : Contents[i] = records_[Slot(readIndex_, i)]
  BY <1>1, ContentsSeq
<1>6. \A i \in 1 .. n - 1 : Contents'[i] = records_'[Slot(readIndex_, i + 1)]
  <2>1. \A i \in 1 .. n - 1 : Contents'[i] = records_'[Slot(nextRecord(readIndex_), i)]
    BY <1>1, <1>3 DEF Contents, Slot
  <2> QED
    BY <1>2, <2>1, SlotNext, SizeAssumption DEF IInv, TypeOK
<1>7. \A i \in 1 .. n - 1 : records_'[Slot(readIndex_, i + 1)] = records_[Slot(readIndex_, i + 1)]
  <2>1. \A i \in 1 .. n - 1 : /\ Slot(readIndex_, i + 1) \in Index
                              /\ Slot(readIndex_, i + 1) # readIndex_
    BY <1>2, SizeAssumption DEF IInv, TypeOK, Index, Slot
  <2> QED
    BY <2>1 DEF IInv, TypeOK, ReadMove, PopDestroy
<1>8. Contents # <<>>
  BY <1>2, <1>4, EmptySeq
<1>9. Contents' = Tail(Contents)
  <2> HIDE DEF n
  <2>1. /\ Tail(Contents) \in Seq(Content)
        /\ Len(Tail(Contents)) = n - 1
        /\ \A i \in 1 .. n - 1 : Tail(Contents)[i] = Contents[i + 1]
    BY <1>4, <1>8, HeadTailProperties
  <2>2. \A i \in 1 .. n - 1 : Contents'[i] = Tail(Contents)[i]
    BY <1>2, <1>5, <1>6, <1>7, <2>1
  <2> QED
    BY <1>4, <2>1, <2>2, SeqEqual
<1>10. got' = Head(Contents)
  <2>1. Slot(readIndex_, 1) = readIndex_
    BY SizeAssumption DEF IInv, TypeOK, Index, Slot
  <2>2. Head(Contents) = Contents[1]
    BY <1>4, <1>8
  <2> QED
    BY <1>2, <1>5, <2>1, <2>2 DEF ReadMove, PopDestroy
<1> QED
  BY <1>1, <1>8, <1>9, <1>10 DEF ReadMove, PopDestroy, Fifo!Take

(* The destructor closes the queue.                                        *)
LEMMA CloseStep ==
  ASSUME IInv, Destruct
  PROVE  Fifo!Close
  BY DEF Destruct, Contents, Fifo!Close

(* Constructing an item in its slot, and destroying one in its slot, happen *)
(* outside the contents of the queue; releasing a slot only changes from    *)
(* which index the head is found.                                           *)
LEMMA HiddenStep ==
  ASSUME IInv, IInv', WriteConstruct \/ ReadDestroy \/ ReadStore
  PROVE  UNCHANGED fifoState
<1>1. CASE WriteConstruct
  <2>1. \A s \in Index : Dist(HeadIndex, s) < Dist(HeadIndex, writeIndex_)
                           => records_'[s] = records_[s]
    BY <1>1, HeadInRange, DistType DEF WriteConstruct, IInv, TypeOK
  <2>2. Contents' = Contents
    BY <1>1, <2>1, ContentsSame DEF WriteConstruct, HeadIndex, IInv, Underway
  <2> QED
    BY <1>1, <2>2 DEF WriteConstruct, fifoState
<1>2. CASE ReadDestroy
  <2>1. HeadIndex' = HeadIndex /\ HeadIndex = nextRecord(readIndex_)
    BY <1>2 DEF ReadDestroy, HeadIndex
  <2>2. \A s \in Index : Dist(HeadIndex, s) < Dist(HeadIndex, writeIndex_)
                           => s # readIndex_
    BY <2>1, SizeAssumption DEF IInv, TypeOK, Dist, nextRecord, Index
  <2>3. \A s \in Index : Dist(HeadIndex, s) < Dist(HeadIndex, writeIndex_)
                           => records_'[s] = records_[s]
    BY <1>2, <2>2 DEF ReadDestroy, IInv, TypeOK
  <2>4. Contents' = Contents
    BY <1>2, <2>1, <2>3, ContentsSame DEF ReadDestroy, IInv, Underway
  <2> QED
    BY <1>2, <2>4 DEF ReadDestroy, fifoState
<1>3. CASE ReadStore
  <2>1. HeadIndex' = HeadIndex
    BY <1>3 DEF ReadStore, HeadIndex
  <2>2. Contents' = Contents
    BY <1>3, <2>1, ContentsSame DEF ReadStore, IInv, Underway
  <2> QED
    BY <1>3, <2>2 DEF ReadStore, fifoState
<1> QED
  BY <1>1, <1>2, <1>3

(* Every other step is one the users of the queue do not see.               *)
LEMMA ViewStep ==
  ASSUME IInv,
         \/ SeeRead \/ SeeWrite \/ ReadBegin \/ FrontPtr \/ PopFront
         \/ UNCHANGED vars
  PROVE  UNCHANGED fifoState
<1>1. HeadIndex' = HeadIndex
  BY DEF SeeRead, SeeWrite, ReadBegin, FrontPtr, PopFront, vars, HeadIndex
<1>2. UNCHANGED <<records_, writeIndex_, live, wItem, got>>
  BY DEF SeeRead, SeeWrite, ReadBegin, FrontPtr, PopFront, vars
<1>3. Dist(HeadIndex, writeIndex_)' = Dist(HeadIndex, writeIndex_)
  BY <1>1, <1>2 DEF Dist
<1>4. Contents' = Contents
  BY <1>1, <1>2, <1>3 DEF Contents, Slot
<1> QED
  BY <1>2, <1>4 DEF fifoState

(* The ring implements the bounded queue, whatever its size, its items and  *)
(* the staleness of its loads.                                              *)
THEOREM RingImplementsFifo == Spec => ImplementsFifo
<1>1. IInv /\ IInv' /\ [Next]_vars => [Fifo!Next]_(Fifo!fifoVars)
  <2> SUFFICES ASSUME IInv, IInv', [Next]_vars
               PROVE  [Fifo!Next]_(Fifo!fifoVars)
    OBVIOUS
  <2>1. CASE \E v \in Item : WriteBegin(v)
    BY <2>1, OfferStep DEF Fifo!Next, Fifo!BlockingNext
  <2>2. CASE WriteStore
    BY <2>2, AcceptStep DEF Fifo!Next, Fifo!BlockingNext
  <2>3. CASE ReadMove \/ PopDestroy
    BY <2>3, TakeStep DEF Fifo!Next, Fifo!BlockingNext
  <2>4. CASE Destruct
    BY <2>4, CloseStep DEF Fifo!Next, Fifo!BlockingNext
  <2>5. CASE WriteConstruct \/ ReadDestroy \/ ReadStore
    BY <2>5, HiddenStep DEF fifoState, Fifo!fifoVars
  <2>6. CASE \/ SeeRead \/ SeeWrite \/ ReadBegin \/ FrontPtr \/ PopFront
             \/ UNCHANGED vars
    BY <2>6, ViewStep DEF fifoState, Fifo!fifoVars
  <2>7. Destroyed => UNCHANGED vars
    BY DEF Destroyed
  <2> QED
    BY <2>1, <2>2, <2>3, <2>4, <2>5, <2>6, <2>7 DEF Next, Producer, Consumer
<1> QED
  BY <1>1, Inductive, FifoInit, PTL DEF Spec, ImplementsFifo, Fifo!Spec

=============================================================================
