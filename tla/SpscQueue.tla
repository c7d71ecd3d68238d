----------------------------- MODULE SpscQueue -----------------------------
(***************************************************************************)
(* folly::ProducerConsumerQueue (levelDb/util/inc/                         *)
(* ProducerConsumerQueue.h): a lock-free ring shared by exactly one        *)
(* producer thread, which calls write(), and one consumer thread, which    *)
(* calls read(), or frontPtr() and popFront().  One action is one access   *)
(* to shared memory, so the two threads interleave inside their calls.     *)
(*                                                                         *)
(* Memory order.  Each index is written by one thread only, which reads    *)
(* its own index exactly (the relaxed loads).  The acquire load of the     *)
(* other thread's index may return an older value, but never one older     *)
(* than a value already seen: seenRead is the value of readIndex_ that     *)
(* the producer would load now, seenWrite the value of writeIndex_ that    *)
(* the consumer would load, and the actions SeeRead and SeeWrite let the   *)
(* other thread's stores become visible.  Because the index stores are     *)
(* releases, whatever a thread did before a store that has been seen has   *)
(* happened before the load that saw it.                                   *)
(***************************************************************************)
EXTENDS Integers, Sequences

CONSTANTS
  size_,   \* number of slots, the constructor's argument
  Item,    \* values of type T
  NoItem,  \* not a value of type T
  Raw,     \* content of a slot that holds no constructed object
  Moved    \* content of a slot whose object has been moved from

\* the constructor asserts size >= 2 (line 55)
ASSUME SizeAssumption == size_ \in Nat /\ size_ >= 2

ASSUME ItemAssumption ==
  /\ NoItem \notin Item /\ Raw \notin Item /\ Moved \notin Item
  /\ NoItem # Raw /\ NoItem # Moved /\ Raw # Moved

VARIABLES
  records_,     \* records_[s]: content of slot s
  readIndex_,   \* next slot to read, stored by the consumer only
  writeIndex_,  \* next slot to write, stored by the producer only
  wpc,          \* where the producer is in write()
  wItem,        \* argument of the write() in progress, or NoItem
  seenRead,     \* readIndex_ as the producer sees it
  rpc,          \* where the consumer is in read() or popFront()
  got,          \* item that the consumer took last, or NoItem
  seenWrite,    \* writeIndex_ as the consumer sees it
  live          \* FALSE once the destructor has run

vars == <<records_, readIndex_, writeIndex_, wpc, wItem, seenRead,
          rpc, got, seenWrite, live>>

Index == 0 .. size_ - 1

-----------------------------------------------------------------------------
(* Index arithmetic.                                                       *)

nextRecordNoWrap(i) == i + 1                                  \* mutant

\* the index after i, in write(), read(), popFront() and isFull()
nextRecord(i) == IF i + 1 = size_ THEN 0 ELSE i + 1

\* the number of steps from index a forward to index b
Dist(a, b) == IF a <= b THEN b - a ELSE b - a + size_

\* the number of items published and not yet released: the "true size"
Size == Dist(readIndex_, writeIndex_)

\* the slots between two indices, in use from first up to, not including, end
Between(first, end) == {s \in Index : Dist(first, s) < Dist(first, end)}

-----------------------------------------------------------------------------
(* The observers, as functions of the two index values that they load.     *)

capacity == size_ - 1

isEmpty(r, w) == r = w

isFullNever(r, w) == FALSE                                    \* mutant

isFull(r, w) == nextRecord(w) = r

sizeGuessUnsigned(r, w) == IF w < r THEN r - w ELSE w - r     \* mutant

sizeGuess(r, w) == IF w - r < 0 THEN w - r + size_ ELSE w - r

\* the value that the producer may load from readIndex_ is any from the one
\* it has seen to the latest; likewise for the consumer and writeIndex_
NewerRead == {i \in Index : Dist(seenRead, i) <= Dist(seenRead, readIndex_)}
NewerWrite == {i \in Index : Dist(seenWrite, i) <= Dist(seenWrite, writeIndex_)}

-----------------------------------------------------------------------------
Init ==
  /\ records_ = [s \in Index |-> Raw]
  /\ readIndex_ = 0
  /\ writeIndex_ = 0
  /\ wpc = "idle" /\ wItem = NoItem /\ seenRead = 0
  /\ rpc = "idle" /\ got = NoItem /\ seenWrite = 0
  /\ live = TRUE

(* The producer: write(v).                                                 *)

WriteBeginUnchecked(v) ==                                     \* mutant
  /\ live /\ wpc = "idle"
  /\ wpc' = "construct"
  /\ wItem' = v
  /\ UNCHANGED <<records_, readIndex_, writeIndex_, seenRead, rpc, got,
                 seenWrite, live>>

\* write(v): the load of readIndex_ finds a free slot after writeIndex_; when it
\* finds none (isFull), write() returns false and no shared state changes
WriteBegin(v) ==
  /\ live /\ wpc = "idle"
  /\ ~ isFull(seenRead, writeIndex_)
  /\ wpc' = "construct"
  /\ wItem' = v
  /\ UNCHANGED <<records_, readIndex_, writeIndex_, seenRead, rpc, got,
                 seenWrite, live>>

\* placement new of the item in its slot
WriteConstruct ==
  /\ wpc = "construct"
  /\ records_' = [records_ EXCEPT ![writeIndex_] = wItem]
  /\ wpc' = "store"
  /\ UNCHANGED <<readIndex_, writeIndex_, wItem, seenRead, rpc, got,
                 seenWrite, live>>

\* publish the slot; write() returns true
WriteStore ==
  /\ wpc = "store"
  /\ writeIndex_' = nextRecord(writeIndex_)
  /\ wpc' = "idle"
  /\ wItem' = NoItem
  /\ UNCHANGED <<records_, readIndex_, seenRead, rpc, got, seenWrite, live>>

\* the consumer's latest release store reaches the producer
SeeRead ==
  /\ live
  /\ \E i \in NewerRead : i # seenRead /\ seenRead' = i
  /\ UNCHANGED <<records_, readIndex_, writeIndex_, wpc, wItem, rpc, got,
                 seenWrite, live>>

(* The consumer: read(record), or frontPtr() followed by popFront().       *)

ReadBeginUnchecked ==                                         \* mutant
  /\ live /\ rpc \in {"idle", "front"}
  /\ rpc' = "move"
  /\ UNCHANGED <<records_, readIndex_, writeIndex_, wpc, wItem, seenRead, got,
                 seenWrite, live>>

\* read(): the load of writeIndex_ finds an item; when it finds none
\* (isEmpty), read() returns false and no shared state changes
ReadBegin ==
  /\ live /\ rpc \in {"idle", "front"}
  /\ ~ isEmpty(readIndex_, seenWrite)
  /\ rpc' = "move"
  /\ UNCHANGED <<records_, readIndex_, writeIndex_, wpc, wItem, seenRead, got,
                 seenWrite, live>>

ReadMoveOnly ==                                               \* mutant
  /\ rpc = "move"
  /\ got' = records_[readIndex_]
  /\ records_' = [records_ EXCEPT ![readIndex_] = Moved]
  /\ rpc' = "store"
  /\ UNCHANGED <<readIndex_, writeIndex_, wpc, wItem, seenRead, seenWrite, live>>

\* record = std::move(records_[currentRead])
ReadMove ==
  /\ rpc = "move"
  /\ got' = records_[readIndex_]
  /\ records_' = [records_ EXCEPT ![readIndex_] = Moved]
  /\ rpc' = "destroy"
  /\ UNCHANGED <<readIndex_, writeIndex_, wpc, wItem, seenRead, seenWrite, live>>

\* records_[currentRead].~T()
ReadDestroy ==
  /\ rpc = "destroy"
  /\ records_' = [records_ EXCEPT ![readIndex_] = Raw]
  /\ rpc' = "store"
  /\ UNCHANGED <<readIndex_, writeIndex_, wpc, wItem, seenRead, got, seenWrite,
                 live>>

\* release the slot; read() returns true, popFront() returns
ReadStore ==
  /\ rpc = "store"
  /\ readIndex_' = nextRecord(readIndex_)
  /\ rpc' = "idle"
  /\ UNCHANGED <<records_, writeIndex_, wpc, wItem, seenRead, got, seenWrite,
                 live>>

FrontPtrUnchecked ==                                          \* mutant
  /\ live /\ rpc = "idle"
  /\ rpc' = "front"
  /\ UNCHANGED <<records_, readIndex_, writeIndex_, wpc, wItem, seenRead, got,
                 seenWrite, live>>

\* frontPtr() returns a pointer to the item in place; on an empty queue it
\* returns nullptr and nothing changes
FrontPtr ==
  /\ live /\ rpc = "idle"
  /\ ~ isEmpty(readIndex_, seenWrite)
  /\ rpc' = "front"
  /\ UNCHANGED <<records_, readIndex_, writeIndex_, wpc, wItem, seenRead, got,
                 seenWrite, live>>

\* popFront(), called as its comment demands on a queue found not empty: the
\* assertion loads writeIndex_ again
PopFront ==
  /\ live /\ rpc = "front"
  /\ rpc' = IF isEmpty(readIndex_, seenWrite) THEN "abort" ELSE "pop"
  /\ UNCHANGED <<records_, readIndex_, writeIndex_, wpc, wItem, seenRead, got,
                 seenWrite, live>>

\* records_[currentRead].~T() in popFront(): the consumer, who could use the
\* item in place until now, is done with it
PopDestroy ==
  /\ rpc = "pop"
  /\ got' = records_[readIndex_]
  /\ records_' = [records_ EXCEPT ![readIndex_] = Raw]
  /\ rpc' = "store"
  /\ UNCHANGED <<readIndex_, writeIndex_, wpc, wItem, seenRead, seenWrite, live>>

\* the producer's latest release store reaches the consumer
SeeWrite ==
  /\ live
  /\ \E i \in NewerWrite : i # seenWrite /\ seenWrite' = i
  /\ UNCHANGED <<records_, readIndex_, writeIndex_, wpc, wItem, seenRead, rpc,
                 got, live>>

DestructNoWrap ==                                             \* mutant
  /\ live /\ wpc = "idle" /\ rpc \in {"idle", "front"}
  /\ records_' = [s \in Index |->
                    IF readIndex_ <= s /\ s < writeIndex_ THEN Raw
                    ELSE records_[s]]
  /\ live' = FALSE
  /\ UNCHANGED <<readIndex_, writeIndex_, wpc, wItem, seenRead, rpc, got,
                 seenWrite>>

(* ~ProducerConsumerQueue(): neither thread is in a call any more.         *)
Destruct ==
  /\ live /\ wpc = "idle" /\ rpc \in {"idle", "front"}
  /\ records_' = [s \in Index |->
                    IF s \in Between(readIndex_, writeIndex_) THEN Raw
                    ELSE records_[s]]
  /\ live' = FALSE
  /\ UNCHANGED <<readIndex_, writeIndex_, wpc, wItem, seenRead, rpc, got,
                 seenWrite>>

\* the queue is gone; nothing more happens
Destroyed == ~ live /\ UNCHANGED vars

Producer == \/ \E v \in Item : WriteBegin(v)
            \/ WriteConstruct
            \/ WriteStore
            \/ SeeRead

Consumer == \/ ReadBegin
            \/ ReadMove
            \/ ReadDestroy
            \/ ReadStore
            \/ FrontPtr
            \/ PopFront
            \/ PopDestroy
            \/ SeeWrite

Next == Producer \/ Consumer \/ Destruct \/ Destroyed

Spec == Init /\ [][Next]_vars

-----------------------------------------------------------------------------
(* Safety.                                                                 *)

TypeOK ==
  /\ records_ \in [Index -> Item \cup {Raw, Moved}]
  /\ readIndex_ \in Index /\ writeIndex_ \in Index
  /\ seenRead \in Index /\ seenWrite \in Index
  /\ wpc \in {"idle", "construct", "store"}
  /\ rpc \in {"idle", "front", "move", "pop", "destroy", "store", "abort"}
  /\ wItem \in Item \cup {NoItem} /\ got \in Item \cup {NoItem}
  /\ live \in BOOLEAN

(* An object is constructed only in a slot that holds none, moved from or  *)
(* popped only where one is, destroyed only where one is; and the two      *)
(* threads are never in the same slot (records_ needs no lock).            *)
SlotLifetime ==
  /\ wpc = "construct" => records_[writeIndex_] = Raw
  /\ rpc \in {"front", "move", "pop"} /\ live => records_[readIndex_] \in Item
  /\ rpc = "destroy" => records_[readIndex_] = Moved
  /\ wpc # "idle" /\ rpc # "idle" => writeIndex_ # readIndex_

(* The assertion of popFront() (line 128) never fails when the consumer    *)
(* has found the queue not empty before the call: an index it loads again  *)
(* is never older than the one it has seen.                                *)
PopFrontAssert == rpc # "abort"

(* The destructor leaves no object behind: what the indices enclose is     *)
(* everything that is constructed (lines 62-74).                           *)
NoLeak == ~ live => \A s \in Index : records_[s] = Raw

(* sizeGuess() errs on the side that lines 155-158 promise: called by the  *)
(* consumer the true size may be more, called by the producer less; and    *)
(* no guess exceeds capacity().                                            *)
GuessBounds ==
  /\ sizeGuess(readIndex_, seenWrite) \in 0 .. Size
  /\ sizeGuess(seenRead, writeIndex_) \in Size .. capacity

(* "Not full" stays true for the producer until it publishes an item, and  *)
(* "not empty" for the consumer until it releases one, whatever the other  *)
(* thread does: the answer of isFull(), isEmpty() or frontPtr() may be     *)
(* acted upon later.                                                       *)
AnswersStick ==
  [][ /\ ~ isFull(seenRead, writeIndex_) /\ writeIndex_' = writeIndex_
        => ~ isFull(seenRead, writeIndex_)'
      /\ ~ isEmpty(readIndex_, seenWrite) /\ readIndex_' = readIndex_
        => ~ isEmpty(readIndex_, seenWrite)' ]_vars

(* The pointer returned by frontPtr() stays good: as long as the consumer  *)
(* neither pops nor reads, the item under it does not change.              *)
FrontStable ==
  [][ rpc = "front" /\ rpc' = "front" /\ live'
        => records_'[readIndex_'] = records_[readIndex_] ]_vars

-----------------------------------------------------------------------------
(* The ring implements a bounded queue of capacity() items.  An item enters *)
(* it when its index is published and leaves it when it is moved out or    *)
(* popped, a little before its slot is released.                           *)

\* the slot of the i-th item counted from index r
Slot(r, i) == IF r + i - 1 < size_ THEN r + i - 1 ELSE r + i - 1 - size_

\* where the oldest item still in the queue lies, and how many follow
HeadIndex == IF rpc \in {"destroy", "store"} THEN nextRecord(readIndex_)
             ELSE readIndex_

Contents ==
  IF live THEN [i \in 1 .. Dist(HeadIndex, writeIndex_) |->
                  records_[Slot(HeadIndex, i)]]
  ELSE <<>>

Fifo == INSTANCE BoundedFifo WITH
  Producers <- {"producer"}, Consumers <- {"consumer"}, Capacity <- capacity,
  offered <- [p \in {"producer"} |-> wItem],
  queue <- Contents,
  taken <- [c \in {"consumer"} |-> got],
  open <- live

(* Every behaviour of the ring, with its stale loads, is one of a bounded  *)
(* first-in first-out queue: nothing is lost, duplicated or reordered.     *)
ImplementsFifo == Fifo!Spec

-----------------------------------------------------------------------------
(* The inductive invariant.  Going round the ring from the producer's view  *)
(* of readIndex_ one meets readIndex_, then the consumer's view of          *)
(* writeIndex_, then writeIndex_; the slots of the items lie between the    *)
(* two indices and every other slot is raw.                                *)

ViewsOrdered ==
  /\ Dist(seenRead, readIndex_) <= Dist(seenRead, writeIndex_)
  /\ Dist(readIndex_, seenWrite) <= Dist(readIndex_, writeIndex_)

Underway ==
  /\ wpc # "idle" => live /\ ~ isFull(seenRead, writeIndex_) /\ wItem \in Item
  /\ wpc = "idle" => wItem = NoItem
  /\ rpc # "idle" => ~ isEmpty(readIndex_, seenWrite)
  /\ rpc \notin {"idle", "front"} => live
  /\ rpc # "abort"

SlotContent(s) ==
  LET used == s \in Between(readIndex_, writeIndex_)
  IN  /\ used /\ s # readIndex_ => records_[s] \in Item
      /\ used /\ s = readIndex_ =>
           /\ rpc = "destroy" => records_[s] = Moved
           /\ rpc = "store" => records_[s] = Raw
           /\ rpc \notin {"destroy", "store"} => records_[s] \in Item
      /\ ~ used /\ s = writeIndex_ /\ wpc = "store" => records_[s] = wItem
      /\ ~ used /\ ~ (s = writeIndex_ /\ wpc = "store") => records_[s] = Raw

(* Together they are preserved by every load, construction, destruction and *)
(* store of write(), read(), popFront() and the destructor, and imply the   *)
(* safety properties above.                                                 *)
IInv ==
  /\ TypeOK
  /\ ViewsOrdered
  /\ Underway
  /\ live => \A s \in Index : SlotContent(s)
  /\ NoLeak

============================================================================
