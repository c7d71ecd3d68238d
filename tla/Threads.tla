------------------------------ MODULE Threads ------------------------------
(***************************************************************************)
(* The class Thread (Thread.cpp) under the tests of FtConcurrency.cpp: the *)
(* main thread constructs N threads, in a vector or as local variables,    *)
(* joins them, and asserts that none of their increments was lost.  Each   *)
(* thread takes the lock (CasLock), increments `num` Rounds times, and     *)
(* gives the lock back (FtConcurrentAction.h).  SpinLock, a pthread spin   *)
(* lock, promises the same.                                                *)
(*                                                                         *)
(* The constructor waits on a semaphore until the new thread has noted its *)
(* tid.  The new thread goes on reading the object it was given after it   *)
(* has posted, while a vector that grows moves the object elsewhere.       *)
(***************************************************************************)
EXTENDS Integers, FiniteSets

CONSTANTS
  N,            \* how many threads the test makes
  Rounds,       \* how often each increments, 10000 in the tests
  FirstCap      \* the room there is at first: 0 for an empty vector, N for
                \* objects that never move

ASSUME ThreadsAssumption ==
  /\ N \in Nat \ {0}
  /\ Rounds \in Nat \ {0}
  /\ FirstCap \subseteq Nat

Worker == 1 .. N

\* Element i of the storage number g; the storage changes when a vector grows.
Place == (0 .. N) \X Worker

\* A Thread as the initializers of its members leave it; also what there is
\* to find where no object is, of which the program must not ask.
Fresh == [id |-> 0, tid |-> 0, func |-> "empty", args |-> "null", sem |-> 0]

VARIABLES
  mem,      \* the Thread objects: the thread of threadId and the one of tid
            \* (0: not set), the function and its argument,
            \* the value of the semaphore
  main,     \* where the main thread is
  k,        \* the element that it moves, or joins
  size,     \* elements in the vector
  cap,      \* elements that its storage has room for
  gen,      \* how often it has been given new storage
  this,     \* the object that run() of each thread was given
  pc,       \* where each thread is
  locked,   \* CasLock::m_lock
  num,      \* the counter of the test
  count,    \* increments each thread has made
  seen      \* what each thread loaded to increment

objects == <<mem, main, k, size, cap, gen, this>>
lockVars == <<locked, num, count, seen>>
vars == <<mem, main, k, size, cap, gen, this, pc, locked, num, count, seen>>

Init ==
  /\ mem = [p \in Place |-> Fresh]
  /\ main = "next" /\ k = 1 /\ size = 0 /\ gen = 0
  /\ cap \in FirstCap
  /\ this = [t \in Worker |-> <<0, t>>]
  /\ pc = [t \in Worker |-> "unborn"]
  /\ locked = "clear"
  /\ num = 0
  /\ count = [t \in Worker |-> 0]
  /\ seen = [t \in Worker |-> 0]

-----------------------------------------------------------------------------
(* The main thread: construction                                           *)

\* emplace_back() on a full vector allocates first, twice the room, and
\* constructs the new element there before it moves the others.
Full == size = cap
NextCap == IF Full THEN IF cap = 0 THEN 1 ELSE 2 * cap ELSE cap
NextGen == IF Full THEN gen + 1 ELSE gen

Constructing == main \in {"wait", "waitFull"}

Construct ==
  /\ main = "next" /\ size < N
  /\ cap' = NextCap /\ gen' = NextGen
  /\ mem' = [mem EXCEPT ![<<NextGen, size + 1>>] =
               [Fresh EXCEPT !.id = size + 1, !.func = "assgin", !.args = "&num"]]
  /\ this' = [this EXCEPT ![size + 1] = <<NextGen, size + 1>>]
  /\ pc' = [pc EXCEPT ![size + 1] = "born"]
  /\ main' = IF Full /\ size > 0 THEN "waitFull" ELSE "wait"
  /\ UNCHANGED <<k, size, lockVars>>

\* mutant: the constructor does not wait
WaitNot ==
  /\ Constructing
  /\ size' = size + 1
  /\ main' = IF main = "wait" THEN "next" ELSE "move"
  /\ k' = 1
  /\ UNCHANGED <<mem, cap, gen, this, pc, lockVars>>

\* sem_wait(), the end of the constructor.
Wait ==
  LET p == <<gen, size + 1>> IN
  /\ Constructing
  /\ mem[p].sem > 0
  /\ mem' = [mem EXCEPT ![p].sem = @ - 1]
  /\ size' = size + 1
  /\ main' = IF main = "wait" THEN "next" ELSE "move"
  /\ k' = 1
  /\ UNCHANGED <<cap, gen, this, pc, lockVars>>

-----------------------------------------------------------------------------
(* The main thread: the vector moves its older elements                    *)

Old == <<gen - 1, k>>
New == <<gen, k>>

\* The move constructor swaps member by member with a fresh object, args last.
MoveFunc ==
  /\ main = "move"
  /\ mem' = [mem EXCEPT ![New] = [mem[Old] EXCEPT !.args = "null"],
                        ![Old] = [Fresh EXCEPT !.args = mem[Old].args]]
  /\ main' = "moveArgs"
  /\ UNCHANGED <<k, size, cap, gen, this, pc, lockVars>>

MoveArgs ==
  /\ main = "moveArgs"
  /\ mem' = [mem EXCEPT ![New].args = mem[Old].args, ![Old].args = mem[New].args]
  /\ main' = "destroy"
  /\ UNCHANGED <<k, size, cap, gen, this, pc, lockVars>>

Destroy ==
  /\ main = "destroy"
  /\ mem' = [mem EXCEPT ![Old] = Fresh]
  /\ main' = IF k + 1 < size THEN "move" ELSE "next"
  /\ k' = k + 1
  /\ UNCHANGED <<size, cap, gen, this, pc, lockVars>>

-----------------------------------------------------------------------------
(* The main thread: join, and the assertion of the test                    *)

BeginJoin ==
  /\ main = "next" /\ size = N
  /\ main' = "join" /\ k' = 1
  /\ UNCHANGED <<mem, size, cap, gen, this, pc, lockVars>>

\* mutant: join() does not wait for the thread
joinAtOnce ==
  /\ main = "join"
  /\ main' = IF k = N THEN "joined" ELSE "join"
  /\ k' = IF k = N THEN k ELSE k + 1
  /\ UNCHANGED <<mem, size, cap, gen, this, pc, lockVars>>

\* No thread is detached in the tests, and isDetached() is false.
join ==
  /\ main = "join"
  /\ pc[mem[<<gen, k>>].id] = "done"
  /\ main' = IF k = N THEN "joined" ELSE "join"
  /\ k' = IF k = N THEN k ELSE k + 1
  /\ UNCHANGED <<mem, size, cap, gen, this, pc, lockVars>>

Main == Construct \/ Wait \/ MoveFunc \/ MoveArgs \/ Destroy \/ BeginJoin \/ join

-----------------------------------------------------------------------------
(* A thread: run()                                                         *)

\* It notes its tid and lets the constructor go on.
Post(t) ==
  /\ pc[t] = "born"
  /\ mem' = [mem EXCEPT ![this[t]] = [mem[this[t]] EXCEPT !.tid = t, !.sem = @ + 1]]
  /\ pc' = [pc EXCEPT ![t] = "test"]
  /\ UNCHANGED <<main, k, size, cap, gen, this, lockVars>>

\* if(thread->args): without args it calls exec, which is empty in the tests
\* and throws; with no object there the read is undefined.
Test(t) ==
  /\ pc[t] = "test"
  /\ pc' = [pc EXCEPT ![t] = IF mem[this[t]].args # "null" THEN "call" ELSE "dead"]
  /\ UNCHANGED <<objects, lockVars>>

\* thread->func(thread->args): an empty func throws, null args are followed.
\* Whatever happens where the object has gone counts as the death of the process.
Call(t) ==
  /\ pc[t] = "call"
  /\ pc' = [pc EXCEPT ![t] = IF mem[this[t]].func # "empty" /\ mem[this[t]].args # "null"
                             THEN "lock" ELSE "dead"]
  /\ UNCHANGED <<objects, lockVars>>

-----------------------------------------------------------------------------
(* A thread: the function of the test, assginCas()                         *)

\* mutant: the flag is set whatever it was
lockBlindly(t) ==
  /\ pc[t] = "lock"
  /\ locked' = "set"
  /\ pc' = [pc EXCEPT ![t] = "load"]
  /\ UNCHANGED <<objects, num, count, seen>>

\* test_and_set() returns false; while it returns true nothing changes.
lock(t) ==
  /\ pc[t] = "lock" /\ locked = "clear"
  /\ locked' = "set"
  /\ pc' = [pc EXCEPT ![t] = "load"]
  /\ UNCHANGED <<objects, num, count, seen>>

Load(t) ==
  /\ pc[t] = "load"
  /\ seen' = [seen EXCEPT ![t] = num]
  /\ pc' = [pc EXCEPT ![t] = "store"]
  /\ UNCHANGED <<objects, locked, num, count>>

\* mutant: one round too many
StoreOnceMore(t) ==
  /\ pc[t] = "store"
  /\ num' = seen[t] + 1
  /\ count' = [count EXCEPT ![t] = @ + 1]
  /\ pc' = [pc EXCEPT ![t] = IF count[t] = Rounds THEN "unlock" ELSE "load"]
  /\ UNCHANGED <<objects, locked, seen>>

Store(t) ==
  /\ pc[t] = "store"
  /\ num' = seen[t] + 1
  /\ count' = [count EXCEPT ![t] = @ + 1]
  /\ pc' = [pc EXCEPT ![t] = IF count[t] + 1 = Rounds THEN "unlock" ELSE "load"]
  /\ UNCHANGED <<objects, locked, seen>>

\* mutant: the flag is never cleared
unlockNot(t) ==
  /\ pc[t] = "unlock"
  /\ pc' = [pc EXCEPT ![t] = "done"]
  /\ UNCHANGED <<objects, locked, num, count, seen>>

unlock(t) ==
  /\ pc[t] = "unlock"
  /\ locked' = "clear"
  /\ pc' = [pc EXCEPT ![t] = "done"]
  /\ UNCHANGED <<objects, num, count, seen>>

Run(t) ==
  Post(t) \/ Test(t) \/ Call(t) \/ lock(t) \/ Load(t) \/ Store(t) \/ unlock(t)

\* An exception that leaves run() ends the process.
Terminated == \E t \in Worker : pc[t] = "dead"

Next == ~ Terminated /\ (Main \/ \E t \in Worker : Run(t))

Spec == Init /\ [][Next]_vars

\* Every thread is scheduled.  One that spins on the lock gets it because
\* each of the others takes it once.
FairSpec == Spec /\ WF_vars(~ Terminated /\ Main)
                 /\ \A t \in Worker : WF_vars(~ Terminated /\ Run(t))

-----------------------------------------------------------------------------
(* Properties                                                              *)

Before == {"unborn", "born", "test", "call", "lock"}
Inside == {t \in Worker : pc[t] \in {"load", "store", "unlock"}}
Done == {t \in Worker : pc[t] = "done"}

Objects == [id : 0 .. N, tid : 0 .. N, func : {"empty", "assgin"},
            args : {"null", "&num"}, sem : 0 .. 1]

TypeOK ==
  /\ pc \in [Worker -> {"unborn", "born", "test", "call", "lock", "load", "store",
                        "unlock", "done", "dead"}]
  /\ locked \in {"clear", "set"}
  /\ num \in Nat
  /\ count \in [Worker -> 0 .. Rounds]
  /\ seen \in [Worker -> Nat]
  /\ this \in [Worker -> Place]
  /\ mem \in [Place -> Objects]
  /\ size \in 0 .. N /\ cap \in Nat /\ k \in 1 .. N + 1 /\ gen \in 0 .. N
  /\ main \in {"next", "wait", "waitFull", "move", "moveArgs", "destroy",
               "join", "joined"}

\* At most one thread is between lock() and unlock(), the lock says whether
\* one is, and no increment is ever lost: num counts those of the threads
\* that are done and of the one at work, whose last load is up to date.
Mutex ==
  /\ locked = IF Inside = {} THEN "clear" ELSE "set"
  /\ \A s, t \in Inside : s = t
  /\ \A t \in Inside : num = Rounds * Cardinality(Done) + count[t]
  /\ Inside = {} => num = Rounds * Cardinality(Done)
  /\ \A t \in Worker : pc[t] = "store" => seen[t] = num /\ count[t] < Rounds
  /\ \A t \in Worker : pc[t] = "load" => count[t] < Rounds
  /\ \A t \in Worker : pc[t] = "unlock" => count[t] = Rounds
  /\ \A t \in Worker : pc[t] \in Before => count[t] = 0

\* When a constructor has returned, getTid() of the object gives the tid of
\* its thread, in whatever place the vector keeps the object.
TidKnown ==
  \A p \in Place :
    mem[p].id # 0 /\ ~ (Constructing /\ p = <<gen, size + 1>>)
      => mem[p].tid = mem[p].id

\* The place where the vector keeps element i, while it moves them too.
Home(i) ==
  IF \/ main = "waitFull"
     \/ main = "move" /\ k <= i /\ i < size
     \/ main \in {"moveArgs", "destroy"} /\ k < i /\ i < size
  THEN <<gen - 1, i>> ELSE <<gen, i>>

\* Each object is where the vector thinks it is.
Kept == \A i \in 1 .. size : mem[Home(i)].id = i

\* How many threads have been created.
Begun == IF Constructing THEN size + 1 ELSE size

\* What the main thread knows where it is.
Phase ==
  /\ main \in {"waitFull", "move", "moveArgs", "destroy"} => gen >= 1 /\ size >= 1
  /\ main \in {"move", "moveArgs", "destroy"} => k < size
  /\ main \in {"join", "joined"} => size = N /\ k <= N
  /\ main = "join" => \A t \in 1 .. k - 1 : pc[t] = "done"
  /\ main = "joined" => \A t \in Worker : pc[t] = "done"
  /\ Constructing => size < N
  /\ gen <= Begun
  /\ \A t \in Worker : pc[t] = "unborn" <=> t > Begun

\* The object under construction, and the thread that has not posted yet.
Handshake ==
  /\ Constructing => LET new == mem[<<gen, size + 1>>] IN
       /\ new.id = size + 1
       /\ new.tid = size + 1 \/ pc[size + 1] = "born"
       /\ pc[size + 1] = "born" => new.sem = 0
  /\ \A t \in Worker : pc[t] = "born" =>
       Constructing /\ t = size + 1 /\ this[t] = <<gen, t>>

\* The inductive invariant.
IInv == TypeOK /\ Mutex /\ TidKnown /\ Kept /\ Phase /\ Handshake

\* The assertion at the end of the tests: after the joins all the increments
\* are there (ASSERT_EQ, FtConcurrency.cpp).
AssertEq == main = "joined" => num = N * Rounds

\* The tests come to their end, and the assertion holds there.
TestPasses == <>(main = "joined" /\ num = N * Rounds)

\* They do so as long as no Thread is moved.
TestPassesUnmoved == [](gen = 0) => TestPasses

=============================================================================
