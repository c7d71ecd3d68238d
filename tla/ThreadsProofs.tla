--------------------------- MODULE ThreadsProofs ---------------------------
(***************************************************************************)
(* For any number of threads and of increments, moved or not: the lock     *)
(* excludes, no increment is lost, and a constructed Thread knows its tid. *)
(***************************************************************************)
EXTENDS Threads, FiniteSetTheorems, TLAPS

\* The empty vector, or the room for N objects, satisfies the invariant.
LEMMA InitInv == Init => IInv
<1> SUFFICES ASSUME Init PROVE IInv
  OBVIOUS
<1> USE ThreadsAssumption DEF Init
<1>1. TypeOK
  BY DEF TypeOK, Place, Worker, Fresh, Objects
<1>2. Mutex
  BY FS_EmptySet DEF Mutex, Inside, Done, Before
<1>3. TidKnown
  BY DEF TidKnown, Fresh
<1>4. Kept /\ Phase /\ Handshake
  BY DEF Kept, Phase, Handshake, Constructing, Begun, Worker
<1> QED  BY <1>1, <1>2, <1>3, <1>4 DEF IInv

(* A step that brings nobody in or out of the critical section, and leaves  *)
(* lock and counters alone, keeps Mutex.                                    *)
LEMMA Outside ==
  ASSUME Mutex, UNCHANGED lockVars,
         \A t \in Worker : pc[t] # pc'[t] =>
           pc[t] \in Before /\ pc'[t] \in Before \cup {"dead"}
  PROVE  Mutex'
<1>1. Inside' = Inside /\ Done' = Done
  BY DEF Inside, Done, Before
<1>2. \A t \in Worker : pc'[t] \in {"load", "store", "unlock"} \cup Before =>
        pc[t] = pc'[t] \/ (pc[t] \in Before /\ pc'[t] \in Before)
  BY DEF Before
<1> QED  BY <1>1, <1>2 DEF Mutex, lockVars, Inside, Before

\* A worker among those that are done, and one that joins them.
LEMMA DoneFinite ==
  /\ IsFiniteSet(Done) /\ Cardinality(Done) \in 0 .. N
  /\ Done = Worker => Cardinality(Done) = N
  /\ \A t \in Worker \ Done : Cardinality(Done \cup {t}) = Cardinality(Done) + 1
<1>1. IsFiniteSet(Worker) /\ Cardinality(Worker) = N
  BY FS_Interval, ThreadsAssumption DEF Worker
<1> QED  BY <1>1, FS_Subset, FS_AddElement, FS_CardinalityType, ThreadsAssumption DEF Done

-----------------------------------------------------------------------------
(* The main thread                                                         *)

\* A new object at a new place: the others are as they were.
LEMMA ConstructInv == IInv /\ Construct => IInv'
<1> SUFFICES ASSUME IInv, Construct PROVE IInv'
  OBVIOUS
<1> USE ThreadsAssumption DEF IInv
<1> DEFINE new == size + 1
           p == <<NextGen, new>>
<1>a. main = "next" /\ size < N /\ ~ Constructing
  BY DEF Construct, Constructing
<1>b. size \in Nat /\ N \in Nat /\ cap \in Nat /\ gen \in Nat
  <2>1. size \in 0 .. N /\ cap \in Nat /\ gen \in 0 .. N
    BY DEF TypeOK
  <2> QED  BY <2>1
<1>c. gen <= size /\ NextGen \in 0 .. N /\ NextCap \in Nat /\ new \in Worker
  <2>1. gen <= size
    BY <1>a DEF Phase, Begun
  <2>2. NextGen = gen \/ NextGen = gen + 1
    BY DEF NextGen
  <2>3. NextCap \in Nat
    BY <1>b DEF NextCap
  <2> QED  BY <1>a, <1>b, <2>1, <2>2, <2>3 DEF Worker
<1>0. p \in Place
  BY <1>c DEF Place
<1>1. pc[new] = "unborn"
  BY <1>a, <1>b, <1>c DEF Phase, Begun
<1>2. /\ main' = IF Full /\ size > 0 THEN "waitFull" ELSE "wait"
      /\ gen' = NextGen /\ cap' = NextCap
      /\ mem' = [mem EXCEPT ![p] = [Fresh EXCEPT !.id = new, !.func = "assgin", !.args = "&num"]]
      /\ this' = [this EXCEPT ![new] = p] /\ pc' = [pc EXCEPT ![new] = "born"]
      /\ UNCHANGED <<k, size, lockVars>>
  BY DEF Construct
<1>8. /\ size = cap /\ size > 0 => main' = "waitFull"
      /\ ~ (size = cap /\ size > 0) => main' = "wait"
  BY <1>2, Zenon DEF Full
<1>7. gen' = (IF size = cap THEN gen + 1 ELSE gen) /\ size' = size
  BY <1>2 DEF NextGen, Full
<1>9. gen <= size
  BY <1>a DEF Phase, Begun
<1>3. mem'[p] = [id |-> new, tid |-> 0, func |-> "assgin", args |-> "&num", sem |-> 0]
  BY <1>0, <1>2 DEF TypeOK, Fresh
<1> HIDE DEF p
<1>4. \A q \in Place : q # p => mem'[q] = mem[q]
  BY <1>0, <1>2 DEF TypeOK
<1>5. mem' \in [Place -> Objects]
  <2>1. new \in 0 .. N
    BY <1>a, <1>b
  <2>2. mem'[p] \in Objects
    BY <1>3, <2>1 DEF Objects
  <2>3. DOMAIN mem' = Place /\ mem' = [q \in Place |-> mem'[q]]
    BY <1>2 DEF TypeOK
  <2>4. \A q \in Place : mem'[q] \in Objects
    BY <1>4, <2>2 DEF TypeOK
  <2> QED  BY <2>3, <2>4
<1>6. main' \in {"wait", "waitFull"} /\ Constructing'
  BY <1>2 DEF Constructing
<1>t. TypeOK'
  BY <1>c, <1>0, <1>2, <1>5, <1>6 DEF TypeOK, lockVars
<1>m. Mutex'
  BY <1>1, <1>2, Outside DEF TypeOK, Before
<1>i. TidKnown'
  BY <1>a, <1>0, <1>2, <1>4, <1>6 DEF TidKnown, p
<1>k. Kept'
  <2> SUFFICES ASSUME NEW i \in 1 .. size PROVE mem'[Home(i)'].id = i
    BY <1>2 DEF Kept
  <2>1. mem[<<gen, i>>].id = i
    BY <1>a DEF Kept, Home
  <2>4. <<gen, i>> \in Place
    BY <1>a, <1>b, <1>c DEF Place, Worker
  <2>2. <<gen, i>> # p
    BY <1>b DEF p
  <2>3. Home(i)' = <<gen, i>>
    <3>1. CASE size = cap
      <4>1. main' = "waitFull" /\ gen' - 1 = gen
        BY <3>1, <1>b, <1>7, <1>8
      <4> QED  BY <4>1 DEF Home
    <3>2. CASE size # cap
      <4>1. main' = "wait" /\ gen' = gen
        BY <3>2, <1>b, <1>7, <1>8
      <4> QED  BY <4>1 DEF Home
    <3> QED  BY <3>1, <3>2, <1>b
  <2> QED  BY <1>4, <2>1, <2>2, <2>3, <2>4
<1>p. Phase'
  <2>1. \A t \in Worker : pc'[t] = IF t = new THEN "born" ELSE pc[t]
    BY <1>2, <1>c DEF TypeOK
  <2>2. \A t \in Worker : pc'[t] = "unborn" <=> t > size + 1
    BY <1>a, <1>b, <2>1 DEF Phase, Begun, Worker
  <2>3. gen' <= size + 1 /\ (main' = "waitFull" => gen' >= 1 /\ size >= 1)
    BY <1>b, <1>7, <1>8, <1>9
  <2>4. size' = size /\ Begun' = size + 1
    BY <1>2, <1>6 DEF Begun
  <2> QED  BY <1>a, <1>2, <1>6, <2>2, <2>3, <2>4 DEF Phase
<1>h. Handshake'
  <2>1. size' = size /\ gen' = NextGen
    BY <1>2
  <2>2. pc'[new] = "born" /\ this'[new] = p
    BY <1>2, <1>c DEF TypeOK
  <2>3. \A t \in Worker : pc'[t] = "born" => t = new
    BY <1>a, <1>2, <1>c DEF Handshake, TypeOK
  <2>4. p = <<gen', size' + 1>> /\ mem'[p].id = new /\ mem'[p].sem = 0
    BY <1>3, <2>1 DEF p
  <2> QED  BY <1>6, <2>1, <2>2, <2>3, <2>4 DEF Handshake
<1> QED  BY <1>t, <1>m, <1>i, <1>k, <1>p, <1>h

\* The constructor returns only after its thread has noted the tid.
LEMMA WaitInv == IInv /\ Wait => IInv'
<1> SUFFICES ASSUME IInv, Wait PROVE IInv'
  OBVIOUS
<1> USE ThreadsAssumption DEF IInv
<1> DEFINE new == size + 1
           p == <<gen, new>>
<1>a. Constructing /\ size < N
  BY DEF Wait, Phase
<1>b. size \in Nat /\ N \in Nat /\ gen \in 0 .. N /\ new \in Worker
  BY <1>a DEF TypeOK, Worker
<1>0. p \in Place
  BY <1>b DEF Place
<1>1. mem[p].id = new /\ mem[p].tid = new /\ pc[new] # "born" /\ mem[p].sem = 1
  BY <1>a, <1>0 DEF Wait, Handshake, TypeOK, Objects
<1>2. /\ ~ Constructing' /\ size' = new
      /\ mem' = [mem EXCEPT ![p].sem = @ - 1]
      /\ main' = IF main = "wait" THEN "next" ELSE "move"
      /\ k' = 1 /\ UNCHANGED <<cap, gen, this, pc, lockVars>>
  BY DEF Wait, Constructing
<1>3. mem'[p] = [mem[p] EXCEPT !.sem = 0]
  BY <1>0, <1>1, <1>2 DEF TypeOK
<1> HIDE DEF p
<1>4. \A q \in Place : q # p => mem'[q] = mem[q]
  BY <1>0, <1>2 DEF TypeOK
<1>5. \A q \in Place : /\ mem'[q] \in Objects
                       /\ mem'[q].id = mem[q].id /\ mem'[q].tid = mem[q].tid
  BY <1>0, <1>3, <1>4 DEF TypeOK, Objects
<1>6. mem' \in [Place -> Objects]
  BY <1>2, <1>5 DEF TypeOK
<1>t. TypeOK'
  BY <1>a, <1>b, <1>2, <1>6 DEF TypeOK, lockVars
<1>m. Mutex'
  BY <1>2, Outside DEF TypeOK
<1>i. TidKnown'
  BY <1>1, <1>2, <1>5 DEF TidKnown, p
<1>k. Kept'
  <2> SUFFICES ASSUME NEW i \in 1 .. new PROVE mem'[Home(i)'].id = i
    BY <1>2 DEF Kept
  <2>1. CASE i = new
    BY <2>1, <1>b, <1>0, <1>1, <1>2, <1>5 DEF Home, p
  <2>2. CASE i # new
    <3>1. Home(i)' = Home(i)
      BY <2>2, <1>a, <1>b, <1>2 DEF Home, Constructing
    <3>2. Home(i) \in Place
      BY <2>2, <1>a, <1>b DEF Home, Place, Phase, Worker
    <3> QED  BY <2>2, <1>b, <1>5, <3>1, <3>2 DEF Kept
  <2> QED  BY <2>1, <2>2
<1>p. Phase'
  <2>1. Begun = size + 1 /\ Begun' = size + 1
    BY <1>a, <1>2 DEF Begun
  <2>2. main' = "move" => gen >= 1 /\ size >= 1
    BY <1>a, <1>2 DEF Phase, Constructing
  <2>3. main' \in {"next", "move"} /\ ~ Constructing'
    BY <1>2
  <2> QED  BY <1>a, <1>b, <1>2, <2>1, <2>2, <2>3 DEF Phase
<1>h. Handshake'
  BY <1>a, <1>b, <1>1, <1>2 DEF Handshake
<1> QED  BY <1>t, <1>m, <1>i, <1>k, <1>p, <1>h

\* Moving: what the three steps share.
LEMMA Moving ==
  ASSUME IInv, main \in {"move", "moveArgs", "destroy"}
  PROVE  /\ Old \in Place /\ New \in Place /\ Old # New
         /\ k \in 1 .. size - 1 /\ size \in 1 .. N /\ gen \in 1 .. N
         /\ ~ Constructing /\ Begun = size
         /\ mem[Old] \in Objects /\ mem[New] \in Objects
<1>1. ~ Constructing /\ k < size /\ gen >= 1 /\ size >= 1
  BY DEF IInv, Phase, Constructing
<1>2. size \in 0 .. N /\ k \in 1 .. N + 1 /\ gen \in 0 .. N
  BY DEF IInv, TypeOK
<1>3. k \in 1 .. size - 1 /\ size \in 1 .. N /\ gen \in 1 .. N
  BY <1>1, <1>2, ThreadsAssumption
<1>4. Old \in Place /\ New \in Place /\ Old # New
  BY <1>3, ThreadsAssumption DEF Old, New, Place, Worker
<1> QED  BY <1>1, <1>3, <1>4 DEF IInv, TypeOK, Begun

(* A step of a move that fits the objects, keeps everybody else's, and      *)
(* leaves each element's identity where it is kept afterwards.              *)
LEMMA MoveInv ==
  ASSUME IInv, main \in {"move", "moveArgs", "destroy"},
         UNCHANGED <<size, cap, gen, this, pc, lockVars>>,
         main' \in {"move", "moveArgs", "destroy", "next"},
         main' # "next" => k' \in 1 .. size - 1, k' \in 1 .. N + 1,
         mem' \in [Place -> Objects],
         \A q \in Place : mem'[q].id = 0 \/ mem'[q].tid = mem'[q].id,
         Kept'
  PROVE  IInv'
<1> USE DEF IInv
<1>1. ~ Constructing /\ ~ Constructing' /\ Begun' = size /\ Begun = size
      /\ size \in 1 .. N /\ gen \in 1 .. N
  BY Moving DEF Constructing, Begun
<1>t. TypeOK'
  BY DEF TypeOK, lockVars
<1>m. Mutex'
  BY Outside DEF TypeOK
<1>i. TidKnown'
  BY DEF TidKnown
<1>p. Phase'
  <2>1. gen' = gen /\ size' = size /\ pc' = pc
    OBVIOUS
  <2>2. gen <= size /\ \A t \in Worker : pc[t] = "unborn" <=> t > size
    BY <1>1 DEF Phase
  <2>3. k' < size' \/ main' = "next"
    BY <1>1, <2>1
  <2> QED  BY <1>1, <2>1, <2>2, <2>3 DEF Phase
<1>h. Handshake'
  BY <1>1 DEF Handshake
<1> QED  BY <1>t, <1>m, <1>i, <1>p, <1>h

\* The identity of an element goes to its new place.
LEMMA MoveFuncInv == IInv /\ MoveFunc => IInv'
<1> SUFFICES ASSUME IInv, MoveFunc PROVE IInv'
  OBVIOUS
<1>1. main = "move"
  BY DEF MoveFunc
<1>2. /\ Old \in Place /\ New \in Place /\ Old # New
      /\ k \in 1 .. size - 1 /\ size \in 1 .. N /\ gen \in 1 .. N
      /\ ~ Constructing
      /\ mem[Old] \in Objects /\ mem[New] \in Objects
  BY <1>1, Moving
<1>3. /\ mem' = [mem EXCEPT ![New] = [mem[Old] EXCEPT !.args = "null"],
                            ![Old] = [Fresh EXCEPT !.args = mem[Old].args]]
      /\ main' = "moveArgs" /\ UNCHANGED <<k, size, cap, gen, this, pc, lockVars>>
  BY DEF MoveFunc
<1>4. /\ mem'[New] = [mem[Old] EXCEPT !.args = "null"]
      /\ mem'[Old] = [Fresh EXCEPT !.args = mem[Old].args]
      /\ \A q \in Place : q # New /\ q # Old => mem'[q] = mem[q]
  BY <1>2, <1>3 DEF IInv, TypeOK
<1>5. mem'[New] \in Objects /\ mem'[Old] \in Objects
  BY <1>2, <1>4, ThreadsAssumption DEF Objects, Fresh
<1>6. mem' \in [Place -> Objects]
  BY <1>3, <1>4, <1>5 DEF IInv, TypeOK
<1>7. mem'[New].id = mem[Old].id /\ mem'[New].tid = mem[Old].tid /\ mem'[Old].id = 0
  BY <1>2, <1>4 DEF Objects, Fresh
<1>8. \A q \in Place : mem'[q].id = 0 \/ mem'[q].tid = mem'[q].id
  BY <1>2, <1>4, <1>7 DEF IInv, TidKnown
<1>k. Kept'
  <2> SUFFICES ASSUME NEW i \in 1 .. size PROVE mem'[Home(i)'].id = i
    BY <1>3 DEF Kept
  <2>1. CASE i = k
    BY <2>1, <1>1, <1>2, <1>3, <1>7 DEF Home, IInv, Kept, Old, New
  <2>2. CASE i # k
    <3>1. Home(i)' = Home(i)
      BY <2>2, <1>1, <1>2, <1>3 DEF Home
    <3>2. Home(i) \in Place /\ Home(i) # New /\ Home(i) # Old
      BY <2>2, <1>1, <1>2, ThreadsAssumption DEF Home, Old, New, Place, Worker
    <3> QED  BY <3>1, <3>2, <1>4 DEF IInv, Kept
  <2> QED  BY <2>1, <2>2
<1> QED  BY <1>1, <1>2, <1>3, <1>6, <1>8, <1>k, MoveInv DEF IInv, TypeOK

\* The arguments follow.
LEMMA MoveArgsInv == IInv /\ MoveArgs => IInv'
<1> SUFFICES ASSUME IInv, MoveArgs PROVE IInv'
  OBVIOUS
<1>1. main = "moveArgs"
  BY DEF MoveArgs
<1>2. /\ Old \in Place /\ New \in Place /\ Old # New
      /\ k \in 1 .. size - 1 /\ size \in 1 .. N /\ gen \in 1 .. N
      /\ ~ Constructing
      /\ mem[Old] \in Objects /\ mem[New] \in Objects
  BY <1>1, Moving
<1>3. /\ mem' = [mem EXCEPT ![New].args = mem[Old].args, ![Old].args = mem[New].args]
      /\ main' = "destroy" /\ UNCHANGED <<k, size, cap, gen, this, pc, lockVars>>
  BY DEF MoveArgs
<1>4. /\ mem'[New] = [mem[New] EXCEPT !.args = mem[Old].args]
      /\ mem'[Old] = [mem[Old] EXCEPT !.args = mem[New].args]
      /\ \A q \in Place : q # New /\ q # Old => mem'[q] = mem[q]
  BY <1>2, <1>3 DEF IInv, TypeOK
<1>5. mem'[New] \in Objects /\ mem'[Old] \in Objects
  BY <1>2, <1>4 DEF Objects
<1>6. mem' \in [Place -> Objects]
  BY <1>3, <1>4, <1>5 DEF IInv, TypeOK
<1>7. \A q \in Place : mem'[q].id = mem[q].id /\ mem'[q].tid = mem[q].tid
  BY <1>2, <1>4 DEF Objects
<1>8. \A q \in Place : mem'[q].id = 0 \/ mem'[q].tid = mem'[q].id
  BY <1>2, <1>7 DEF IInv, TidKnown
<1>k. Kept'
  <2> SUFFICES ASSUME NEW i \in 1 .. size PROVE mem'[Home(i)'].id = i
    BY <1>3 DEF Kept
  <2>1. Home(i)' = Home(i)
    BY <1>1, <1>2, <1>3 DEF Home
  <2>2. Home(i) \in Place
    BY <1>1, <1>2, ThreadsAssumption DEF Home, Place, Worker
  <2> QED  BY <2>1, <2>2, <1>7 DEF IInv, Kept
<1> QED  BY <1>1, <1>2, <1>3, <1>6, <1>8, <1>k, MoveInv DEF IInv, TypeOK

\* What is destroyed is where no element is kept any more.
LEMMA DestroyInv == IInv /\ Destroy => IInv'
<1> SUFFICES ASSUME IInv, Destroy PROVE IInv'
  OBVIOUS
<1>1. main = "destroy"
  BY DEF Destroy
<1>2. /\ Old \in Place /\ New \in Place /\ Old # New
      /\ k \in 1 .. size - 1 /\ size \in 1 .. N /\ gen \in 1 .. N
      /\ ~ Constructing
  BY <1>1, Moving
<1>3. /\ mem' = [mem EXCEPT ![Old] = Fresh] /\ k' = k + 1
      /\ main' = IF k + 1 < size THEN "move" ELSE "next"
      /\ UNCHANGED <<size, cap, gen, this, pc, lockVars>>
  BY DEF Destroy
<1>4. mem'[Old] = Fresh /\ \A q \in Place : q # Old => mem'[q] = mem[q]
  BY <1>2, <1>3 DEF IInv, TypeOK
<1>5. Fresh \in Objects /\ Fresh.id = 0
  BY ThreadsAssumption DEF Objects, Fresh
<1>6. mem' \in [Place -> Objects]
  BY <1>3, <1>4, <1>5 DEF IInv, TypeOK
<1>8. \A q \in Place : mem'[q].id = 0 \/ mem'[q].tid = mem'[q].id
  BY <1>2, <1>4, <1>5 DEF IInv, TidKnown
<1>k. Kept'
  <2> SUFFICES ASSUME NEW i \in 1 .. size PROVE mem'[Home(i)'].id = i
    BY <1>3 DEF Kept
  <2>1. Home(i)' = Home(i)
    BY <1>1, <1>2, <1>3 DEF Home
  <2>2. Home(i) \in Place /\ Home(i) # Old
    BY <1>1, <1>2, ThreadsAssumption DEF Home, Old, Place, Worker
  <2> QED  BY <2>1, <2>2, <1>4 DEF IInv, Kept
<1>m. (main' = "move" /\ k' \in 1 .. size - 1) \/ main' = "next"
  BY <1>2, <1>3
<1>n. k' \in 1 .. N + 1
  BY <1>2, <1>3, ThreadsAssumption
<1> QED  BY <1>1, <1>2, <1>3, <1>6, <1>8, <1>k, <1>m, <1>n, MoveInv

\* All the threads have been begun when the first is joined.
LEMMA BeginJoinInv == IInv /\ BeginJoin => IInv'
<1> SUFFICES ASSUME IInv, BeginJoin PROVE IInv'
  OBVIOUS
<1> USE ThreadsAssumption DEF IInv, BeginJoin
<1>1. ~ Constructing /\ ~ Constructing' /\ Begun' = Begun
  BY DEF Constructing, Begun
<1>t. TypeOK'
  BY DEF TypeOK, lockVars
<1>m. Mutex'
  BY Outside DEF TypeOK
<1>i. TidKnown' /\ Handshake'
  BY <1>1 DEF TidKnown, Handshake
<1>k. Kept'
  BY DEF Kept, Home
<1>p. Phase'
  BY <1>1 DEF Phase
<1> QED  BY <1>t, <1>m, <1>i, <1>k, <1>p

\* The element that is joined is the thread of that number.
LEMMA JoinInv == IInv /\ join => IInv'
<1> SUFFICES ASSUME IInv, join PROVE IInv'
  OBVIOUS
<1> USE ThreadsAssumption DEF IInv
<1>1. /\ main = "join" /\ main' = (IF k = N THEN "joined" ELSE "join")
      /\ k' = (IF k = N THEN k ELSE k + 1)
      /\ UNCHANGED <<mem, size, cap, gen, this, pc, lockVars>>
      /\ pc[mem[<<gen, k>>].id] = "done"
  BY DEF join
<1>2. size = N /\ k \in 1 .. N
  BY <1>1 DEF Phase, TypeOK
<1>3. pc[k] = "done"
  <2>1. Home(k) = <<gen, k>> /\ mem[Home(k)].id = k
    BY <1>1, <1>2 DEF Home, Kept
  <2> QED  BY <1>1, <2>1
<1>4. main' \in {"join", "joined"} /\ ~ Constructing /\ ~ Constructing' /\ Begun' = Begun
  BY <1>1 DEF Constructing, Begun
<1>t. TypeOK'
  BY <1>1, <1>2, <1>4 DEF TypeOK, lockVars
<1>m. Mutex'
  BY <1>1, Outside DEF TypeOK
<1>i. TidKnown' /\ Handshake'
  BY <1>1, <1>4 DEF TidKnown, Handshake
<1>k. Kept'
  BY <1>1, <1>4 DEF Kept, Home
<1>p. Phase'
  <2>1. \A t \in 1 .. k : pc[t] = "done"
    BY <1>1, <1>2, <1>3 DEF Phase
  <2>2. (main' = "join" /\ k' = k + 1 /\ k < N) \/ (main' = "joined" /\ k = N /\ k' = k)
    BY <1>1, <1>2
  <2> QED  BY <1>1, <1>2, <1>4, <2>1, <2>2 DEF Phase, Worker
<1> QED  BY <1>t, <1>m, <1>i, <1>k, <1>p

-----------------------------------------------------------------------------
(* The threads                                                             *)

\* The object that a thread writes to is still under construction.
LEMMA PostInv == ASSUME IInv, NEW t \in Worker, Post(t) PROVE IInv'
<1> USE ThreadsAssumption DEF IInv
<1> DEFINE p == <<gen, t>>
<1>1. /\ pc[t] = "born" /\ Constructing /\ t = size + 1 /\ this[t] = p
      /\ mem[p].id = t /\ mem[p].sem = 0
  BY DEF Post, Handshake
<1>2. /\ mem' = [mem EXCEPT ![p] = [mem[p] EXCEPT !.tid = t, !.sem = @ + 1]]
      /\ pc' = [pc EXCEPT ![t] = "test"]
      /\ UNCHANGED <<main, k, size, cap, gen, this, lockVars>>
  <2>1. this[t] = p
    BY <1>1
  <2> HIDE DEF p
  <2> QED  BY <2>1 DEF Post
<1>a. t \in 0 .. N
  BY DEF Worker
<1>3. p \in Place /\ mem[p] \in Objects
  BY <1>1 DEF TypeOK
<1>4. mem'[p] = [mem[p] EXCEPT !.tid = t, !.sem = 1]
  BY <1>1, <1>2, <1>3 DEF TypeOK
<1> HIDE DEF p
<1>5. /\ mem'[p].tid = t /\ mem'[p].id = t /\ mem'[p] \in Objects
      /\ \A q \in Place : q # p => mem'[q] = mem[q]
  <2>1. mem[p].id = t /\ mem[p] \in Objects
    BY <1>1, <1>3 DEF p
  <2>2. mem'[p].tid = t /\ mem'[p].id = t /\ mem'[p] \in Objects
    <3> DEFINE o == mem[p]
    <3>1. mem'[p] = [id |-> t, tid |-> t, func |-> o.func, args |-> o.args, sem |-> 1]
      BY <1>4, <2>1 DEF Objects
    <3>2. o.func \in {"empty", "assgin"} /\ o.args \in {"null", "&num"}
      BY <2>1 DEF Objects
    <3> QED  BY <1>a, <3>1, <3>2 DEF Objects
  <2> QED  BY <1>2, <2>2 DEF TypeOK
<1>6. mem' \in [Place -> Objects] /\ \A q \in Place : mem'[q].id = mem[q].id
  BY <1>1, <1>2, <1>3, <1>5 DEF TypeOK
<1>7. \A s \in Worker : pc'[s] = IF s = t THEN "test" ELSE pc[s]
  BY <1>2 DEF TypeOK
<1>8. Constructing' /\ Begun' = Begun
  BY <1>1, <1>2 DEF Constructing, Begun
<1>t. TypeOK'
  BY <1>2, <1>6 DEF TypeOK, lockVars
<1>m. Mutex'
  BY <1>1, <1>2, <1>7, Outside DEF Before
<1>i. TidKnown'
  BY <1>1, <1>2, <1>5, <1>8 DEF TidKnown, p
<1>k. Kept'
  <2> SUFFICES ASSUME NEW i \in 1 .. size PROVE mem'[Home(i)'].id = i
    BY <1>2 DEF Kept
  <2>1. Home(i)' = Home(i)
    BY <1>2 DEF Home
  <2>2. Home(i) \in Place
    <3>1. size \in 0 .. N /\ gen \in 0 .. N /\ (main = "waitFull" => gen >= 1)
      BY DEF TypeOK, Phase
    <3>2. main \in {"wait", "waitFull"}
      BY <1>1 DEF Constructing
    <3>3. Home(i) = IF main = "waitFull" THEN <<gen - 1, i>> ELSE <<gen, i>>
      BY <3>2 DEF Home
    <3> QED  BY <3>1, <3>3 DEF Place, Worker
  <2> QED  BY <2>1, <2>2, <1>6 DEF Kept
<1>p. Phase'
  BY <1>1, <1>2, <1>7, <1>8 DEF Phase, Constructing
<1>h. Handshake'
  BY <1>1, <1>2, <1>5, <1>7, <1>8 DEF Handshake, p
<1> QED  BY <1>t, <1>m, <1>i, <1>k, <1>p, <1>h

(* A thread that runs past its handshake and does not end leaves what the   *)
(* main thread knows as it is.                                              *)
LEMMA RunsOn ==
  ASSUME IInv, NEW t \in Worker, UNCHANGED objects,
         NEW s \in {"call", "lock", "load", "store", "unlock", "done", "dead"},
         pc[t] \notin {"unborn", "born", "done"}, pc' = [pc EXCEPT ![t] = s],
         locked' \in {"clear", "set"}, num' \in Nat,
         count' \in [Worker -> 0 .. Rounds], seen' \in [Worker -> Nat]
  PROVE  TypeOK' /\ TidKnown' /\ Kept' /\ Phase' /\ Handshake'
<1> USE DEF IInv, objects
<1>1. \A r \in Worker : pc'[r] = IF r = t THEN s ELSE pc[r]
  BY DEF TypeOK
<1>2. Constructing' = Constructing /\ Begun' = Begun
  BY DEF Constructing, Begun
<1>t. TypeOK'
  BY DEF TypeOK
<1>k. TidKnown' /\ Kept'
  BY DEF TidKnown, Kept, Home, Constructing
<1>p. Phase'
  <2>1. \A r \in Worker : (pc'[r] = "unborn" <=> pc[r] = "unborn")
                          /\ (pc[r] = "done" => pc'[r] = "done")
    BY <1>1
  <2>2. main = "join" => 1 .. k - 1 \subseteq Worker
    BY ThreadsAssumption DEF Phase, Worker, TypeOK
  <2> QED  BY <1>2, <2>1, <2>2 DEF Phase
<1>h. Handshake'
  <2>1. \A r \in Worker : pc'[r] = "born" <=> pc[r] = "born"
    BY <1>1
  <2>2. Constructing => size + 1 \in Worker
    BY ThreadsAssumption DEF Phase, Worker, TypeOK
  <2> QED  BY <1>2, <2>1, <2>2 DEF Handshake
<1> QED  BY <1>t, <1>k, <1>p, <1>h

\* A thread that reads its object takes no part in the counting yet.
LEMMA StartInv == ASSUME IInv, NEW t \in Worker, Test(t) \/ Call(t) PROVE IInv'
<1>1. PICK s \in {"call", "lock", "dead"} : pc' = [pc EXCEPT ![t] = s]
  BY DEF Test, Call
<1>2. pc[t] \in {"test", "call"} /\ UNCHANGED <<objects, lockVars>>
  BY DEF Test, Call
<1>3. Mutex'
  BY <1>1, <1>2, Outside DEF IInv, TypeOK, Before
<1>4. locked' \in {"clear", "set"} /\ num' \in Nat
      /\ count' \in [Worker -> 0 .. Rounds] /\ seen' \in [Worker -> Nat]
  BY <1>2 DEF IInv, TypeOK, lockVars
<1> QED  BY <1>1, <1>2, <1>3, <1>4, RunsOn DEF IInv

\* Nobody else is inside while t is.
LEMMA Alone ==
  ASSUME IInv, NEW t \in Inside
  PROVE  Inside = {t} /\ t \in Worker /\ num = Rounds * Cardinality(Done) + count[t]
  BY DEF IInv, Mutex, Inside

\* The lock is taken by one thread when nobody is inside.
LEMMA LockInv == ASSUME IInv, NEW t \in Worker, lock(t) PROVE IInv'
<1> USE ThreadsAssumption
<1>1. /\ pc[t] = "lock" /\ locked = "clear" /\ locked' = "set"
      /\ pc' = [pc EXCEPT ![t] = "load"] /\ UNCHANGED <<objects, num, count, seen>>
  BY DEF lock
<1>2. \A r \in Worker : pc'[r] = IF r = t THEN "load" ELSE pc[r]
  BY <1>1 DEF IInv, TypeOK
<1>3. Inside = {} /\ Inside' = {t} /\ Done' = Done
  <2>1. Inside = {}
    BY <1>1 DEF IInv, Mutex
  <2> QED  BY <1>1, <1>2, <2>1 DEF Inside, Done
<1>4. count[t] = 0
  BY <1>1 DEF IInv, Mutex, Before
<1>m. Mutex'
  <2>1. num' = Rounds * Cardinality(Done') + count'[t]
    <3>1. num = Rounds * Cardinality(Done) /\ num \in Nat
      BY <1>3 DEF IInv, Mutex, TypeOK
    <3> QED  BY <3>1, <1>1, <1>3, <1>4
  <2>2. \A r \in Worker : r # t => pc'[r] \notin {"load", "store", "unlock"}
    BY <1>2, <1>3 DEF Inside
  <2>3. \A r \in Worker : pc'[r] \in Before => count'[r] = 0
    BY <1>1, <1>2 DEF IInv, Mutex, Before
  <2> QED  BY <1>1, <1>2, <1>3, <1>4, <2>1, <2>2, <2>3 DEF Mutex
<1> QED  BY <1>1, <1>m, RunsOn DEF IInv, TypeOK

\* What a thread loads is up to date, for nobody else is inside.
LEMMA LoadInv == ASSUME IInv, NEW t \in Worker, Load(t) PROVE IInv'
<1> USE ThreadsAssumption
<1>1. /\ pc[t] = "load" /\ seen' = [seen EXCEPT ![t] = num]
      /\ pc' = [pc EXCEPT ![t] = "store"] /\ UNCHANGED <<objects, locked, num, count>>
  BY DEF Load
<1>2. \A r \in Worker : pc'[r] = IF r = t THEN "store" ELSE pc[r]
  BY <1>1 DEF IInv, TypeOK
<1>3. Inside' = Inside /\ Done' = Done
  BY <1>1, <1>2 DEF Inside, Done
<1>4. \A r \in Worker : seen'[r] = IF r = t THEN num ELSE seen[r]
  BY <1>1 DEF IInv, TypeOK
<1>5. seen' \in [Worker -> Nat]
  BY <1>1 DEF IInv, TypeOK
<1>m. Mutex'
  BY <1>1, <1>2, <1>3, <1>4 DEF IInv, Mutex, Before
<1> QED  BY <1>1, <1>5, <1>m, RunsOn DEF IInv, TypeOK

\* A store adds one to num and one to the increments of the thread.
LEMMA StoreInv == ASSUME IInv, NEW t \in Worker, Store(t) PROVE IInv'
<1> USE ThreadsAssumption
<1> DEFINE s == IF count[t] + 1 = Rounds THEN "unlock" ELSE "load"
<1>1. /\ pc[t] = "store" /\ num' = seen[t] + 1
      /\ count' = [count EXCEPT ![t] = @ + 1] /\ pc' = [pc EXCEPT ![t] = s]
      /\ UNCHANGED <<objects, locked, seen>>
  BY DEF Store
<1>2. \A r \in Worker : pc'[r] = (IF r = t THEN s ELSE pc[r])
                        /\ count'[r] = (IF r = t THEN count[t] + 1 ELSE count[r])
  BY <1>1 DEF IInv, TypeOK
<1>3. Inside = {t} /\ num = Rounds * Cardinality(Done) + count[t]
  BY <1>1, Alone DEF Inside
<1>4. Inside' = {t} /\ Done' = Done
  BY <1>1, <1>2, <1>3 DEF Inside, Done
<1>5. seen[t] = num /\ count[t] \in 0 .. Rounds - 1 /\ num \in Nat
  BY <1>1 DEF IInv, Mutex, TypeOK
<1>6. Rounds * Cardinality(Done) \in Nat
  BY DoneFinite
<1>7. count' \in [Worker -> 0 .. Rounds] /\ num' = Rounds * Cardinality(Done) + count'[t]
  BY <1>1, <1>2, <1>3, <1>5, <1>6 DEF IInv, TypeOK
<1>8. \A r \in Worker : r # t => pc[r] \notin {"load", "store", "unlock"}
  BY <1>3 DEF Inside
<1>m. Mutex'
  <2>1. locked' = "set"
    BY <1>1, <1>3 DEF IInv, Mutex
  <2>2. s = "unlock" => count'[t] = Rounds
    BY <1>2
  <2>3. s = "load" => count'[t] < Rounds
    BY <1>2, <1>5
  <2>4. \A r \in Worker : pc'[r] \in Before => count'[r] = 0
    BY <1>2 DEF IInv, Mutex, Before
  <2>5. pc'[t] \in {"load", "unlock"} /\ \A r \in Worker : r # t => pc'[r] = pc[r]
    BY <1>2
  <2>6. \A r \in Worker : pc'[r] # "store"
    BY <1>8, <2>5
  <2>7. \A r \in Worker : /\ pc'[r] = "load" => count'[r] < Rounds
                          /\ pc'[r] = "unlock" => count'[r] = Rounds
    BY <1>2, <1>8, <2>2, <2>3
  <2>8. num' = Rounds * Cardinality(Done') + count'[t]
    BY <1>4, <1>7
  <2> QED  BY <1>4, <2>1, <2>4, <2>6, <2>7, <2>8 DEF Mutex
<1>9. s \in {"load", "unlock"}
  OBVIOUS
<1> HIDE DEF s
<1>10. num' \in Nat /\ locked' \in {"clear", "set"} /\ seen' \in [Worker -> Nat]
  BY <1>1, <1>5 DEF IInv, TypeOK
<1> QED  BY <1>1, <1>7, <1>9, <1>10, <1>m, RunsOn DEF IInv

\* Who leaves has made all the increments, and adds itself to those done.
LEMMA UnlockInv == ASSUME IInv, NEW t \in Worker, unlock(t) PROVE IInv'
<1> USE ThreadsAssumption
<1>1. /\ pc[t] = "unlock" /\ locked' = "clear"
      /\ pc' = [pc EXCEPT ![t] = "done"] /\ UNCHANGED <<objects, num, count, seen>>
  BY DEF unlock
<1>2. \A r \in Worker : pc'[r] = IF r = t THEN "done" ELSE pc[r]
  BY <1>1 DEF IInv, TypeOK
<1>3. Inside = {t} /\ num = Rounds * Cardinality(Done) + count[t] /\ count[t] = Rounds
  BY <1>1, Alone DEF Inside, IInv, Mutex
<1>4. Inside' = {} /\ Done' = Done \cup {t} /\ t \notin Done
  BY <1>1, <1>2, <1>3 DEF Inside, Done
<1>5. num = Rounds * Cardinality(Done')
  <2>1. Cardinality(Done') = Cardinality(Done) + 1 /\ Cardinality(Done) \in Nat
    BY <1>4, DoneFinite
  <2> QED  BY <1>3, <2>1
<1>m. Mutex'
  BY <1>1, <1>2, <1>4, <1>5 DEF IInv, Mutex, Before, Inside
<1> QED  BY <1>1, <1>m, RunsOn DEF IInv, TypeOK

-----------------------------------------------------------------------------
(* The lock excludes, no increment is lost, and each object keeps its       *)
(* thread, however the vector moves it.                                     *)
THEOREM Inductive == Spec => []IInv
<1>1. IInv /\ UNCHANGED vars => IInv'
  BY DEF IInv, TypeOK, Mutex, TidKnown, Kept, Phase, Handshake, vars, Inside, Done,
         Before, Home, Begun, Constructing
<1>2. IInv /\ Next => IInv'
  <2> SUFFICES ASSUME IInv, Next PROVE IInv'
    OBVIOUS
  <2>1. CASE Main
    BY <2>1, ConstructInv, WaitInv, MoveFuncInv, MoveArgsInv, DestroyInv,
       BeginJoinInv, JoinInv DEF Main
  <2>2. ASSUME NEW t \in Worker, Run(t) PROVE IInv'
    BY <2>2, PostInv, StartInv, LockInv, LoadInv, StoreInv, UnlockInv DEF Run
  <2> QED  BY <2>1, <2>2 DEF Next
<1> QED  BY InitInv, <1>1, <1>2, PTL DEF Spec

(* The locks of SpinLock.h give mutual exclusion to the increments of the   *)
(* tests, and num is their number.                                          *)
THEOREM MutualExclusion == Spec => []Mutex
<1>1. IInv => Mutex
  BY DEF IInv
<1> QED  BY Inductive, <1>1, PTL

(* getTid() is right once the constructor has returned.                     *)
THEOREM TidsKnown == Spec => []TidKnown
<1>1. IInv => TidKnown
  BY DEF IInv
<1> QED  BY Inductive, <1>1, PTL

(* The assertion that ends the tests holds whenever they get there.         *)
THEOREM AssertionHolds == Spec => []AssertEq
<1>1. IInv => AssertEq
  <2> SUFFICES ASSUME IInv, main = "joined" PROVE num = N * Rounds
    BY DEF AssertEq
  <2>1. Done = Worker /\ Inside = {}
    BY DEF IInv, Phase, Done, Inside
  <2> QED  BY <2>1, DoneFinite, ThreadsAssumption DEF IInv, Mutex
<1> QED  BY Inductive, <1>1, PTL
=============================================================================
