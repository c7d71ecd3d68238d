-------------------------- MODULE AlgorithmProofs ---------------------------
(***************************************************************************)
(* LFUCache keeps its map and its tree in step, LruCache its map and its   *)
(* list, and both implement the cache of module Cache, for any keys,       *)
(* values, places for nodes and capacity; KmpMatcher::match() answers with *)
(* an occurrence, the first one if the first letter of the pattern is      *)
(* alone in it, for all texts and patterns.                                *)
(***************************************************************************)
EXTENDS LfuCache, LruCache, StringMatcher, FiniteSetTheorems, TLAPS

(* Because the present time is later than that of every element, insert()   *)
(* meets no equivalent element.                                             *)
LEMMA InsertFresh ==
  ASSUME TypeOK, TimesDiffer, NEW s \in SUBSET rb,
         NEW e, e.time = g_time + 1, e.count \in Int
  PROVE  Inserted(s, e) = s \cup {e} /\ Position(s, e) = e
<1>1. ASSUME NEW x \in s PROVE Less(x, e) \/ Less(e, x)
  <2>1. x.time <= g_time /\ x.time \in Int /\ x.count \in Int /\ g_time \in Int
    BY DEF TypeOK, TimesDiffer
  <2> QED  BY <2>1 DEF Less
<1> QED  BY <1>1 DEF Equivalents, Inserted, Position

\* The elements in the map are those in the tree, with all that is known of them.
LEMMA OfKey ==
  ASSUME IInv, NEW k \in DOMAIN datas
  PROVE  /\ datas[k] \in rb /\ datas[k].key = k /\ k \in Key
         /\ datas[k].val \in Val
         /\ datas[k].count \in 1 .. MaxTime /\ datas[k].time \in 1 .. MaxTime
         /\ datas[k].count <= g_time /\ datas[k].time <= g_time
         /\ \A x \in DOMAIN datas : datas[x].time = datas[k].time => x = k
  BY DEF IInv, TypeOK, InStep, TimesDiffer

-----------------------------------------------------------------------------
\* An empty cache satisfies the invariant.
LEMMA InitInv == Init => IInv
  BY CapAssumption, LfuAssumption, FS_EmptySet DEF Init, IInv, TypeOK, InStep, TimesDiffer

\* datas and rb after key k has got an element of the present time and the keys
\* outside of keep are gone
Becomes(keep, k, v, n) ==
  /\ datas' = [x \in keep \cup {k} |->
                 IF x = k THEN Elem(v, k, n, g_time + 1) ELSE datas[x]]
  /\ rb' = {datas[x] : x \in keep} \cup {Elem(v, k, n, g_time + 1)}
  /\ g_time' = g_time + 1

(* What a call leaves behind when it has put an element of the present time *)
(* in the place of key k's, in a map and a tree that have lost the keys     *)
(* that are not in keep.                                                    *)
LEMMA Replaced ==
  ASSUME IInv, NEW keep \in SUBSET (DOMAIN datas), NEW k \in Key, k \notin keep,
         NEW v \in Val, NEW n \in 1 .. MaxTime, n <= g_time + 1,
         g_time < MaxTime, result' \in Val \cup {Miss},
         Becomes(keep, k, v, n), Cardinality(keep) + 1 <= cap
  PROVE  IInv'
<1> USE DEF Becomes
<1> DEFINE e == Elem(v, k, n, g_time + 1)
<1>e. e.val = v /\ e.key = k /\ e.count = n /\ e.time = g_time + 1
  BY DEF Elem
<1>g. g_time \in 0 .. MaxTime /\ MaxTime \in Nat
  BY CapAssumption, LfuAssumption DEF IInv, TypeOK
<1>d. DOMAIN datas' = keep \cup {k} /\ datas'[k] = e
      /\ \A x \in keep : datas'[x] = datas[x]
  OBVIOUS
<1>1. TypeOK'
  <2>1. ASSUME NEW x \in rb'
        PROVE  /\ x = Elem(x.val, x.key, x.count, x.time)
               /\ x.val \in Val /\ x.key \in Key
               /\ x.count \in 1 .. MaxTime /\ x.time \in 1 .. MaxTime
    <3>1. CASE x = e
      BY <3>1, <1>e, <1>g
    <3>2. CASE x \in rb
      BY <3>2 DEF IInv, TypeOK
    <3> QED  BY <3>1, <3>2, OfKey
  <2>2. \A x \in DOMAIN datas' : datas'[x] \in rb'
    BY <1>d
  <2> QED  BY <2>1, <2>2, <1>d, <1>g, OfKey DEF TypeOK
<1>2. InStep'
  <2>1. rb' = {datas'[x] : x \in keep \cup {k}}
    BY <1>d
  <2>2. ASSUME NEW x \in keep \cup {k} PROVE datas'[x].key = x
    BY <1>d, <1>e, OfKey
  <2> QED  BY <2>1, <2>2, <1>d DEF InStep
<1>3. TimesDiffer'
  <2>1. \A x \in keep : datas[x] \in rb /\ datas[x].time <= g_time
                        /\ datas[x].count <= g_time /\ datas[x].time \in Int
                        /\ datas[x].count \in Int
    BY OfKey
  <2>2. \A x \in keep, y \in keep : datas[x].time = datas[y].time => datas[x] = datas[y]
    BY OfKey
  <2>3. \A x \in rb' : x = e \/ \E y \in keep : x = datas[y]
    OBVIOUS
  <2> HIDE DEF e
  <2>4. \A x \in rb' : x.time <= g_time' /\ x.count <= g_time'
    BY <2>1, <2>3, <1>e, <1>g
  <2>5. \A x \in rb', y \in rb' : x.time = y.time => x = y
    BY <2>1, <2>2, <2>3, <1>e, <1>g
  <2> QED  BY <2>4, <2>5 DEF TimesDiffer
<1>4. IsFiniteSet(DOMAIN datas') /\ Cardinality(DOMAIN datas') <= cap
  <2>1. IsFiniteSet(keep)
    BY FS_Subset DEF IInv
  <2>2. IsFiniteSet(keep \cup {k}) /\ Cardinality(keep \cup {k}) = Cardinality(keep) + 1
    BY <2>1, FS_AddElement
  <2> QED  BY <2>2, <1>d
<1> QED  BY <1>1, <1>2, <1>3, <1>4 DEF IInv

\* A hit replaces the element of its key and keeps the others.
LEMMA TouchBecomes ==
  ASSUME IInv, NEW k \in DOMAIN datas, NEW v \in Val, g_time < MaxTime,
         Touch(k, Used(k, v)), g_time' = g_time + 1
  PROVE  /\ Becomes((DOMAIN datas) \ {k}, k, v, datas[k].count + 1)
         /\ datas[k].count + 1 \in 1 .. MaxTime /\ datas[k].count + 1 <= g_time + 1
         /\ Position(rb, Used(k, v)).val = v
<1> DEFINE e == Used(k, v)
<1>1. /\ e = Elem(v, k, datas[k].count + 1, g_time + 1)
      /\ e.time = g_time + 1 /\ e.count = datas[k].count + 1 /\ e.val = v
  BY OfKey DEF Used, Elem
<1>2. datas[k].count \in Int /\ datas[k].count >= 1 /\ datas[k].count <= g_time
      /\ g_time \in Int /\ MaxTime \in Int
  BY OfKey, CapAssumption, LfuAssumption DEF IInv, TypeOK
<1>3. Inserted(rb, e) = rb \cup {e} /\ Position(rb, e) = e
  BY <1>1, <1>2, InsertFresh DEF IInv
<1>4. e # datas[k] /\ \A x \in DOMAIN datas : x # k => datas[x] # datas[k]
  BY <1>1, <1>2, OfKey
<1>5. rb' = {datas[x] : x \in (DOMAIN datas) \ {k}} \cup {e}
  <2>1. rb = {datas[x] : x \in DOMAIN datas}
    BY DEF IInv, InStep
  <2> QED  BY <2>1, <1>3, <1>4 DEF Touch
<1>6. datas' = [x \in ((DOMAIN datas) \ {k}) \cup {k} |-> IF x = k THEN e ELSE datas[x]]
  <2>1. ((DOMAIN datas) \ {k}) \cup {k} = DOMAIN datas \cup {k}
    OBVIOUS
  <2> QED  BY <2>1, <1>3 DEF Touch, Assign
<1> QED  BY <1>1, <1>2, <1>3, <1>5, <1>6 DEF Becomes

\* A new key joins those of the map d and the tree s.
LEMMA JoinBecomes ==
  ASSUME IInv, NEW keep \in SUBSET (DOMAIN datas), NEW k \in Key, NEW v \in Val,
         NEW s, s = {datas[x] : x \in keep}, NEW d, d = [x \in keep |-> datas[x]],
         k \notin keep, g_time < MaxTime, Join(s, d, k, v)
  PROVE  Becomes(keep, k, v, 1) /\ 1 \in 1 .. MaxTime /\ 1 <= g_time + 1
<1> DEFINE e == Elem(v, k, 1, g_time + 1)
<1>1. e.time = g_time + 1 /\ e.count = 1 /\ e.count \in Int
  BY DEF Elem
<1>2. s \in SUBSET rb
  BY OfKey
<1>3. Inserted(s, e) = s \cup {e} /\ Position(s, e) = e
  <2>1. TypeOK /\ TimesDiffer
    BY DEF IInv
  <2> HIDE DEF e
  <2> QED  BY <2>1, <1>1, <1>2, InsertFresh
<1>4. DOMAIN d = keep /\ \A x \in keep : d[x] = datas[x]
  OBVIOUS
<1>5. Assign(d, k, e) = [x \in keep \cup {k} |-> IF x = k THEN e ELSE datas[x]]
  BY <1>4 DEF Assign
<1>6. g_time \in Nat /\ MaxTime \in Nat
  BY CapAssumption, LfuAssumption DEF IInv, TypeOK
<1> QED  BY <1>3, <1>5, <1>6 DEF Join, Becomes

\* The victim's element is removed with its key.
LEMMA Eviction ==
  ASSUME IInv, NEW victim \in rb
  PROVE  /\ victim.key \in DOMAIN datas /\ datas[victim.key] = victim
         /\ rb \ {victim} = {datas[x] : x \in (DOMAIN datas) \ {victim.key}}
<1>1. PICK k \in DOMAIN datas : victim = datas[k]
  BY DEF IInv, InStep
<1>2. victim.key = k
  BY <1>1, OfKey
<1>3. \A x \in DOMAIN datas : x # k => datas[x] # victim
  BY <1>1, OfKey
<1>4. rb = {datas[x] : x \in DOMAIN datas}
  BY DEF IInv, InStep
<1> QED  BY <1>1, <1>2, <1>3, <1>4

\* Taking one key out of the map makes room for one.
LEMMA Room ==
  ASSUME IInv, NEW k \in DOMAIN datas
  PROVE  Cardinality((DOMAIN datas) \ {k}) + 1 <= cap
<1>1. Cardinality(DOMAIN datas) \in Nat /\ Cardinality(DOMAIN datas) <= cap
  BY FS_CardinalityType DEF IInv
<1>2. Cardinality((DOMAIN datas) \ {k}) = Cardinality(DOMAIN datas) - 1
  BY FS_RemoveElement DEF IInv
<1> QED  BY <1>1, <1>2, CapAssumption, LfuAssumption

\* Every call preserves the invariant.
LEMMA StepInv ==
  ASSUME IInv, [Next]_vars PROVE IInv'
<1>a. cap \in Nat /\ Cardinality(DOMAIN datas) \in Nat /\ Cardinality(DOMAIN datas) <= cap
  BY CapAssumption, LfuAssumption, FS_CardinalityType DEF IInv
<1>1. ASSUME NEW k \in Key, get(k) PROVE IInv'
  <2>1. k \in DOMAIN datas /\ g_time < MaxTime /\ g_time' = g_time + 1
        /\ Touch(k, Used(k, datas[k].val)) /\ datas[k].val \in Val
        /\ result' = Position(rb, Used(k, datas[k].val)).val
    BY <1>1, OfKey DEF get
  <2>2. result' = datas[k].val
    BY <2>1, TouchBecomes
  <2>3. /\ Becomes((DOMAIN datas) \ {k}, k, datas[k].val, datas[k].count + 1)
        /\ datas[k].count + 1 \in 1 .. MaxTime /\ datas[k].count + 1 <= g_time + 1
    BY <2>1, TouchBecomes
  <2>4. Cardinality((DOMAIN datas) \ {k}) + 1 <= cap
    BY <2>1, Room
  <2> QED  BY <2>1, <2>2, <2>3, <2>4, Replaced
<1>2. ASSUME NEW k \in Key, getMissing(k) PROVE IInv'
  BY <1>2 DEF getMissing, IInv, TypeOK, InStep, TimesDiffer
<1>3. ASSUME NEW k \in Key, NEW v \in Val, putPresent(k, v) PROVE IInv'
  <2>1. k \in DOMAIN datas /\ g_time < MaxTime /\ g_time' = g_time + 1
        /\ Touch(k, Used(k, v)) /\ result' \in Val \cup {Miss}
    BY <1>3 DEF putPresent, IInv, TypeOK
  <2>2. /\ Becomes((DOMAIN datas) \ {k}, k, v, datas[k].count + 1)
        /\ datas[k].count + 1 \in 1 .. MaxTime /\ datas[k].count + 1 <= g_time + 1
    BY <2>1, TouchBecomes
  <2>3. Cardinality((DOMAIN datas) \ {k}) + 1 <= cap
    BY <2>1, Room
  <2> QED  BY <2>1, <2>2, <2>3, Replaced
<1>4. ASSUME NEW k \in Key, NEW v \in Val, putNew(k, v) PROVE IInv'
  <2>1. k \notin DOMAIN datas /\ g_time < MaxTime /\ result' \in Val \cup {Miss}
        /\ Join(rb, datas, k, v) /\ Cardinality(DOMAIN datas) + 1 <= cap
    BY <1>4, <1>a DEF putNew, Join, IInv, TypeOK
  <2>2. rb = {datas[x] : x \in DOMAIN datas}
    BY DEF IInv, InStep
  <2>3. datas = [x \in DOMAIN datas |-> datas[x]]
    BY DEF IInv, TypeOK
  <2>4. Becomes(DOMAIN datas, k, v, 1) /\ 1 \in 1 .. MaxTime /\ 1 <= g_time + 1
    BY <2>1, <2>2, <2>3, JoinBecomes
  <2> QED  BY <2>1, <2>4, Replaced
<1>5. ASSUME NEW k \in Key, NEW v \in Val, putEvict(k, v) PROVE IInv'
  <2>1. PICK victim \in rb :
          IsBegin(victim) /\ Join(rb \ {victim}, [x \in DOMAIN datas \ {victim.key} |-> datas[x]], k, v)
    BY <1>5 DEF putEvict
  <2>2. k \notin DOMAIN datas /\ g_time < MaxTime /\ result' \in Val \cup {Miss}
    BY <1>5, <2>1 DEF putEvict, Join, IInv, TypeOK
  <2> DEFINE keep == (DOMAIN datas) \ {victim.key}
  <2>3. victim.key \in DOMAIN datas /\ rb \ {victim} = {datas[x] : x \in keep}
    BY Eviction
  <2>4. Becomes(keep, k, v, 1) /\ 1 \in 1 .. MaxTime /\ 1 <= g_time + 1
    BY <2>1, <2>2, <2>3, JoinBecomes
  <2>5. Cardinality(keep) + 1 <= cap
    BY <2>3, Room
  <2> QED  BY <2>2, <2>4, <2>5, Replaced
<1>6. CASE UNCHANGED vars
  BY <1>6 DEF vars, IInv, TypeOK, InStep, TimesDiffer
<1> QED  BY <1>1, <1>2, <1>3, <1>4, <1>5, <1>6 DEF Next

(* The map and the tree stay in step, times stay distinct, and the capacity *)
(* is kept, whatever calls are made.                                        *)
THEOREM Inductive == Spec => []IInv
<1> QED  BY InitInv, StepInv, PTL DEF Spec

-----------------------------------------------------------------------------
(* The refinement.                                                         *)

Values == [x \in DOMAIN datas |-> datas[x].val]
Counts == [x \in DOMAIN datas |-> datas[x].count]
Older == {p \in (DOMAIN datas) \X (DOMAIN datas) : datas[p[1]].time < datas[p[2]].time}

\* What the reference sees of a key that got the present time.
LEMMA BecomesAbstract ==
  ASSUME IInv, NEW keep \in SUBSET (DOMAIN datas), NEW k \in Key, k \notin keep,
         NEW v \in Val, NEW n \in 1 .. MaxTime, Becomes(keep, k, v, n)
  PROVE  /\ (DOMAIN datas)' = keep \cup {k}
         /\ Values' = [x \in keep \cup {k} |-> IF x = k THEN v ELSE Values[x]]
         /\ Counts' = [x \in keep \cup {k} |-> IF x = k THEN n ELSE Counts[x]]
         /\ Older' = {p \in Older : p[1] \in keep \ {k} /\ p[2] \in keep \ {k}}
                       \cup ((keep \ {k}) \X {k})
<1>1. /\ DOMAIN datas' = keep \cup {k}
      /\ datas'[k].val = v /\ datas'[k].count = n /\ datas'[k].time = g_time + 1
      /\ \A x \in keep : datas'[x] = datas[x]
  BY DEF Becomes, Elem
<1>2. \A x \in keep : x \in DOMAIN datas /\ x # k
  OBVIOUS
<1>3. \A x \in keep : datas[x].time \in Int /\ datas[x].time < g_time + 1
  BY OfKey DEF IInv, TypeOK
<1>4. g_time \in Int
  BY DEF IInv, TypeOK
<1>5. Values' = [x \in keep \cup {k} |-> IF x = k THEN v ELSE Values[x]]
  BY <1>1, <1>2 DEF Values
<1>6. Counts' = [x \in keep \cup {k} |-> IF x = k THEN n ELSE Counts[x]]
  BY <1>1, <1>2 DEF Counts
<1>7. Older' = {p \in Older : p[1] \in keep \ {k} /\ p[2] \in keep \ {k}}
                  \cup ((keep \ {k}) \X {k})
  <2>1. ASSUME NEW a \in keep \cup {k}, NEW b \in keep \cup {k}
        PROVE  datas'[a].time < datas'[b].time
                 <=> \/ a \in keep /\ b \in keep /\ datas[a].time < datas[b].time
                     \/ a \in keep /\ b = k
    BY <1>1, <1>2, <1>3, <1>4
  <2>2. ASSUME NEW p
        PROVE  p \in Older' <=>
                 p \in {q \in Older : q[1] \in keep \ {k} /\ q[2] \in keep \ {k}}
                         \cup ((keep \ {k}) \X {k})
    BY <1>1, <1>2, <2>1 DEF Older
  <2> QED  BY <2>2
<1> QED  BY <1>1, <1>5, <1>6, <1>7

\* An empty cache is the reference's initial state.
LEMMA RefInit == Init => Reference!Init
  BY DEF Init, Reference!Init

\* A call that touches the element of its key is a hit: it changes one entry
\* and makes its key the youngest.
LEMMA TouchHits ==
  ASSUME IInv, NEW k \in DOMAIN datas, NEW v \in Val, g_time < MaxTime,
         Touch(k, Used(k, v)), g_time' = g_time + 1
  PROVE  Reference!Hit(k, v) /\ Position(rb, Used(k, v)).val = v
<1>n. PICK n : n = datas[k].count + 1
  OBVIOUS
<1>1. PICK keep \in SUBSET (DOMAIN datas) : keep = (DOMAIN datas) \ {k}
  OBVIOUS
<1>2. /\ Becomes(keep, k, v, n) /\ n \in 1 .. MaxTime
      /\ Position(rb, Used(k, v)).val = v
  BY ZenonT(40), <1>n, <1>1, TouchBecomes DEF Becomes
<1>3. k \in Key /\ k \notin keep
  BY <1>1, OfKey
<1>4. /\ (DOMAIN datas)' = keep \cup {k}
      /\ Values' = [x \in keep \cup {k} |-> IF x = k THEN v ELSE Values[x]]
      /\ Counts' = [x \in keep \cup {k} |-> IF x = k THEN n ELSE Counts[x]]
      /\ Older' = {p \in Older : p[1] \in keep \ {k} /\ p[2] \in keep \ {k}}
                    \cup ((keep \ {k}) \X {k})
  BY <1>2, <1>3, BecomesAbstract
<1>5. keep \cup {k} = DOMAIN datas /\ keep \ {k} = (DOMAIN datas) \ {k}
  BY <1>1
<1>6. Values' = [Values EXCEPT ![k] = v]
  BY <1>4, <1>5 DEF Values
<1>7. Counts' = [Counts EXCEPT ![k] = @ + 1]
  BY <1>n, <1>4, <1>5 DEF Counts
<1> QED
  BY <1>2, <1>4, <1>5, <1>6, <1>7
     DEF Reference!Hit, Reference!Younger, Values, Counts, Older

\* A new key enters, beside the keys that are kept.
LEMMA EnterStep ==
  ASSUME IInv, NEW keep \in SUBSET (DOMAIN datas), NEW k \in Key, k \notin keep,
         NEW v \in Val, 1 \in 1 .. MaxTime, Becomes(keep, k, v, 1), UNCHANGED result
  PROVE  Reference!Enter(k, v, keep)
<1>1. /\ (DOMAIN datas)' = keep \cup {k}
      /\ Values' = [x \in keep \cup {k} |-> IF x = k THEN v ELSE Values[x]]
      /\ Counts' = [x \in keep \cup {k} |-> IF x = k THEN 1 ELSE Counts[x]]
      /\ Older' = {p \in Older : p[1] \in keep \ {k} /\ p[2] \in keep \ {k}}
                    \cup ((keep \ {k}) \X {k})
  BY BecomesAbstract
<1> QED
  BY <1>1 DEF Reference!Enter, Reference!Younger, Values, Counts, Older

\* The first element of the tree belongs to the reference's victim.
LEMMA BeginIsVictim ==
  ASSUME IInv, NEW victim \in rb, IsBegin(victim),
         NEW other \in (DOMAIN datas) \ {victim.key}
  PROVE  Reference!Before(victim.key, other)
<1>1. victim.key \in DOMAIN datas /\ datas[victim.key] = victim
  BY Eviction
<1>2. datas[other] \in rb \ {victim}
  BY <1>1, OfKey
<1>3. Less(victim, datas[other])
  BY <1>2 DEF IsBegin
<1> QED  BY <1>1, <1>3 DEF Reference!Before, Less

(* LFUCache implements the cache that gives up the least frequently used    *)
(* key, and among equals the one not used for longest.                      *)
THEOREM LfuImplementsCache == Spec => ImplementsCache
<1>1. IInv /\ [Next]_vars => [Reference!Next]_(Reference!cacheVars)
  <2> SUFFICES ASSUME IInv, [Next]_vars
               PROVE  [Reference!Next]_(Reference!cacheVars)
    OBVIOUS
  <2>1. ASSUME NEW k \in Key, get(k) PROVE Reference!GetHit(k)
    <3>1. k \in DOMAIN datas /\ g_time < MaxTime /\ g_time' = g_time + 1
          /\ Touch(k, Used(k, datas[k].val)) /\ datas[k].val \in Val
          /\ result' = Position(rb, Used(k, datas[k].val)).val
      BY <2>1, OfKey DEF get
    <3>2. PICK v \in Val : v = datas[k].val
      BY <3>1
    <3>3. Reference!Hit(k, v) /\ result' = v
      BY <3>1, <3>2, TouchHits
    <3> QED  BY <3>1, <3>2, <3>3 DEF Reference!GetHit, Reference!Hit
  <2>2. ASSUME NEW k \in Key, getMissing(k) PROVE Reference!GetMiss(k)
    BY <2>2 DEF getMissing, Reference!GetMiss
  <2>3. ASSUME NEW k \in Key, NEW v \in Val, putPresent(k, v)
        PROVE  Reference!PutHit(k, v)
    <3>1. k \in DOMAIN datas /\ g_time < MaxTime /\ g_time' = g_time + 1
          /\ Touch(k, Used(k, v)) /\ UNCHANGED result
      BY <2>3 DEF putPresent
    <3> QED  BY <3>1, TouchHits DEF Reference!PutHit
  <2>4. ASSUME NEW k \in Key, NEW v \in Val, putNew(k, v)
        PROVE  Reference!PutNew(k, v)
    <3>1. k \notin DOMAIN datas /\ g_time < MaxTime /\ UNCHANGED result
          /\ Join(rb, datas, k, v)
      BY <2>4 DEF putNew, Join
    <3>2. Cardinality(DOMAIN datas) < cap
      BY <2>4, CapAssumption, LfuAssumption, FS_CardinalityType DEF putNew, IInv
    <3>3. rb = {datas[x] : x \in DOMAIN datas} /\ datas = [x \in DOMAIN datas |-> datas[x]]
      BY DEF IInv, TypeOK, InStep
    <3>4. PICK keep : keep = DOMAIN datas
      OBVIOUS
    <3>5. Becomes(keep, k, v, 1) /\ 1 \in 1 .. MaxTime
      BY <3>1, <3>3, <3>4, JoinBecomes
    <3>6. Reference!Enter(k, v, keep)
      BY <3>1, <3>4, <3>5, EnterStep
    <3> QED
      BY <3>1, <3>2, <3>4, <3>6 DEF Reference!PutNew, Reference!Cardinality, Cardinality
  <2>5. ASSUME NEW k \in Key, NEW v \in Val, putEvict(k, v)
        PROVE  Reference!PutEvict(k, v)
    <3>1. PICK victim \in rb : /\ IsBegin(victim)
                               /\ Join(rb \ {victim},
                                       [x \in DOMAIN datas \ {victim.key} |-> datas[x]], k, v)
      BY <2>5 DEF putEvict
    <3>2. k \notin DOMAIN datas /\ g_time < MaxTime /\ UNCHANGED result
          /\ Cardinality(DOMAIN datas) = cap
      BY <2>5, <3>1 DEF putEvict, Join
    <3>k. PICK keep : keep = (DOMAIN datas) \ {victim.key}
      OBVIOUS
    <3>3. victim.key \in DOMAIN datas /\ rb \ {victim} = {datas[x] : x \in keep}
      BY <3>k, Eviction
    <3>4. Becomes(keep, k, v, 1) /\ 1 \in 1 .. MaxTime
      BY <3>1, <3>2, <3>3, <3>k, JoinBecomes
    <3>5. Reference!Enter(k, v, keep)
      BY <3>2, <3>4, <3>k, EnterStep
    <3>6. PICK vk : vk = victim.key
      OBVIOUS
    <3>7. \A other \in keep : Reference!Before(vk, other)
      BY <3>1, <3>k, <3>6, BeginIsVictim DEF Reference!Before
    <3> QED
      BY <3>2, <3>3, <3>5, <3>6, <3>7, <3>k
         DEF Reference!PutEvict, Reference!Cardinality, Cardinality
  <2>6. CASE UNCHANGED vars
    BY <2>6 DEF vars, Reference!cacheVars
  <2> QED  BY <2>1, <2>2, <2>3, <2>4, <2>5, <2>6 DEF Next, Reference!Next
<1> QED
  BY <1>1, RefInit, InitInv, Inductive, PTL DEF Spec, ImplementsCache, Reference!Spec

-----------------------------------------------------------------------------
(* The helpers on sequences.                                               *)

\* Two sequences behind each other.
LEMMA Chained ==
  ASSUME NEW S, NEW a \in Seq(S), NEW b \in Seq(S)
  PROVE  /\ a \o b \in Seq(S) /\ Len(a \o b) = Len(a) + Len(b)
         /\ \A j \in 1 .. Len(a) : (a \o b)[j] = a[j]
         /\ \A j \in Len(a) + 1 .. Len(a) + Len(b) : (a \o b)[j] = b[j - Len(a)]
  OBVIOUS

\* erase() closes the gap.
LEMMA Removed ==
  ASSUME NEW S, NEW s \in Seq(S), NEW p \in 1 .. Len(s)
  PROVE  /\ RemoveAt(s, p) \in Seq(S) /\ Len(RemoveAt(s, p)) = Len(s) - 1
         /\ \A j \in 1 .. p - 1 : RemoveAt(s, p)[j] = s[j]
         /\ \A j \in p .. Len(s) - 1 : RemoveAt(s, p)[j] = s[j + 1]
<1> DEFINE a == SubSeq(s, 1, p - 1)
           b == SubSeq(s, p + 1, Len(s))
<1>1. a \in Seq(S) /\ Len(a) = p - 1 /\ \A j \in 1 .. p - 1 : a[j] = s[j]
  OBVIOUS
<1>2. b \in Seq(S) /\ Len(b) = Len(s) - p /\ \A j \in 1 .. Len(s) - p : b[j] = s[j + p]
  OBVIOUS
<1>3. RemoveAt(s, p) = a \o b
  BY DEF RemoveAt
<1> HIDE DEF a, b
<1>4. /\ a \o b \in Seq(S) /\ Len(a \o b) = Len(a) + Len(b)
      /\ \A j \in 1 .. Len(a) : (a \o b)[j] = a[j]
      /\ \A j \in Len(a) + 1 .. Len(a) + Len(b) : (a \o b)[j] = b[j - Len(a)]
  BY <1>1, <1>2, Chained
<1>5. Len(s) \in Nat /\ p \in Nat
  OBVIOUS
<1>6. ASSUME NEW j \in p .. Len(s) - 1 PROVE RemoveAt(s, p)[j] = s[j + 1]
  <2>1. j \in Len(a) + 1 .. Len(a) + Len(b) /\ j - Len(a) \in 1 .. Len(s) - p
        /\ (j - Len(a)) + p = j + 1
    BY <1>1, <1>2, <1>5
  <2> QED  BY <2>1, <1>2, <1>3, <1>4
<1> QED  BY <1>1, <1>2, <1>3, <1>4, <1>5, <1>6

\* push_front() moves the others by one.
LEMMA Pushed ==
  ASSUME NEW S, NEW s \in Seq(S), NEW e \in S
  PROVE  /\ Cons(e, s) \in Seq(S) /\ Len(Cons(e, s)) = Len(s) + 1
         /\ Cons(e, s)[1] = e
         /\ \A j \in 1 .. Len(s) : Cons(e, s)[j + 1] = s[j]
  BY DEF Cons

\* pop_back() leaves the others where they are.
LEMMA Popped ==
  ASSUME NEW S, NEW s \in Seq(S), Len(s) > 0
  PROVE  /\ Front(s) \in Seq(S) /\ Len(Front(s)) = Len(s) - 1
         /\ \A j \in 1 .. Len(s) - 1 : Front(s)[j] = s[j]
<1>1. Len(s) \in Nat /\ Len(s) - 1 \in Nat /\ Len(s) - 1 <= Len(s)
  OBVIOUS
<1>2. PICK p \in 0 .. Len(s) : p = Len(s) - 1
  BY SMTT(20), <1>1
<1>3. /\ SubSeq(s, 1, p) \in Seq(S) /\ Len(SubSeq(s, 1, p)) = p
      /\ \A j \in 1 .. p : SubSeq(s, 1, p)[j] = s[j]
  OBVIOUS
<1> QED  BY <1>2, <1>3 DEF Front

-----------------------------------------------------------------------------
(* What a call leaves behind.                                              *)

(* The nodes of rest are those of the keys in keep, in the order of the     *)
(* list: g says where each of them stood.                                   *)
Remains(keep, rest, g) ==
  /\ rest \in Seq(Node)
  /\ g \in [1 .. Len(rest) -> 1 .. Len(cacheList)]
  /\ \A x, y \in 1 .. Len(rest) : x < y => g[x] < g[y]
  /\ \A x \in 1 .. Len(rest) : rest[x] = cacheList[g[x]]
  /\ ToSet(rest) = {cacheMap[x] : x \in keep}
  /\ Cardinality(keep) = Len(rest)

\* n has become the first node, that of k and v, before rest, and the keys
\* outside of keep are gone
Led(keep, k, v, n, rest) ==
  /\ cacheList' = Cons(n, rest)
  /\ entry' = [x \in ToSet(rest) \cup {n} |->
                 IF x = n THEN [key |-> k, val |-> v] ELSE entry[x]]
  /\ cacheMap' = [x \in keep \cup {k} |-> IF x = k THEN n ELSE cacheMap[x]]

\* What is known of the node of a key in the map.
LEMMA OfNode ==
  ASSUME LruInv, NEW k \in DOMAIN cacheMap
  PROVE  /\ cacheMap[k] \in Node /\ k \in Key
         /\ cacheMap[k] \in DOMAIN entry
         /\ entry[cacheMap[k]] \in [key : Key, val : Val]
         /\ entry[cacheMap[k]].key = k
         /\ \A x \in DOMAIN cacheMap : cacheMap[x] = cacheMap[k] => x = k
         /\ \E p \in 1 .. Len(cacheList) : cacheList[p] = cacheMap[k]
<1>1. cacheMap[k] \in ToSet(cacheList)
  BY DEF LruInv, LruTypeOK
<1>2. \E p \in 1 .. Len(cacheList) : cacheList[p] = cacheMap[k]
  BY <1>1 DEF ToSet, LruInv, LruTypeOK
<1>3. entry[cacheMap[k]].key = k
      /\ \A x \in DOMAIN cacheMap : cacheMap[x] = cacheMap[k] => x = k
  BY DEF LruInv, LruInStep
<1> QED  BY <1>1, <1>2, <1>3 DEF LruInv, LruTypeOK

\* the new list, position by position
InFront(rest, n) ==
  /\ cacheList' \in Seq(Node) /\ Len(cacheList') = Len(rest) + 1
  /\ cacheList'[1] = n
  /\ \A x \in 1 .. Len(rest) : cacheList'[x + 1] = rest[x]
  /\ \A p \in 1 .. Len(rest) + 1 :
       p = 1 \/ (p - 1 \in 1 .. Len(rest) /\ cacheList'[p] = rest[p - 1])
  /\ ToSet(cacheList)' = ToSet(rest) \cup {n}

\* The new node stands before those that remain.
LEMMA LedList ==
  ASSUME LruInv, NEW keep \in SUBSET (DOMAIN cacheMap), NEW k \in Key, NEW v \in Val,
         NEW rest, NEW g, Remains(keep, rest, g), NEW n \in Node, Led(keep, k, v, n, rest)
  PROVE  InFront(rest, n)
<1>1. rest \in Seq(Node) /\ cacheList' = Cons(n, rest)
  BY DEF Remains, Led
<1>2. /\ cacheList' \in Seq(Node) /\ Len(cacheList') = Len(rest) + 1
      /\ cacheList'[1] = n
      /\ \A x \in 1 .. Len(rest) : cacheList'[x + 1] = rest[x]
  BY ZenonT(40), <1>1, Pushed
<1>3. \A p \in 1 .. Len(rest) + 1 :
        p = 1 \/ (p - 1 \in 1 .. Len(rest) /\ cacheList'[p] = rest[p - 1])
  <2>1. ASSUME NEW p \in 1 .. Len(rest) + 1, p # 1
        PROVE  p - 1 \in 1 .. Len(rest) /\ cacheList'[p] = rest[p - 1]
    <3>1. p - 1 \in 1 .. Len(rest) /\ (p - 1) + 1 = p
      BY <1>1, <2>1
    <3> QED  BY <1>2, <3>1
  <2> QED  BY <2>1
<1>4. DOMAIN cacheList' = 1 .. Len(rest) + 1 /\ Len(rest) \in Nat
  BY <1>1, <1>2
<1>5. ToSet(cacheList)' = {cacheList'[p] : p \in 1 .. Len(rest) + 1}
  BY <1>4 DEF ToSet
<1>6. ASSUME NEW x \in ToSet(cacheList)' PROVE x = n \/ \E y \in 1 .. Len(rest) : x = rest[y]
  BY <1>2, <1>3, <1>5
<1>7. n \in ToSet(cacheList)'
  <2>1. 1 \in 1 .. Len(rest) + 1
    BY <1>4
  <2> QED  BY <2>1, <1>2, <1>5
<1>8. ASSUME NEW y \in 1 .. Len(rest) PROVE rest[y] \in ToSet(cacheList)'
  <2>1. y + 1 \in 1 .. Len(rest) + 1
    BY <1>4
  <2> QED  BY <2>1, <1>2, <1>5
<1>9. ToSet(cacheList)' = ToSet(rest) \cup {n}
  <2>1. ToSet(rest) = {rest[y] : y \in 1 .. Len(rest)}
    BY <1>1 DEF ToSet
  <2> QED  BY <2>1, <1>6, <1>7, <1>8
<1> QED  BY <1>2, <1>3, <1>9 DEF InFront

(* A call that puts a node in front of the nodes it keeps preserves what    *)
(* the cache relies on.                                                     *)
LEMMA LedInv ==
  ASSUME LruInv, NEW keep \in SUBSET (DOMAIN cacheMap), NEW k \in Key, k \notin keep,
         NEW v \in Val, NEW rest, NEW g, Remains(keep, rest, g), Len(rest) < cap,
         NEW n \in Node, n \notin {cacheMap[x] : x \in keep},
         Led(keep, k, v, n, rest), item' \in Val \cup {Miss}
  PROVE  LruInv'
<1>r. PICK R : R = ToSet(rest)
  OBVIOUS
<1>1. R = {cacheMap[x] : x \in keep} /\ Len(rest) \in Nat /\ n \notin R
  <2>1. rest \in Seq(Node) /\ R = {cacheMap[x] : x \in keep}
    BY <1>r DEF Remains
  <2> QED  BY <2>1
<1>2. /\ cacheList' \in Seq(Node) /\ Len(cacheList') = Len(rest) + 1
      /\ cacheList'[1] = n
      /\ \A p \in 1 .. Len(rest) + 1 :
           p = 1 \/ (p - 1 \in 1 .. Len(rest) /\ cacheList'[p] = rest[p - 1])
      /\ ToSet(cacheList)' = R \cup {n}
  <2>1. InFront(rest, n)
    BY LedList
  <2> QED  BY <2>1, <1>r DEF InFront
<1>3. /\ DOMAIN cacheMap' = keep \cup {k} /\ cacheMap'[k] = n
      /\ \A x \in keep : cacheMap'[x] = cacheMap[x]
      /\ cacheMap' = [x \in keep \cup {k} |-> IF x = k THEN n ELSE cacheMap[x]]
  BY DEF Led
<1>4. entry' = [x \in R \cup {n} |-> IF x = n THEN [key |-> k, val |-> v] ELSE entry[x]]
  BY <1>r DEF Led
<1>5. \A x \in R : x # n /\ entry[x] \in [key : Key, val : Val]
  BY <1>1, OfNode
<1>6. LruTypeOK'
  <2>1. entry' \in [R \cup {n} -> [key : Key, val : Val]]
    <3>1. [key |-> k, val |-> v] \in [key : Key, val : Val]
      OBVIOUS
    <3> QED  BY <1>4, <1>5, <3>1
  <2>2. \A x \in keep \cup {k} : cacheMap'[x] \in R \cup {n}
    BY <1>1, <1>3
  <2>3. cacheMap' \in [DOMAIN cacheMap' -> R \cup {n}]
    BY <1>3, <2>2
  <2>4. DOMAIN cacheMap' \subseteq Key
    BY <1>3, OfNode
  <2> QED  BY <1>2, <2>1, <2>3, <2>4 DEF LruTypeOK
<1>7. LruInStep'
  <2>1. ASSUME NEW x \in keep \cup {k} PROVE entry'[cacheMap'[x]].key = x
    <3>1. CASE x = k
      BY <3>1, <1>3, <1>4
    <3>2. CASE x \in keep
      <4>1. cacheMap'[x] = cacheMap[x] /\ cacheMap[x] \in R /\ entry[cacheMap[x]].key = x
        BY <3>2, <1>1, <1>3, OfNode
      <4> QED  BY <4>1, <1>4, <1>5
    <3> QED  BY <3>1, <3>2
  <2>2. R \cup {n} = {cacheMap'[x] : x \in keep \cup {k}}
    <3>1. \A x \in keep \cup {k} : cacheMap'[x] \in R \cup {n}
      BY <1>1, <1>3
    <3>2. ASSUME NEW y \in R \cup {n} PROVE \E x \in keep \cup {k} : y = cacheMap'[x]
      BY <1>1, <1>3
    <3> QED  BY <3>1, <3>2
  <2>3. \A x \in DOMAIN cacheMap' : entry'[cacheMap'[x]].key = x
    BY <1>3, <2>1
  <2>4. ToSet(cacheList)' = {cacheMap'[x] : x \in DOMAIN cacheMap'}
    BY <1>2, <1>3, <2>2
  <2> QED  BY <2>3, <2>4 DEF LruInStep
<1>8. LruOnce'
  <2>1. ASSUME NEW p \in 1 .. Len(rest), NEW q \in 1 .. Len(rest), rest[p] = rest[q]
        PROVE  p = q
    <3>1. /\ g[p] \in 1 .. Len(cacheList) /\ g[q] \in 1 .. Len(cacheList)
          /\ cacheList[g[p]] = cacheList[g[q]]
          /\ p < q => g[p] < g[q]
          /\ q < p => g[q] < g[p]
      BY <2>1 DEF Remains
    <3>2. g[p] = g[q]
      BY <3>1 DEF LruInv, LruOnce, LruTypeOK
    <3> QED  BY <3>1, <3>2
  <2>2. \A p \in 1 .. Len(rest) : rest[p] # n
    BY <1>1, <1>r DEF ToSet
  <2>3. \A p, q \in DOMAIN cacheList' : cacheList'[p] = cacheList'[q] => p = q
    <3>1. DOMAIN cacheList' = 1 .. Len(rest) + 1
      BY <1>2
    <3>2. ASSUME NEW p \in 1 .. Len(rest) + 1, NEW q \in 1 .. Len(rest) + 1,
                 cacheList'[p] = cacheList'[q]
          PROVE  p = q
      <4>1. p = 1 \/ (p - 1 \in 1 .. Len(rest) /\ cacheList'[p] = rest[p - 1])
        BY <1>2
      <4>2. q = 1 \/ (q - 1 \in 1 .. Len(rest) /\ cacheList'[q] = rest[q - 1])
        BY <1>2
      <4>3. CASE p = 1 \/ q = 1
        BY <3>2, <4>1, <4>2, <4>3, <2>2, <1>2
      <4>4. CASE p # 1 /\ q # 1
        <5>1. p - 1 = q - 1
          BY <3>2, <4>1, <4>2, <4>4, <2>1
        <5> QED  BY <5>1
      <4> QED  BY <4>3, <4>4
    <3> QED  BY <3>1, <3>2
  <2>4. IsFiniteSet(keep \cup {k}) /\ Cardinality(keep \cup {k}) = Len(rest) + 1
    <3>1. IsFiniteSet(keep)
      BY FS_Subset DEF LruInv, LruOnce
    <3> QED  BY <3>1, FS_AddElement DEF Remains
  <2> QED  BY <1>2, <1>3, <2>3, <2>4 DEF LruOnce
<1>9. Len(cacheList') <= cap
  BY <1>1, <1>2, CapAssumption
<1> QED  BY <1>6, <1>7, <1>8, <1>9 DEF LruInv

-----------------------------------------------------------------------------
(* Each call that changes the list leads with one node.                     *)

\* key k leads with value v, before the keys in keep
Leads(keep, k, v) ==
  \E n \in Node, rest \in Seq(Node) :
    \E g \in [1 .. Len(rest) -> 1 .. Len(cacheList)] :
      /\ Remains(keep, rest, g) /\ Len(rest) < cap
      /\ n \notin {cacheMap[x] : x \in keep}
      /\ Led(keep, k, v, n, rest)

\* There are as many nodes in the list as keys, each once.
LEMMA ListFacts ==
  ASSUME LruInv
  PROVE  /\ cacheList \in Seq(Node) /\ Len(cacheList) \in Nat
         /\ Len(cacheList) <= cap /\ cap \in Nat /\ cap > 0
         /\ \A p, q \in 1 .. Len(cacheList) : cacheList[p] = cacheList[q] => p = q
         /\ ToSet(cacheList) = {cacheMap[x] : x \in DOMAIN cacheMap}
         /\ ToSet(cacheList) = {cacheList[p] : p \in 1 .. Len(cacheList)}
         /\ IsFiniteSet(DOMAIN cacheMap)
         /\ Cardinality(DOMAIN cacheMap) = Len(cacheList)
<1>1. cacheList \in Seq(Node) /\ cap \in Nat /\ cap # 0
  BY CapAssumption, LruAssumption DEF LruInv, LruTypeOK
<1>2. ToSet(cacheList) = {cacheList[p] : p \in 1 .. Len(cacheList)}
  BY <1>1 DEF ToSet
<1>3. \A p, q \in 1 .. Len(cacheList) : cacheList[p] = cacheList[q] => p = q
  <2>1. DOMAIN cacheList = 1 .. Len(cacheList)
    BY <1>1
  <2> QED  BY <2>1 DEF LruInv, LruOnce
<1>4. Len(cacheList) \in Nat /\ Len(cacheList) <= cap /\ cap > 0
  BY <1>1 DEF LruInv
<1>5. /\ ToSet(cacheList) = {cacheMap[x] : x \in DOMAIN cacheMap}
      /\ IsFiniteSet(DOMAIN cacheMap) /\ Cardinality(DOMAIN cacheMap) = Len(cacheList)
  BY DEF LruInv, LruInStep, LruOnce
<1> QED  BY <1>1, <1>2, <1>3, <1>4, <1>5

\* rest is the list without the node at position at
Closed(rest, at) ==
  /\ rest \in Seq(Node) /\ Len(rest) = Len(cacheList) - 1
  /\ \A j \in 1 .. at - 1 : rest[j] = cacheList[j]
  /\ \A j \in at .. Len(cacheList) - 1 : rest[j] = cacheList[j + 1]

\* the nodes of rest are those of the keys in keep, in the order of the list
StillListed(keep, rest) ==
  \E g \in [1 .. Len(rest) -> 1 .. Len(cacheList)] : Remains(keep, rest, g)

(* Taking the node of key k out of the list leaves those of the other keys  *)
(* in their order.                                                          *)
LEMMA RemainsWithout ==
  ASSUME LruInv, NEW k \in DOMAIN cacheMap, NEW at \in 1 .. Len(cacheList),
         cacheList[at] = cacheMap[k], NEW rest, Closed(rest, at)
  PROVE  StillListed((DOMAIN cacheMap) \ {k}, rest)
<1>c. /\ rest \in Seq(Node) /\ Len(rest) = Len(cacheList) - 1
      /\ \A j \in 1 .. at - 1 : rest[j] = cacheList[j]
      /\ \A j \in at .. Len(cacheList) - 1 : rest[j] = cacheList[j + 1]
  BY DEF Closed
<1> DEFINE g == [x \in 1 .. Len(rest) |-> IF x < at THEN x ELSE x + 1]
           keep == (DOMAIN cacheMap) \ {k}
<1>0. Len(cacheList) \in Nat /\ at \in Nat /\ Len(rest) \in Nat
      /\ Len(rest) = Len(cacheList) - 1
  BY <1>c, ListFacts
<1>1. \A x \in 1 .. Len(rest) : /\ g[x] \in 1 .. Len(cacheList) /\ g[x] # at
                                /\ g[x] = IF x < at THEN x ELSE x + 1
  BY <1>0
<1>2. g \in [1 .. Len(rest) -> 1 .. Len(cacheList)]
  BY <1>1
<1>3. \A x, y \in 1 .. Len(rest) : x < y => g[x] < g[y]
  BY <1>0, <1>1
<1>4. \A x \in 1 .. Len(rest) : rest[x] = cacheList[g[x]]
  <2>1. ASSUME NEW x \in 1 .. Len(rest) PROVE rest[x] = cacheList[g[x]]
    <3>1. CASE x < at
      <4>1. x \in 1 .. at - 1 /\ g[x] = x
        BY <3>1, <1>0, <1>1
      <4> QED  BY <4>1, <1>c
    <3>2. CASE ~ (x < at)
      <4>1. x \in at .. Len(cacheList) - 1 /\ g[x] = x + 1
        BY <3>2, <1>0, <1>1
      <4> QED  BY <4>1, <1>c
    <3> QED  BY <3>1, <3>2
  <2> QED  BY <2>1
<1>5. \A p \in 1 .. Len(cacheList) : p # at => \E x \in 1 .. Len(rest) : g[x] = p
  <2>1. ASSUME NEW p \in 1 .. Len(cacheList), p # at
        PROVE  \E x \in 1 .. Len(rest) : g[x] = p
    <3>1. CASE p < at
      <4>1. p \in 1 .. Len(rest) /\ g[p] = p
        BY <3>1, <1>0, <1>1
      <4> QED  BY <4>1
    <3>2. CASE p > at
      <4>1. p - 1 \in 1 .. Len(rest) /\ ~ (p - 1 < at) /\ (p - 1) + 1 = p
        BY <3>2, <1>0
      <4>2. g[p - 1] = p
        BY <4>1, <1>1
      <4> QED  BY <4>1, <4>2
    <3> QED  BY <2>1, <3>1, <3>2, <1>0
  <2> QED  BY <2>1
<1> HIDE DEF g
<1>6. ToSet(rest) = {cacheMap[x] : x \in keep}
  <2>1. ToSet(rest) = {rest[x] : x \in 1 .. Len(rest)}
    BY <1>c DEF ToSet
  <2>2. ASSUME NEW x \in 1 .. Len(rest) PROVE \E y \in keep : rest[x] = cacheMap[y]
    <3>1. rest[x] = cacheList[g[x]] /\ g[x] \in 1 .. Len(cacheList) /\ g[x] # at
      BY <1>1, <1>4
    <3>2. rest[x] # cacheMap[k]
      BY <3>1, ListFacts
    <3>3. PICK y \in DOMAIN cacheMap : rest[x] = cacheMap[y]
      <4>1. rest[x] \in ToSet(cacheList)
        BY <3>1, ListFacts
      <4> QED  BY <4>1, ListFacts
    <3> QED  BY <3>2, <3>3
  <2>3. ASSUME NEW y \in keep PROVE \E x \in 1 .. Len(rest) : rest[x] = cacheMap[y]
    <3>1. PICK p \in 1 .. Len(cacheList) : cacheList[p] = cacheMap[y]
      BY OfNode
    <3>2. cacheMap[y] # cacheMap[k]
      BY OfNode
    <3>3. PICK x \in 1 .. Len(rest) : g[x] = p
      BY <3>1, <3>2, <1>5
    <3> QED  BY <3>1, <3>3, <1>4
  <2> HIDE DEF keep
  <2>4. ASSUME NEW z PROVE z \in {rest[x] : x \in 1 .. Len(rest)} <=>
                           z \in {cacheMap[x] : x \in keep}
    BY <2>2, <2>3
  <2> QED  BY <2>1, <2>4
<1>7. Cardinality(keep) = Len(rest)
  BY <1>0, ListFacts, FS_RemoveElement
<1>8. Remains(keep, rest, g)
  BY <1>c, <1>2, <1>3, <1>4, <1>6, <1>7 DEF Remains
<1> QED  BY <1>2, <1>8 DEF StillListed

\* A hit moves the node of its key to the front.
LEMMA TouchLeads ==
  ASSUME LruInv, NEW k \in DOMAIN cacheMap, NEW v \in Val, LruTouch(k, v)
  PROVE  Leads((DOMAIN cacheMap) \ {k}, k, v)
<1>1. PICK n \in Node : /\ n \notin ToSet(cacheList)
                        /\ Lead(n, k, v, Without(cacheMap[k]), cacheMap)
  BY DEF LruTouch
<1>2. PICK at \in 1 .. Len(cacheList) :
        /\ at = (CHOOSE p \in DOMAIN cacheList : cacheList[p] = cacheMap[k])
        /\ cacheList[at] = cacheMap[k]
  <2>1. \E p \in DOMAIN cacheList : cacheList[p] = cacheMap[k]
    BY OfNode, ListFacts
  <2>2. DOMAIN cacheList = 1 .. Len(cacheList)
    BY ListFacts
  <2> QED  BY <2>1, <2>2
<1>3. PICK rest : rest = RemoveAt(cacheList, at)
  OBVIOUS
<1>4. Closed(rest, at)
  BY <1>3, Removed, ListFacts DEF Closed
<1>5. PICK g \in [1 .. Len(rest) -> 1 .. Len(cacheList)] :
        Remains((DOMAIN cacheMap) \ {k}, rest, g)
  <2>1. StillListed((DOMAIN cacheMap) \ {k}, rest)
    BY <1>2, <1>4, RemainsWithout
  <2> QED  BY <2>1 DEF StillListed
<1>6. Len(rest) < cap /\ rest \in Seq(Node)
  BY <1>4, ListFacts DEF Closed
<1>7. n \notin {cacheMap[x] : x \in (DOMAIN cacheMap) \ {k}}
  BY <1>1, ListFacts
<1>8. Led((DOMAIN cacheMap) \ {k}, k, v, n, rest)
  <2>1. Without(cacheMap[k]) = rest
    BY <1>2, <1>3 DEF Without
  <2>2. DOMAIN cacheMap \cup {k} = ((DOMAIN cacheMap) \ {k}) \cup {k}
    OBVIOUS
  <2> QED  BY <1>1, <2>1, <2>2 DEF Lead, Led, Assign
<1> QED  BY <1>5, <1>6, <1>7, <1>8 DEF Leads

\* A new key leads before all the others, if there is room.
LEMMA NewLeads ==
  ASSUME LruInv, NEW k \in Key, NEW v \in Val, lruPutNew(k, v)
  PROVE  Leads(DOMAIN cacheMap, k, v) /\ Len(cacheList) < cap
<1>1. PICK n \in Node : /\ n \notin ToSet(cacheList)
                        /\ Lead(n, k, v, cacheList, cacheMap)
  BY DEF lruPutNew
<1>2. Len(cacheList) < cap
  BY ListFacts DEF lruPutNew
<1> DEFINE g == [x \in 1 .. Len(cacheList) |-> x]
<1>3. g \in [1 .. Len(cacheList) -> 1 .. Len(cacheList)]
      /\ \A x \in 1 .. Len(cacheList) : g[x] = x
  OBVIOUS
<1> HIDE DEF g
<1>4. Remains(DOMAIN cacheMap, cacheList, g)
  BY <1>3, ListFacts DEF Remains
<1>5. n \notin {cacheMap[x] : x \in DOMAIN cacheMap}
  BY <1>1, ListFacts
<1>6. Led(DOMAIN cacheMap, k, v, n, cacheList)
  BY <1>1 DEF Lead, Led, Assign
<1> QED  BY <1>2, <1>3, <1>4, <1>5, <1>6, ListFacts DEF Leads

\* The key of the last node, and where it stands.
LEMMA LastKey ==
  ASSUME LruInv, Len(cacheList) = cap
  PROVE  /\ Len(cacheList) \in 1 .. Len(cacheList)
         /\ entry[Last(cacheList)].key \in DOMAIN cacheMap
         /\ cacheMap[entry[Last(cacheList)].key] = cacheList[Len(cacheList)]
<1>1. Len(cacheList) \in 1 .. Len(cacheList)
  BY ListFacts
<1>2. PICK y \in DOMAIN cacheMap : cacheMap[y] = cacheList[Len(cacheList)]
  <2>1. cacheList[Len(cacheList)] \in ToSet(cacheList)
    BY <1>1, ListFacts
  <2> QED  BY <2>1, ListFacts
<1>3. entry[Last(cacheList)].key = y
  BY <1>2, OfNode DEF Last
<1> QED  BY <1>1, <1>2, <1>3

\* A new key leads in the place of the key of the last node, if there is no room.
LEMMA EvictLeads ==
  ASSUME LruInv, NEW k \in Key, NEW v \in Val, lruPutEvict(k, v),
         NEW last, last = entry[Last(cacheList)].key
  PROVE  Leads((DOMAIN cacheMap) \ {last}, k, v)
<1>1. Len(cacheList) = cap
  BY DEF lruPutEvict
<1>2. PICK n \in Node :
        /\ n \notin ToSet(Front(cacheList))
        /\ Lead(n, k, v, Front(cacheList),
                [x \in DOMAIN cacheMap \ {last} |-> cacheMap[x]])
  BY DEF lruPutEvict
<1>3. /\ Len(cacheList) \in 1 .. Len(cacheList)
      /\ last \in DOMAIN cacheMap
      /\ cacheList[Len(cacheList)] = cacheMap[last]
  BY <1>1, LastKey
<1>4. PICK rest : rest = Front(cacheList)
  OBVIOUS
<1>5. /\ rest \in Seq(Node) /\ Len(rest) = Len(cacheList) - 1
      /\ \A j \in 1 .. Len(cacheList) - 1 : rest[j] = cacheList[j]
  BY <1>3, <1>4, Popped, ListFacts
<1>6. PICK g \in [1 .. Len(rest) -> 1 .. Len(cacheList)] :
        Remains((DOMAIN cacheMap) \ {last}, rest, g)
  <2>1. \A j \in Len(cacheList) .. Len(cacheList) - 1 : rest[j] = cacheList[j + 1]
    BY ListFacts
  <2>2. Closed(rest, Len(cacheList))
    BY <1>5, <2>1 DEF Closed
  <2>3. StillListed((DOMAIN cacheMap) \ {last}, rest)
    BY <1>3, <2>2, RemainsWithout
  <2> QED  BY <2>3 DEF StillListed
<1>7. Len(rest) < cap
  BY <1>5, ListFacts
<1>8. n \notin {cacheMap[x] : x \in (DOMAIN cacheMap) \ {last}}
  BY <1>2, <1>4, <1>6 DEF Remains
<1>9. Led((DOMAIN cacheMap) \ {last}, k, v, n, rest)
  <2>1. PICK d : d = [x \in DOMAIN cacheMap \ {last} |-> cacheMap[x]]
    OBVIOUS
  <2>2. /\ DOMAIN d = (DOMAIN cacheMap) \ {last}
        /\ \A x \in (DOMAIN cacheMap) \ {last} : d[x] = cacheMap[x]
    BY <2>1
  <2>3. Assign(d, k, n) = [x \in ((DOMAIN cacheMap) \ {last}) \cup {k} |->
                             IF x = k THEN n ELSE cacheMap[x]]
    BY <2>2 DEF Assign
  <2> QED  BY <1>2, <1>4, <2>1, <2>3 DEF Lead, Led
<1> QED  BY <1>5, <1>6, <1>7, <1>8, <1>9 DEF Leads

-----------------------------------------------------------------------------
(* The invariant.                                                          *)

\* An empty cache satisfies the invariant.
LEMMA LruInitInv == LruInit => LruInv
<1> SUFFICES ASSUME LruInit PROVE LruInv
  OBVIOUS
<1>1. cacheList = <<>> /\ DOMAIN cacheList = {} /\ Len(cacheList) = 0
      /\ cacheList \in Seq(Node)
  BY DEF LruInit
<1>2. ToSet(cacheList) = {} /\ DOMAIN cacheMap = {} /\ DOMAIN entry = {}
  BY <1>1 DEF LruInit, ToSet
<1>3. LruTypeOK
  BY <1>1, <1>2 DEF LruInit, LruTypeOK
<1>4. LruInStep
  BY <1>2 DEF LruInStep
<1>5. LruOnce
  BY <1>1, <1>2, FS_EmptySet DEF LruOnce
<1> QED  BY <1>1, <1>3, <1>4, <1>5, CapAssumption DEF LruInv

\* A call that leads with a node preserves the invariant.
LEMMA LeadsInv ==
  ASSUME LruInv, NEW keep \in SUBSET (DOMAIN cacheMap), NEW k \in Key, k \notin keep,
         NEW v \in Val, Leads(keep, k, v), item' \in Val \cup {Miss}
  PROVE  LruInv'
<1>1. PICK n \in Node, rest \in Seq(Node) :
        \E g \in [1 .. Len(rest) -> 1 .. Len(cacheList)] :
          /\ Remains(keep, rest, g) /\ Len(rest) < cap
          /\ n \notin {cacheMap[x] : x \in keep}
          /\ Led(keep, k, v, n, rest)
  BY DEF Leads
<1> QED  BY <1>1, LedInv

\* Every call preserves the invariant.
LEMMA LruStepInv ==
  ASSUME LruInv, [LruNext]_lruVars PROVE LruInv'
<1>i. item \in Val \cup {Miss}
  BY DEF LruInv, LruTypeOK
<1>1. ASSUME NEW k \in Key, lruGet(k) PROVE LruInv'
  <2>1. k \in DOMAIN cacheMap /\ entry[cacheMap[k]].val \in Val
    BY <1>1, OfNode DEF lruGet
  <2>2. PICK v \in Val : v = entry[cacheMap[k]].val
    BY <2>1
  <2>3. Leads((DOMAIN cacheMap) \ {k}, k, v)
    BY <1>1, <2>1, <2>2, TouchLeads DEF lruGet
  <2>4. item' \in Val \cup {Miss}
    BY <1>1, <2>2 DEF lruGet
  <2> QED  BY <2>1, <2>3, <2>4, LeadsInv
<1>2. ASSUME NEW k \in Key, lruGetMissing(k) PROVE LruInv'
  BY <1>2 DEF lruGetMissing, LruInv, LruTypeOK, LruInStep, LruOnce
<1>3. ASSUME NEW k \in Key, NEW v \in Val, lruPutPresent(k, v) PROVE LruInv'
  <2>1. Leads((DOMAIN cacheMap) \ {k}, k, v)
    BY <1>3, TouchLeads DEF lruPutPresent
  <2> QED  BY <2>1, <1>3, <1>i, LeadsInv DEF lruPutPresent
<1>4. ASSUME NEW k \in Key, NEW v \in Val, lruPutNew(k, v) PROVE LruInv'
  <2>1. Leads(DOMAIN cacheMap, k, v)
    BY <1>4, NewLeads
  <2> QED  BY <2>1, <1>4, <1>i, LeadsInv DEF lruPutNew
<1>5. ASSUME NEW k \in Key, NEW v \in Val, lruPutEvict(k, v) PROVE LruInv'
  <2>1. PICK last : last = entry[Last(cacheList)].key
    OBVIOUS
  <2>2. Leads((DOMAIN cacheMap) \ {last}, k, v)
    BY <1>5, <2>1, EvictLeads
  <2>3. k \notin (DOMAIN cacheMap) \ {last} /\ UNCHANGED item
    BY <1>5 DEF lruPutEvict
  <2> QED  BY <2>2, <2>3, <1>i, LeadsInv
<1>6. CASE UNCHANGED lruVars
  BY <1>6 DEF lruVars, LruInv, LruTypeOK, LruInStep, LruOnce
<1> QED  BY <1>1, <1>2, <1>3, <1>4, <1>5, <1>6 DEF LruNext

(* The map never holds a dangling iterator, the list has no entry that the  *)
(* map does not know, and the capacity is kept, whatever calls are made.    *)
THEOREM LruInductive == LruSpec => []LruInv
<1> QED  BY LruInitInv, LruStepInv, PTL DEF LruSpec

-----------------------------------------------------------------------------
(* The refinement.                                                         *)

LruValues == [k \in DOMAIN cacheMap |-> entry[cacheMap[k]].val]
Uses == [k \in DOMAIN cacheMap |-> 0]
LruOlder == {p \in (DOMAIN cacheMap) \X (DOMAIN cacheMap) : Behind(p[1], p[2])}

(* Of two keys that remain, the one that stood further back still does; and *)
(* the new key stands before all of them.                                   *)
LEMMA LedBehind ==
  ASSUME LruInv, LruInv', NEW keep \in SUBSET (DOMAIN cacheMap), NEW k \in Key,
         k \notin keep, NEW v \in Val, NEW n \in Node, NEW rest, NEW g,
         Remains(keep, rest, g), Led(keep, k, v, n, rest),
         n \notin {cacheMap[x] : x \in keep},
         NEW a \in keep \cup {k}, NEW b \in keep \cup {k}
  PROVE  Behind(a, b)' <=> \/ a \in keep /\ b \in keep /\ Behind(a, b)
                           \/ a \in keep /\ b = k
<1> DEFINE m == Len(rest)
<1>1. /\ rest \in Seq(Node) /\ m \in Nat
      /\ g \in [1 .. m -> 1 .. Len(cacheList)]
      /\ \A x, y \in 1 .. m : x < y => g[x] < g[y]
      /\ \A x \in 1 .. m : rest[x] = cacheList[g[x]]
  BY DEF Remains
<1>2. \A x \in keep : \E y \in 1 .. m : rest[y] = cacheMap[x]
  <2>1. ToSet(rest) = {cacheMap[x] : x \in keep}
    BY DEF Remains
  <2>2. ToSet(rest) = {rest[y] : y \in 1 .. m}
    BY <1>1 DEF ToSet
  <2> QED  BY <2>1, <2>2
<1>3. /\ cacheList' \in Seq(Node) /\ Len(cacheList') = m + 1
      /\ cacheList'[1] = n
      /\ \A x \in 1 .. m : cacheList'[x + 1] = rest[x]
      /\ DOMAIN cacheList' = 1 .. m + 1
  <2>1. InFront(rest, n)
    BY LedList
  <2> QED  BY <2>1, <1>1 DEF InFront
<1>4. /\ cacheMap'[k] = n
      /\ \A x \in keep : cacheMap'[x] = cacheMap[x]
  BY DEF Led
<1>5. /\ \A p, q \in 1 .. Len(cacheList) : cacheList[p] = cacheList[q] => p = q
      /\ \A p, q \in 1 .. m + 1 : cacheList'[p] = cacheList'[q] => p = q
      /\ DOMAIN cacheList = 1 .. Len(cacheList) /\ Len(cacheList) \in Nat
  BY SMTT(20), <1>3, ListFacts DEF LruInv, LruOnce
<1> HIDE DEF m
<1>6. ASSUME NEW x \in keep, NEW y \in 1 .. m, rest[y] = cacheMap[x]
      PROVE  /\ \A p \in 1 .. m + 1 : cacheList'[p] = cacheMap'[x] <=> p = y + 1
             /\ \A p \in 1 .. Len(cacheList) : cacheList[p] = cacheMap[x] <=> p = g[y]
             /\ y + 1 \in 1 .. m + 1 /\ g[y] \in 1 .. Len(cacheList)
  <2>1. y + 1 \in 1 .. m + 1 /\ g[y] \in 1 .. Len(cacheList)
    BY <1>1
  <2>2. cacheList'[y + 1] = cacheMap'[x] /\ cacheList[g[y]] = cacheMap[x]
    BY <1>6, <1>1, <1>3, <1>4
  <2>3. \A p \in 1 .. m + 1 : cacheList'[p] = cacheMap'[x] <=> p = y + 1
    BY <2>1, <2>2, <1>5
  <2>4. \A p \in 1 .. Len(cacheList) : cacheList[p] = cacheMap[x] <=> p = g[y]
    BY <2>1, <2>2, <1>5
  <2> QED  BY <2>1, <2>3, <2>4
<1>7. \A p \in 1 .. m + 1 : cacheList'[p] = cacheMap'[k] <=> p = 1
  <2>1. 1 \in 1 .. m + 1
    BY <1>1
  <2> QED  BY <2>1, <1>3, <1>4, <1>5
<1>8. CASE a \in keep /\ b \in keep
  <2>1. PICK x \in 1 .. m : rest[x] = cacheMap[a]
    BY <1>8, <1>2
  <2>2. PICK y \in 1 .. m : rest[y] = cacheMap[b]
    BY <1>8, <1>2
  <2>3. Behind(a, b)' <=> y + 1 < x + 1
    BY <1>3, <1>6, <1>8, <2>1, <2>2 DEF Behind
  <2>4. Behind(a, b) <=> g[y] < g[x]
    BY <1>5, <1>6, <1>8, <2>1, <2>2 DEF Behind
  <2>5. g[y] < g[x] <=> y < x
    <3>1. y < x => g[y] < g[x]
      BY <1>1
    <3>2. x < y => g[x] < g[y]
      BY <1>1
    <3>3. x = y => g[x] = g[y]
      OBVIOUS
    <3>4. g[x] \in Int /\ g[y] \in Int /\ x \in Int /\ y \in Int
      BY <1>1, <1>5
    <3> QED  BY <3>1, <3>2, <3>3, <3>4
  <2>6. y + 1 < x + 1 <=> y < x
    BY <1>1
  <2> QED  BY <1>8, <2>3, <2>4, <2>5, <2>6
<1>9. CASE a \in keep /\ b = k
  <2>1. PICK x \in 1 .. m : rest[x] = cacheMap[a]
    BY <1>9, <1>2
  <2>2. Behind(a, b)' <=> 1 < x + 1
    <3>1. 1 \in 1 .. m + 1
      BY <1>1
    <3> QED  BY <3>1, <1>3, <1>6, <1>7, <1>9, <2>1 DEF Behind
  <2>3. 1 < x + 1
    BY <1>1
  <2> QED  BY <1>9, <2>2, <2>3
<1>10. CASE a = k
  <2>1. ~ Behind(a, b)'
    BY <1>3, <1>7, <1>10, <1>1 DEF Behind
  <2> QED  BY <1>10, <2>1
<1> QED  BY <1>8, <1>9, <1>10

\* What the reference sees of a key that leads.
LEMMA LeadsAbstract ==
  ASSUME LruInv, LruInv', NEW keep \in SUBSET (DOMAIN cacheMap), NEW k \in Key,
         k \notin keep, NEW v \in Val, Leads(keep, k, v)
  PROVE  /\ (DOMAIN cacheMap)' = keep \cup {k}
         /\ LruValues' = [x \in keep \cup {k} |-> IF x = k THEN v ELSE LruValues[x]]
         /\ Uses' = [x \in keep \cup {k} |-> 0]
         /\ LruOlder' = {p \in LruOlder : p[1] \in keep \ {k} /\ p[2] \in keep \ {k}}
                       \cup ((keep \ {k}) \X {k})
<1>1. PICK n \in Node, rest \in Seq(Node) :
        \E g \in [1 .. Len(rest) -> 1 .. Len(cacheList)] :
          /\ Remains(keep, rest, g) /\ Len(rest) < cap
          /\ n \notin {cacheMap[x] : x \in keep}
          /\ Led(keep, k, v, n, rest)
  BY DEF Leads
<1>2. PICK g \in [1 .. Len(rest) -> 1 .. Len(cacheList)] :
        /\ Remains(keep, rest, g)
        /\ n \notin {cacheMap[x] : x \in keep}
        /\ Led(keep, k, v, n, rest)
  BY <1>1
<1>3. /\ DOMAIN cacheMap' = keep \cup {k} /\ cacheMap'[k] = n
      /\ \A x \in keep : cacheMap'[x] = cacheMap[x]
  BY <1>2 DEF Led
<1>4. \A x \in keep : /\ x \in DOMAIN cacheMap /\ x # k
                       /\ cacheMap[x] # n /\ cacheMap[x] \in ToSet(rest)
  BY <1>2 DEF Remains
<1>5. entry'[n].val = v /\ \A x \in keep : entry'[cacheMap[x]] = entry[cacheMap[x]]
  BY <1>2, <1>4 DEF Led
<1>6. LruValues' = [x \in keep \cup {k} |-> IF x = k THEN v ELSE LruValues[x]]
  BY <1>3, <1>4, <1>5 DEF LruValues
<1>7. Uses' = [x \in keep \cup {k} |-> 0]
  BY <1>3 DEF Uses
<1>8. LruOlder' = {p \in LruOlder : p[1] \in keep \ {k} /\ p[2] \in keep \ {k}}
                  \cup ((keep \ {k}) \X {k})
  <2>1. ASSUME NEW a \in keep \cup {k}, NEW b \in keep \cup {k}
        PROVE  Behind(a, b)' <=> \/ a \in keep /\ b \in keep /\ Behind(a, b)
                                 \/ a \in keep /\ b = k
    BY <1>2, LedBehind
  <2>2. LruOlder' = {p \in (keep \cup {k}) \X (keep \cup {k}) : Behind(p[1], p[2])'}
    BY <1>3 DEF LruOlder
  <2>3. ASSUME NEW p
        PROVE  p \in LruOlder' <=>
                 p \in {q \in LruOlder : q[1] \in keep \ {k} /\ q[2] \in keep \ {k}}
                         \cup ((keep \ {k}) \X {k})
    BY <1>4, <2>1, <2>2 DEF LruOlder
  <2> QED  BY <2>3
<1> QED  BY <1>3, <1>6, <1>7, <1>8

\* An empty cache is the reference's initial state.
LEMMA LruRefInit == LruInit => LruReference!Init
<1> SUFFICES ASSUME LruInit PROVE LruReference!Init
  OBVIOUS
<1>1. DOMAIN cacheMap = {}
  BY DEF LruInit
<1> QED  BY <1>1 DEF LruInit, LruReference!Init

\* A call that touches the node of its key is a hit: it changes one entry and
\* makes its key the youngest.
LEMMA LruTouchHits ==
  ASSUME LruInv, LruInv', NEW k \in DOMAIN cacheMap, NEW v \in Val, LruTouch(k, v)
  PROVE  LruReference!Hit(k, v)
<1>1. PICK keep \in SUBSET (DOMAIN cacheMap) : keep = (DOMAIN cacheMap) \ {k}
  OBVIOUS
<1>2. Leads(keep, k, v)
  BY <1>1, TouchLeads
<1>3. k \in Key /\ k \notin keep
  BY <1>1, OfNode
<1>4. /\ (DOMAIN cacheMap)' = keep \cup {k}
      /\ LruValues' = [x \in keep \cup {k} |-> IF x = k THEN v ELSE LruValues[x]]
      /\ Uses' = [x \in keep \cup {k} |-> 0]
      /\ LruOlder' = {p \in LruOlder : p[1] \in keep \ {k} /\ p[2] \in keep \ {k}}
                    \cup ((keep \ {k}) \X {k})
  BY <1>2, <1>3, LeadsAbstract
<1>5. keep \cup {k} = DOMAIN cacheMap /\ keep \ {k} = (DOMAIN cacheMap) \ {k}
  BY <1>1
<1>6. LruValues' = [LruValues EXCEPT ![k] = v]
  BY <1>4, <1>5 DEF LruValues
<1>7. Uses' = [Uses EXCEPT ![k] = @ + 0]
  BY <1>4, <1>5 DEF Uses
<1> QED
  BY <1>4, <1>5, <1>6, <1>7
     DEF LruReference!Hit, LruReference!Younger, LruValues, Uses, LruOlder

\* A new key enters, beside the keys that are kept.
LEMMA LeadsEnters ==
  ASSUME LruInv, LruInv', NEW keep \in SUBSET (DOMAIN cacheMap), NEW k \in Key,
         k \notin keep, NEW v \in Val, Leads(keep, k, v), UNCHANGED item
  PROVE  LruReference!Enter(k, v, keep)
<1>1. /\ (DOMAIN cacheMap)' = keep \cup {k}
      /\ LruValues' = [x \in keep \cup {k} |-> IF x = k THEN v ELSE LruValues[x]]
      /\ Uses' = [x \in keep \cup {k} |-> 0]
      /\ LruOlder' = {p \in LruOlder : p[1] \in keep \ {k} /\ p[2] \in keep \ {k}}
                    \cup ((keep \ {k}) \X {k})
  BY LeadsAbstract
<1>2. Uses' = [x \in keep \cup {k} |-> IF x = k THEN 0 ELSE Uses[x]]
  BY <1>1 DEF Uses
<1> QED
  BY <1>1, <1>2 DEF LruReference!Enter, LruReference!Younger, LruValues, Uses, LruOlder

\* The key of the last node is the reference's victim.
LEMMA LastIsVictim ==
  ASSUME LruInv, Len(cacheList) = cap, NEW last, last = entry[Last(cacheList)].key,
         NEW other \in (DOMAIN cacheMap) \ {last}
  PROVE  LruReference!Before(last, other)
<1>1. /\ Len(cacheList) \in 1 .. Len(cacheList)
      /\ last \in DOMAIN cacheMap
      /\ cacheMap[last] = cacheList[Len(cacheList)]
  BY LastKey
<1>2. PICK p \in 1 .. Len(cacheList) : cacheList[p] = cacheMap[other]
  BY OfNode
<1>3. cacheMap[other] # cacheMap[last]
  BY <1>1, OfNode
<1>4. p < Len(cacheList) /\ DOMAIN cacheList = 1 .. Len(cacheList)
  BY <1>1, <1>2, <1>3, ListFacts
<1>5. Behind(last, other)
  BY <1>1, <1>2, <1>4 DEF Behind
<1> QED  BY <1>1, <1>5 DEF LruReference!Before

(* LruCache implements the cache that gives up the key which has not been   *)
(* touched for longest.                                                     *)
THEOREM LruImplementsReference == LruSpec => LruImplementsCache
<1>1. LruInv /\ LruInv' /\ [LruNext]_lruVars
        => [LruReference!Next]_(LruReference!cacheVars)
  <2> SUFFICES ASSUME LruInv, LruInv', [LruNext]_lruVars
               PROVE  [LruReference!Next]_(LruReference!cacheVars)
    OBVIOUS
  <2>1. ASSUME NEW k \in Key, lruGet(k) PROVE LruReference!GetHit(k)
    <3>1. PICK v \in Val : v = entry[cacheMap[k]].val
      BY <2>1, OfNode DEF lruGet
    <3>2. LruReference!Hit(k, v) /\ k \in DOMAIN cacheMap /\ item' = v
      BY <2>1, <3>1, LruTouchHits DEF lruGet
    <3> QED  BY <3>1, <3>2 DEF LruReference!GetHit, LruReference!Hit
  <2>2. ASSUME NEW k \in Key, lruGetMissing(k) PROVE LruReference!GetMiss(k)
    BY <2>2 DEF lruGetMissing, LruReference!GetMiss, Behind
  <2>3. ASSUME NEW k \in Key, NEW v \in Val, lruPutPresent(k, v)
        PROVE  LruReference!PutHit(k, v)
    BY <2>3, LruTouchHits DEF lruPutPresent, LruReference!PutHit
  <2>4. ASSUME NEW k \in Key, NEW v \in Val, lruPutNew(k, v)
        PROVE  LruReference!PutNew(k, v)
    <3>1. PICK keep : keep = DOMAIN cacheMap
      OBVIOUS
    <3>2. Leads(keep, k, v) /\ Len(cacheList) < cap
      BY <2>4, <3>1, NewLeads
    <3>3. k \notin keep /\ UNCHANGED item
      BY <2>4, <3>1 DEF lruPutNew
    <3>4. LruReference!Enter(k, v, keep)
      BY <3>1, <3>2, <3>3, LeadsEnters
    <3>5. Cardinality(DOMAIN cacheMap) < cap
      BY <3>2, ListFacts
    <3> QED
      BY <3>1, <3>3, <3>4, <3>5
         DEF LruReference!PutNew, LruReference!Cardinality, Cardinality
  <2>5. ASSUME NEW k \in Key, NEW v \in Val, lruPutEvict(k, v)
        PROVE  LruReference!PutEvict(k, v)
    <3>1. PICK last : last = entry[Last(cacheList)].key
      OBVIOUS
    <3>2. PICK keep : keep = (DOMAIN cacheMap) \ {last}
      OBVIOUS
    <3>3. Leads(keep, k, v)
      BY <2>5, <3>1, <3>2, EvictLeads
    <3>4. k \notin DOMAIN cacheMap /\ UNCHANGED item /\ Len(cacheList) = cap
      BY <2>5 DEF lruPutEvict
    <3>5. LruReference!Enter(k, v, keep)
      BY <3>2, <3>3, <3>4, LeadsEnters
    <3>6. last \in DOMAIN cacheMap
      BY <3>1, <3>4, LastKey
    <3>7. \A other \in keep : LruReference!Before(last, other)
      BY <3>1, <3>2, <3>4, LastIsVictim DEF LruReference!Before
    <3>8. Cardinality(DOMAIN cacheMap) = cap
      BY <3>4, ListFacts
    <3> QED
      BY <3>2, <3>4, <3>5, <3>6, <3>7, <3>8
         DEF LruReference!PutEvict, LruReference!Cardinality, Cardinality
  <2>6. CASE UNCHANGED lruVars
    BY <2>6 DEF lruVars, LruReference!cacheVars, Behind
  <2> QED
    BY <2>1, <2>2, <2>3, <2>4, <2>5, <2>6 DEF LruNext, LruReference!Next
<1> QED
  BY <1>1, LruRefInit, LruInductive, PTL
     DEF LruSpec, LruImplementsCache, LruReference!Spec

-----------------------------------------------------------------------------
(* KmpMatcher.                                                              *)

\* The invariant holds before the first turn.
LEMMA MatchInitially == MatchInit => MatchInv
  BY MatcherAssumption DEF MatchInit, MatchInv, Occurs, FirstAlone

\* A turn that continues the match leaves where it begins.
LEMMA TurnContinues ==
  ASSUME MatchInv, Turn, pat[matched + 1] = text[i + 1]
  PROVE  MatchInv'
<1>1. /\ pat' = pat /\ text' = text /\ i' = i + 1 /\ matched' = matched + 1
      /\ ret' = IF matched' = Len(pat) THEN i + 1 - matched' ELSE ret
  BY DEF MatchInv, Turn, Kept
<1>2. /\ pat \in Seq(Letter) \ {<<>>} /\ text \in Seq(Letter) /\ i \in 0 .. Len(text)
      /\ matched \in 0 .. i /\ ret = -2 /\ i < Len(text) /\ matched < Len(pat)
  BY DEF MatchInv, Turn
<1>3. \A j \in 1 .. matched' : text'[i' - matched' + j] = pat'[j]
  BY <1>1, <1>2 DEF MatchInv
<1>4. FirstAlone' => \A p \in 0 .. i' - matched' - 1 : ~ Occurs(p)'
  BY <1>1, <1>2 DEF MatchInv, FirstAlone, Occurs
<1>5. QED
  BY <1>1, <1>2, <1>3, <1>4 DEF MatchInv

\* A turn that breaks a match off begins another one at best: no occurrence
\* began inside of the old one if the first letter is alone.
LEMMA TurnBreaks ==
  ASSUME MatchInv, Turn, pat[matched + 1] # text[i + 1]
  PROVE  MatchInv'
<1>1. /\ pat' = pat /\ text' = text /\ i' = i + 1
      /\ matched' = IF pat[1] = text[i + 1] THEN 1 ELSE 0
      /\ ret' = IF matched' = Len(pat) THEN i + 1 - matched' ELSE ret
      /\ matched = 0 => pat[1] # text[i + 1]
  BY DEF MatchInv, Turn, Kept, dfs
<1>2. /\ pat \in Seq(Letter) \ {<<>>} /\ text \in Seq(Letter) /\ i \in 0 .. Len(text)
      /\ matched \in 0 .. i /\ ret = -2 /\ i < Len(text) /\ matched < Len(pat)
  BY DEF MatchInv, Turn
<1>3. Len(pat) \in Nat /\ Len(text) \in Nat /\ Len(pat) > 0
  BY <1>2
<1>4. \A j \in 1 .. matched' : text'[i' - matched' + j] = pat'[j]
  BY <1>1, <1>2
<1>5. ASSUME FirstAlone, NEW p \in 0 .. i' - matched' - 1, Occurs(p)
      PROVE  FALSE
  <2>1. p \in 0 .. i /\ (p = i => pat[1] # text[i + 1])
    BY <1>1, <1>2, <1>5
  <2>2. CASE p <= i - matched - 1
    BY <2>2, <1>2, <1>5 DEF MatchInv
  <2>3. CASE p = i - matched
    <3>1. matched + 1 \in 1 .. Len(pat) /\ p + (matched + 1) = i + 1
      BY <2>3, <1>2, <1>3
    <3>2. text[i + 1] = pat[matched + 1]
      BY <3>1, <1>5 DEF Occurs
    <3>3. QED
      BY <3>2
  <2>4. CASE p > i - matched /\ p < i
    <3>1. /\ p + 1 - (i - matched) \in 2 .. Len(pat) /\ p + 1 - (i - matched) \in 1 .. matched
          /\ i - matched + (p + 1 - (i - matched)) = p + 1
      BY <2>4, <1>2, <1>3
    <3>2. text[p + 1] = pat[p + 1 - (i - matched)]
      BY <3>1 DEF MatchInv
    <3>3. text[p + 1] = pat[1]
      BY <1>3, <1>5 DEF Occurs
    <3>4. QED
      BY <3>1, <3>2, <3>3, <1>5 DEF FirstAlone
  <2>5. CASE p = i
    <3>1. text[p + 1] = pat[1]
      BY <1>3, <1>5 DEF Occurs
    <3>2. QED
      BY <3>1, <2>1, <2>5
  <2>6. QED
    BY <2>1, <2>2, <2>3, <2>4, <2>5, <1>2
<1>6. FirstAlone' => \A p \in 0 .. i' - matched' - 1 : ~ Occurs(p)'
  BY <1>5, <1>1 DEF FirstAlone, Occurs
<1>7. QED
  BY <1>1, <1>2, <1>3, <1>4, <1>6 DEF MatchInv

\* The end of the text, and steps that change nothing.
LEMMA MatchStep == MatchInv /\ [MatchNext]_matchVars => MatchInv'
<1>1. CASE MatchInv /\ Turn
  BY <1>1, TurnContinues, TurnBreaks
<1>2. CASE MatchInv /\ NotFound
  BY <1>2 DEF MatchInv, NotFound, FirstAlone, Occurs
<1>3. CASE MatchInv /\ UNCHANGED matchVars
  BY <1>3 DEF MatchInv, matchVars, FirstAlone, Occurs
<1>4. QED
  BY <1>1, <1>2, <1>3 DEF MatchNext

-----------------------------------------------------------------------------
(* The invariant of the matcher holds: what is kept as matched is the       *)
(* beginning of the pattern.                                                *)
THEOREM MatchInductive == MatchSpec => []MatchInv
  BY MatchInitially, MatchStep, PTL DEF MatchSpec

(* What match() returns is a place where the pattern stands; a pattern      *)
(* whose first letter is alone in it is found at its first place, or not at *)
(* all if there is none.                                                    *)
THEOREM FirstPlacesFound == MatchSpec => []FirstFound
<1>1. MatchInv => FirstFound
  <2> SUFFICES ASSUME MatchInv PROVE FirstFound
    OBVIOUS
  <2>1. ret >= 0 => Occurs(ret)
    BY DEF MatchInv, Occurs
  <2>2. ASSUME FirstAlone, ret = -1, NEW p \in 0 .. Len(text), Occurs(p) PROVE FALSE
    <3>1. Len(pat) \in Nat /\ Len(text) \in Nat /\ p + Len(pat) <= Len(text)
      BY <2>2 DEF MatchInv, Occurs
    <3>2. i = Len(text) /\ matched < Len(pat) /\ matched \in Nat
      BY <2>2 DEF MatchInv
    <3>3. p \in 0 .. i - matched - 1
      BY <3>1, <3>2
    <3> QED  BY <2>2, <3>3 DEF MatchInv
  <2>3. FirstAlone /\ ret >= 0 => \A p \in 0 .. ret - 1 : ~ Occurs(p)
    BY DEF MatchInv
  <2> QED  BY <2>1, <2>2, <2>3 DEF FirstFound
<1>2. QED
  BY <1>1, MatchInductive, PTL

=============================================================================
