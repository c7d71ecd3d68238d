------------------------------ MODULE LfuCache ------------------------------
(***************************************************************************)
(* LFUCache (code/inc/algorithm/LFUCache.h): a map from keys to positions  *)
(* in a tree (std::set) that is ordered by the number of uses and the time *)
(* of the last one; its first element is the victim.                       *)
(*                                                                         *)
(* An iterator into the tree is the element it stands at; elements never   *)
(* change in place.  One action is one call: the cache is used by one      *)
(* thread.                                                                 *)
(***************************************************************************)
EXTENDS CacheParameters

CONSTANT MaxTime    \* bound: the uses that an int can count

ASSUME LfuAssumption == MaxTime \in Nat

VARIABLES
  rb,        \* the elements of the tree
  datas,     \* datas[k]: the position of key k's element
  g_time,    \* the number of uses so far
  result     \* what get() returned last

vars == <<rb, datas, g_time, result>>

-----------------------------------------------------------------------------
(* The tree.                                                               *)

LessNewerFirst(a, b) ==                                       \* mutant
  IF a.count = b.count THEN a.time > b.time ELSE a.count < b.count

\* operator<
Less(a, b) == IF a.count = b.count THEN a.time < b.time ELSE a.count < b.count

\* rb.begin() is at e
IsBegin(e) == e \in rb /\ \A x \in rb \ {e} : Less(e, x)

\* s.insert(e) leaves the tree alone if it has an equivalent element, and
\* returns the position of that element or of e
Equivalents(s, e) == {x \in s : ~ Less(x, e) /\ ~ Less(e, x)}
Inserted(s, e) == IF Equivalents(s, e) = {} THEN s \cup {e} ELSE s
Position(s, e) == IF Equivalents(s, e) = {} THEN e ELSE CHOOSE x \in Equivalents(s, e) : TRUE

-----------------------------------------------------------------------------
Init == rb = {} /\ datas = <<>> /\ g_time = 0 /\ result = Miss

Elem(v, k, n, t) == [val |-> v, key |-> k, count |-> n, time |-> t]

\* the element of k gives way to e: insert, erase, and note the position
Touch(k, e) ==
  /\ rb' = Inserted(rb, e) \ {datas[k]}
  /\ datas' = Assign(datas, k, Position(rb, e))

UsedSameCount(k, v) == Elem(v, datas[k].key, datas[k].count, g_time + 1) \* mutant

Used(k, v) == Elem(v, datas[k].key, datas[k].count + 1, g_time + 1)

get(k) ==
  /\ k \in DOMAIN datas /\ g_time < MaxTime
  /\ g_time' = g_time + 1
  /\ LET e == Used(k, datas[k].val)
     IN  Touch(k, e) /\ result' = Position(rb, e).val

getMissing(k) ==
  /\ k \notin DOMAIN datas
  /\ result' = Miss
  /\ UNCHANGED <<rb, datas, g_time>>

putPresent(k, v) ==
  /\ cap # 0 /\ k \in DOMAIN datas /\ g_time < MaxTime
  /\ g_time' = g_time + 1
  /\ Touch(k, Used(k, v))
  /\ UNCHANGED result

\* the element of a new key joins those in the tree s and the map d
Join(s, d, k, v) ==
  LET e == Elem(v, k, 1, g_time + 1)
  IN  /\ rb' = Inserted(s, e)
      /\ datas' = Assign(d, k, Position(s, e))
      /\ g_time' = g_time + 1
      /\ UNCHANGED result

putNew(k, v) ==
  /\ cap # 0 /\ k \notin DOMAIN datas /\ g_time < MaxTime
  /\ Cardinality(DOMAIN datas) # cap
  /\ Join(rb, datas, k, v)

putEvictMapOnly(k, v) ==                                      \* mutant
  /\ cap # 0 /\ k \notin DOMAIN datas /\ g_time < MaxTime
  /\ Cardinality(DOMAIN datas) = cap
  /\ \E victim \in rb :
       /\ IsBegin(victim)
       /\ Join(rb, [x \in DOMAIN datas \ {victim.key} |-> datas[x]], k, v)

putEvict(k, v) ==
  /\ cap # 0 /\ k \notin DOMAIN datas /\ g_time < MaxTime
  /\ Cardinality(DOMAIN datas) = cap
  /\ \E victim \in rb :
       /\ IsBegin(victim)
       /\ Join(rb \ {victim}, [x \in DOMAIN datas \ {victim.key} |-> datas[x]], k, v)

Next == \E k \in Key :
          \/ get(k) \/ getMissing(k)
          \/ \E v \in Val : putPresent(k, v) \/ putNew(k, v) \/ putEvict(k, v)

Spec == Init /\ [][Next]_vars

-----------------------------------------------------------------------------
(* Safety.                                                                 *)

TypeOK ==
  /\ \A e \in rb : /\ e = Elem(e.val, e.key, e.count, e.time)
                   /\ e.val \in Val /\ e.key \in Key
                   /\ e.count \in 1 .. MaxTime /\ e.time \in 1 .. MaxTime
  /\ DOMAIN datas \subseteq Key /\ datas \in [DOMAIN datas -> rb]
  /\ g_time \in 0 .. MaxTime
  /\ result \in Val \cup {Miss}

\* the map and the tree hold the same elements
InStep ==
  /\ rb = {datas[k] : k \in DOMAIN datas}
  /\ \A k \in DOMAIN datas : datas[k].key = k

\* no two elements have the same time, so none are equivalent; and no count
\* overflows before the time does
TimesDiffer ==
  /\ \A a \in rb, b \in rb : a.time = b.time => a = b
  /\ \A e \in rb : e.time <= g_time /\ e.count <= g_time

(* What get() and put() preserve: an iterator in the map is never left      *)
(* dangling, no element stays in the tree without its key, insert() never   *)
(* meets an equivalent element, and the capacity is kept.                   *)
IInv == /\ TypeOK /\ InStep /\ TimesDiffer
        /\ IsFiniteSet(DOMAIN datas) /\ Cardinality(DOMAIN datas) <= cap

Reference == INSTANCE Cache WITH
  capacity <- cap, worth <- 1,
  resident <- DOMAIN datas,
  value <- [k \in DOMAIN datas |-> datas[k].val],
  uses <- [k \in DOMAIN datas |-> datas[k].count],
  older <- {p \in (DOMAIN datas) \X (DOMAIN datas) : datas[p[1]].time < datas[p[2]].time},
  answer <- result

(* get() returns what was put last, and the key that put() gives up is the  *)
(* one used least often since it came in, the one not used for longest      *)
(* among equals.                                                            *)
ImplementsCache == Reference!Spec

=============================================================================
