------------------------------ MODULE LruCache ------------------------------
(***************************************************************************)
(* LruCache (code/inc/algorithm/LruCache.h): a list of the entries, the    *)
(* one used last in front, and a map from keys to places in the list.      *)
(*                                                                         *)
(* An iterator into the list is the node it stands at.  A node that is     *)
(* taken out is free to be used again by the next insertion.  One action   *)
(* is one call: the cache is used by one thread.                           *)
(***************************************************************************)
EXTENDS CacheParameters, SequencesExt

CONSTANT Node       \* places for nodes of the list

\* put() takes the last entry of an empty list if the capacity is 0, which is
\* undefined; there is room for a node more, since the new one is made first
ASSUME LruAssumption ==
  cap # 0 /\ IsFiniteSet(Node) /\ Cardinality(Node) > cap

VARIABLES
  cacheList,  \* the nodes of the list
  entry,      \* entry[n]: the key and the value in a node of the list
  cacheMap,   \* cacheMap[k]: the node of key k
  item        \* what get() returned last

lruVars == <<cacheList, entry, cacheMap, item>>

-----------------------------------------------------------------------------
LruInit == cacheList = <<>> /\ entry = <<>> /\ cacheMap = <<>> /\ item = Miss

\* erase(n)
Without(n) == RemoveAt(cacheList, CHOOSE i \in DOMAIN cacheList : cacheList[i] = n)

\* push_front({k, v}): the list is n, now the node of k and v, before rest; the
\* key k joins the map m
Lead(n, k, v, rest, m) ==
  /\ cacheList' = Cons(n, rest)
  /\ entry' = [x \in ToSet(rest) \cup {n} |->
                 IF x = n THEN [key |-> k, val |-> v] ELSE entry[x]]
  /\ cacheMap' = Assign(m, k, n)

\* the new node is made before the old one is erased
LruTouch(k, v) ==
  \E n \in Node \ ToSet(cacheList) : Lead(n, k, v, Without(cacheMap[k]), cacheMap)

lruGet(k) ==
  /\ k \in DOMAIN cacheMap
  /\ item' = entry[cacheMap[k]].val
  /\ LruTouch(k, entry[cacheMap[k]].val)

lruGetMissing(k) ==
  /\ k \notin DOMAIN cacheMap
  /\ item' = Miss
  /\ UNCHANGED <<cacheList, entry, cacheMap>>

lruPutPresentInPlace(k, v) ==                                 \* mutant
  /\ k \in DOMAIN cacheMap
  /\ entry' = [entry EXCEPT ![cacheMap[k]].val = v]
  /\ UNCHANGED <<cacheList, cacheMap, item>>

lruPutPresent(k, v) ==
  /\ k \in DOMAIN cacheMap
  /\ LruTouch(k, v)
  /\ UNCHANGED item

lruPutNew(k, v) ==
  /\ k \notin DOMAIN cacheMap
  /\ Len(cacheList) # cap
  /\ \E n \in Node \ ToSet(cacheList) : Lead(n, k, v, cacheList, cacheMap)
  /\ UNCHANGED item

lruPutEvictListOnly(k, v) ==                                     \* mutant
  /\ k \notin DOMAIN cacheMap
  /\ Len(cacheList) = cap
  /\ \E n \in Node \ ToSet(Front(cacheList)) : Lead(n, k, v, Front(cacheList), cacheMap)
  /\ UNCHANGED item

\* the last entry goes first; the new one may take its place in memory
lruPutEvict(k, v) ==
  /\ k \notin DOMAIN cacheMap
  /\ Len(cacheList) = cap
  /\ LET last == entry[Last(cacheList)].key
         others == [x \in DOMAIN cacheMap \ {last} |-> cacheMap[x]]
     IN  \E n \in Node \ ToSet(Front(cacheList)) :
           Lead(n, k, v, Front(cacheList), others)
  /\ UNCHANGED item

LruNext ==
  \E k \in Key :
    \/ lruGet(k) \/ lruGetMissing(k)
    \/ \E v \in Val : lruPutPresent(k, v) \/ lruPutNew(k, v) \/ lruPutEvict(k, v)

LruSpec == LruInit /\ [][LruNext]_lruVars

-----------------------------------------------------------------------------
(* Safety.                                                                 *)

LruTypeOK ==
  /\ cacheList \in Seq(Node)
  /\ entry \in [ToSet(cacheList) -> [key : Key, val : Val]]
  /\ cacheMap \in [DOMAIN cacheMap -> ToSet(cacheList)] /\ DOMAIN cacheMap \subseteq Key
  /\ item \in Val \cup {Miss}

\* each key in the map stands at its own node, and each node is some key's
LruInStep ==
  /\ \A k \in DOMAIN cacheMap : entry[cacheMap[k]].key = k
  /\ ToSet(cacheList) = {cacheMap[k] : k \in DOMAIN cacheMap}

\* a node stands once in the list, and there are as many keys as nodes
LruOnce ==
  /\ \A i, j \in DOMAIN cacheList : cacheList[i] = cacheList[j] => i = j
  /\ IsFiniteSet(DOMAIN cacheMap) /\ Cardinality(DOMAIN cacheMap) = Len(cacheList)

(* What get() and put() preserve: an iterator in the map is never left      *)
(* dangling, the list has no entry that the map does not know, a node       *)
(* stands in it once, and the capacity is kept.                             *)
LruInv == /\ LruTypeOK /\ LruInStep /\ LruOnce
          /\ Len(cacheList) <= cap

\* a stands further back in the list than b
Behind(a, b) == \E i, j \in DOMAIN cacheList :
                  i < j /\ cacheList[i] = cacheMap[b] /\ cacheList[j] = cacheMap[a]

LruReference == INSTANCE Cache WITH
  capacity <- cap, worth <- 0,
  resident <- DOMAIN cacheMap,
  value <- [k \in DOMAIN cacheMap |-> entry[cacheMap[k]].val],
  uses <- [k \in DOMAIN cacheMap |-> 0],
  older <- {p \in (DOMAIN cacheMap) \X (DOMAIN cacheMap) : Behind(p[1], p[2])},
  answer <- item

(* get() returns what was put last, and the key that put() gives up is the  *)
(* one that neither has touched for longest.                                *)
LruImplementsCache == LruReference!Spec

=============================================================================
