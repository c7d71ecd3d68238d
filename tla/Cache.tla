------------------------------- MODULE Cache -------------------------------
(***************************************************************************)
(* What a cache of bounded size promises to the program that uses it:      *)
(* what get() returns, and which key is given up when a new one needs its  *)
(* place, without saying how.  LFUCache.h and LruCache.h implement it.     *)
(***************************************************************************)
EXTENDS Integers, FiniteSets

CONSTANTS
  Key,
  Val,
  Miss,        \* what get() returns for a key that is not there
  capacity,    \* how many keys the cache holds at most
  worth        \* what one use of a key counts: 1 if the victim is the key used
               \* least often, and only among equals the one not used for
               \* longest (LFU); 0 if the number of uses does not matter (LRU)

VARIABLES
  resident,    \* the keys in the cache
  value,       \* value[k] for each of them
  uses,        \* uses[k]: what the uses of k since it came in count
  older,       \* the pairs <<a, b>> of keys such that a was last used before b
  answer       \* what the last call of get() returned

cacheVars == <<resident, value, uses, older, answer>>

Init ==
  /\ resident = {} /\ value = <<>> /\ uses = <<>> /\ older = {}
  /\ answer = Miss

\* k has just been used: it is younger than every other key
Younger(k, keys) ==
  {p \in older : p[1] \in keys \ {k} /\ p[2] \in keys \ {k}}
    \cup ((keys \ {k}) \X {k})

Hit(k, v) ==
  /\ k \in resident
  /\ value' = [value EXCEPT ![k] = v]
  /\ uses' = [uses EXCEPT ![k] = @ + worth]
  /\ older' = Younger(k, resident)
  /\ UNCHANGED resident

GetHit(k) == k \in resident /\ Hit(k, value[k]) /\ answer' = value[k]

GetMiss(k) ==
  /\ k \notin resident
  /\ answer' = Miss
  /\ UNCHANGED <<resident, value, uses, older>>

PutHit(k, v) == Hit(k, v) /\ UNCHANGED answer

\* a is given up rather than b
Before(a, b) ==
  IF uses[a] # uses[b] THEN uses[a] < uses[b] ELSE <<a, b>> \in older

\* k comes in, and keys remains of the others
Enter(k, v, keys) ==
  /\ resident' = keys \cup {k}
  /\ value' = [x \in keys \cup {k} |-> IF x = k THEN v ELSE value[x]]
  /\ uses' = [x \in keys \cup {k} |-> IF x = k THEN worth ELSE uses[x]]
  /\ older' = Younger(k, keys)
  /\ UNCHANGED answer

PutNew(k, v) ==
  /\ k \notin resident /\ Cardinality(resident) < capacity
  /\ \E keys \in {resident} : Enter(k, v, keys)

PutEvict(k, v) ==
  /\ k \notin resident /\ Cardinality(resident) = capacity
  /\ \E victim \in resident : \E keys \in {resident \ {victim}} :
       /\ \A other \in keys : Before(victim, other)
       /\ Enter(k, v, keys)

Next == \E k \in Key :
          \/ GetHit(k) \/ GetMiss(k)
          \/ \E v \in Val : PutHit(k, v) \/ PutNew(k, v) \/ PutEvict(k, v)

Spec == Init /\ [][Next]_cacheVars

=============================================================================
