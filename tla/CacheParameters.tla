-------------------------- MODULE CacheParameters --------------------------
(***************************************************************************)
(* What LfuCache and LruCache have in common: the keys, the values and the *)
(* capacity, and m[k] = x of a map.                                        *)
(***************************************************************************)
EXTENDS Integers, FiniteSets

CONSTANTS
  Key, Val,
  Miss,      \* what get() returns for a key that is not there: -1, which is
             \* not a value that is stored
  cap        \* the capacity

ASSUME CapAssumption == cap \in Nat /\ Miss \notin Val

Assign(f, x, y) == [z \in DOMAIN f \cup {x} |-> IF z = x THEN y ELSE f[z]]

=============================================================================
