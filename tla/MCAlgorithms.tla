---------------------------- MODULE MCAlgorithms ----------------------------
(***************************************************************************)
(* The headers of code/inc/algorithm that their tests call, side by side:  *)
(* `which` of them is used is chosen once.                                 *)
(***************************************************************************)
EXTENDS LfuCache, LruCache, StringMatcher, TLC

VARIABLE which

\* texts and patterns of up to so many letters
Words(first, last) == UNION {[1 .. n -> Letter] : n \in first .. last}
ShortPatterns == Words(1, 3)
ShortTexts == Words(0, 5)

Idle == /\ pat = CHOOSE p \in Patterns : TRUE
        /\ text = <<>> /\ i = 0 /\ matched = 0 /\ ret = -2

MCInit == /\ Init /\ LruInit
          /\ \/ which \in {"lfu", "lru"} /\ Idle
             \/ which = "matcher" /\ MatchInit

MCNext == /\ \/ which = "lfu" /\ Next /\ UNCHANGED <<lruVars, matchVars>>
             \/ which = "lru" /\ LruNext /\ UNCHANGED <<vars, matchVars>>
             \/ which = "matcher" /\ MatchNext /\ UNCHANGED <<vars, lruVars>>
          /\ UNCHANGED which

MCSpec == MCInit /\ [][MCNext]_<<vars, lruVars, matchVars, which>>

\* the caches compare keys and values only for equality
Symmetry == Permutations(Key) \cup Permutations(Val)

=============================================================================
