CONSTANTS
  Key = {k1, k2, k3, k4}
  Val = {v1, v2}
  Miss = Miss
  cap = 3
  MaxTime = 9
  Node = {n1, n2, n3, n4}
  Letter = {a, b, c}
  Patterns <- ShortPatterns
  Texts <- ShortTexts
SPECIFICATION MCSpec
SYMMETRY Symmetry
INVARIANTS IInv LruInv MatchInv FirstFound
PROPERTIES ImplementsCache LruImplementsCache
CHECK_DEADLOCK FALSE
