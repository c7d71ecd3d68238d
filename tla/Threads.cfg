CONSTANTS
  N = 4
  Rounds = 2
  FirstCap = {0, 4}
SPECIFICATION FairSpec
INVARIANTS IInv Mutex TidKnown AssertEq
PROPERTY TestPassesUnmoved
CHECK_DEADLOCK FALSE
