CONSTANTS
  N = 2
  Rounds = 2
  FirstCap = {0}
SPECIFICATION FairSpec
PROPERTY TestPasses
CHECK_DEADLOCK FALSE
