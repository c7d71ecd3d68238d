CONSTANTS
  Char <- Characters
  Batches <- Few
  Worlds <- Usual
SPECIFICATION FairSpec
INVARIANTS IInv KeyThere
PROPERTIES WholeForwarded AllOrPrefix WholeAnswered
CHECK_DEADLOCK FALSE
