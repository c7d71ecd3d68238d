CONSTANTS
  Char <- Characters
  Batches <- FileText
  Worlds <- File
SPECIFICATION FairSpec
PROPERTY RequestsAnswered
CHECK_DEADLOCK FALSE
