CONSTANTS
  c1 = c1
  c2 = c2
  c3 = c3
  Conn = {c1, c2, c3}
  Nobody = Nobody
  Fd = {7, 8}
  Worlds <- Varied
SPECIFICATION FairSpec
INVARIANTS IInv NoNullClient AnswersToOwner OutputUnshared ExactAnswers
PROPERTY AnsweredAlone
CHECK_DEADLOCK FALSE
