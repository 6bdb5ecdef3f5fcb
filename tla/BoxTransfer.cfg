SPECIFICATION FairSpec
CONSTANTS
  Requests <- SmallRequests
  Answers <- SmallAnswers
  BlockLen = 2
  LengthWrap = 4
  MaxFaults = 1
  MaxRestarts = 1
INVARIANTS
  TypeOK
PROPERTIES
  AnswerIsGenuine
  OneCommandAtATime
  TransferEnds
CHECK_DEADLOCK FALSE
