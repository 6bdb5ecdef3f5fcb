SPECIFICATION FairSpec
CONSTANTS
  a = a
  b = b
  c = c
  d = d
  Self = mailbox
  NoUser = nobody
  Client <- MoreBlocks
  MayGiveUp <- Leaving
  MaxFails = 2
  MaxSets = 0
  MaxRestarts = 0
INVARIANTS
  QueueDistinct
PROPERTIES
  PatientServed
CHECK_DEADLOCK FALSE
