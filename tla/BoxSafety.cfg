SPECIFICATION Spec
CONSTANTS
  a = a
  b = b
  c = c
  d = d
  Self = mailbox
  NoUser = nobody
  Client <- Blocks
  MayGiveUp <- Blocks
  MaxFails = 0
  MaxSets = 2
  MaxRestarts = 1
INVARIANTS
  TypeOK
  BusyIsHeld
  HolderIsHead
PROPERTIES
  GrantsExclusively
CHECK_DEADLOCK FALSE
