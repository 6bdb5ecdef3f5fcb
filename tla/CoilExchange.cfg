SPECIFICATION FairSpec
CONSTANTS
  NumChannel = 3
  AddressOf <- At013
  Replaceable = {1, 2}
  Switched = {3}
  NumCoil = 5
  ByteBits = 2
  Limit = 12
  Pieces = {10}
  IdWrap = 2
  MaxChanges = 2
INVARIANTS
  TypeOK
  ChainsSound
  StreamInStep
PROPERTIES
  NeverSetsStrangers
  SentAgain
  CoilFollows
