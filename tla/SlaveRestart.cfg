SPECIFICATION Spec
CONSTANTS
  NumChannel = 3
  KindOf <- BitsInRegisterOut
  Limit <- SmallLimit
  AddressOf <- At210
  UnitOf <- OneUnit3
  ActimodeOf <- OnOrOff3
  Outcomes = {"ok", "short", "exception", "mismatch"}
  IdWrap = 3
  MaxFaults = 0
  MaxRestarts = 1
INVARIANTS
  ChainsDisjoint
  LinkedErrorIsSet
CHECK_DEADLOCK FALSE
