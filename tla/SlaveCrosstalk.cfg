SPECIFICATION Spec
CONSTANTS
  NumChannel = 2
  KindOf <- TwoRegisters
  Limit <- SmallLimit
  AddressOf <- Moving2
  UnitOf <- OneUnit2
  ActimodeOf <- OnOrOff2
  Outcomes = {"ok"}
  IdWrap = 3
  MaxFaults = 0
  MaxRestarts = 1
PROPERTY RightRegister
