SPECIFICATION Spec
CONSTANTS
  NumChannel = 3
  KindOf <- ThreeRegisters
  Limit <- SmallLimit
  AddressOf <- Moving3
  UnitOf <- OneUnit3
  ActimodeOf <- OnOrOff3
  Outcomes = {"ok"}
  IdWrap = 2
  MaxFaults = 1
  MaxRestarts = 0
INVARIANTS
  TypeOK
  RequestCoversChain
  FramesMatch
PROPERTIES
  RightRegister
