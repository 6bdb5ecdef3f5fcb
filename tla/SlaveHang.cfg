SPECIFICATION FairSpec
CONSTANTS
  NumChannel = 3
  KindOf <- ThreeRegisters
  Limit <- SmallLimit
  AddressOf <- At029
  UnitOf <- OneUnit3
  ActimodeOf <- AlwaysOn3
  Outcomes = {"ok"}
  IdWrap = 3
  MaxFaults = 0
  MaxRestarts = 0
PROPERTY ScanEnds
