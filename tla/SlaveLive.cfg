SPECIFICATION FairSpec
CONSTANTS
  NumChannel = 3
  KindOf <- RegistersAndCoil
  Limit <- SmallLimit
  AddressOf <- At021
  UnitOf <- OneUnit3
  ActimodeOf <- AlwaysOn3
  Outcomes = {"ok", "exception", "mismatch"}
  IdWrap = 4
  MaxFaults = 0
  MaxRestarts = 0
PROPERTIES
  ScanEnds
  ChannelReleased
  EveryChannelPolled
