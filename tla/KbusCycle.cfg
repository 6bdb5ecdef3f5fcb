SPECIFICATION Spec
CONSTANTS
  NumClamp = 5
  KindOf <- Plant
  Size = 6
  Bits = 2
  UintWrap = 16
  AddressOf <- Addresses
  WidthOf <- Widths
  BitOf <- BitOffsets
  EnabledOf <- OnOrOff
  ReadBackOf <- ReadBack
  ValueOf <- Values
  Manager = {"IPC", "FBK"}
  DigIn = 4
  DigOut = 4
  MailBoxByte = 3
  FieldImages <- TwoFields
  MaxEvents = 3
INVARIANTS
  TypeOK
PROPERTIES
  OutputsFollow
  OthersKept
  GoodIsField
  MovesAreClear
