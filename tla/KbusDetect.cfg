SPECIFICATION FairSpec
CONSTANTS
  Class = {"IPC", "FBK"}
  Racks <- RacksOf
  MaxFiles = 2
INVARIANTS
  TypeOK
  ClampsPlaced
  RepeatsWithHart
PROPERTIES
  AllCovered
  NumbersMatch
  DetectionEnds
