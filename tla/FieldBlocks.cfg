SPECIFICATION FairSpec
CONSTANTS
  Loops = {"analog", "gpio"}
  Setpoints <- Asks
  Ranges <- FourRanges
  Pin = {1, 2, 3}
  Wired <- Wires
  Pulls = {1, 3}
  MaxEvents = 3
INVARIANTS
  TypeOK
  OutInRange
  PinsReady
PROPERTIES
  LoopFollows
