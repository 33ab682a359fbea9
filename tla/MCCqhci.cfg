SPECIFICATION FairSpec
CONSTANTS
  Depth = 4
  Blocks = {x}
  Overlapping = {}
  NoBlock = NoBlock
  NoTask = NoTask
  Barriers = {FALSE}
  Waits = {FALSE, TRUE}
  MaxHalts = 1
INVARIANTS
  CqTypeOK
  NoGhostTag
  CqInv
PROPERTIES
  SendReturns
