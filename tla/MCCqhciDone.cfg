SPECIFICATION Spec
CONSTANTS
  Depth = 2
  Blocks = {x, y}
  Overlapping <- SameRange
  NoBlock = NoBlock
  NoTask = NoTask
  Barriers = {FALSE, TRUE}
  Waits = {FALSE, TRUE}
  MaxHalts = 1
INVARIANTS
  ClearTagIsDone
