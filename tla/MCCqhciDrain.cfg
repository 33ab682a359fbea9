SPECIFICATION FairSpec
CONSTANTS
  Depth = 4
  Blocks = {x}
  Overlapping <- SameRange
  NoBlock = NoBlock
  NoTask = NoTask
  Barriers = {FALSE, TRUE}
  Waits = {FALSE, TRUE}
  MaxHalts = 0
PROPERTIES
  QueueDrains
