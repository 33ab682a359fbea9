SPECIFICATION Spec
CONSTANTS
  Depth = 4
  Blocks = {w, x, y, z}
  Overlapping <- SameRange
  NoBlock = NoBlock
  NoTask = NoTask
  Barriers = {FALSE}
  Waits = {FALSE}
  MaxHalts = 0
SYMMETRY BlockSymmetry
INVARIANTS
  TagsComeBack
  Claimed
  Serialised
