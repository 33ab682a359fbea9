SPECIFICATION Spec
CONSTANTS
  MaxNum = 2
  MaxLeft = 0
  FifoLen = 2
  Modes = {1, 2}
  Speeds = {TRUE, FALSE}
INVARIANTS
  I2cTypeOK
  CountIsTrue
  DataIsTrue
  PolledStartsClean
  NoAnswerLost
  Framed
