SPECIFICATION Spec
CONSTANTS
  Width = 8
  kMultBits = 4
  kMaxSec = 4
  kNsPerSec = 8
  CntFreq = {0, 4}
  Regression = {0, 8}
  Period = 2
  timeout = 8
PROPERTY WaitEnds
