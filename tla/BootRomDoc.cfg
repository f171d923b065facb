CONSTANTS
  w0 = w0
  w1 = w1
  spmLo = spmLo
  None = none
  Words <- MCWords
  SpmBase <- MCSpmBase
  Sign = 4
  CoreFreq = 1
  Platforms <- MCJtag
SPECIFICATION Spec
PROPERTY NotReentrant
CHECK_DEADLOCK FALSE
