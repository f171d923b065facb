CONSTANTS
  w0 = w0
  w1 = w1
  spmLo = spmLo
  None = none
  Words <- MCWords
  SpmBase <- MCSpmBase
  Sign = 4
  CoreFreq = 1
  Platforms <- MCPlatforms
SPECIFICATION LiveSpec
INVARIANTS RightEntry ExitCodeIsOutcome
PROPERTIES ExitCodeStable NoReboot LaunchHonoured EndReported
CHECK_DEADLOCK FALSE
