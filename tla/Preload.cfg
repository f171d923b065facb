CONSTANTS
  Width = 4
  Burst = 8
  MemSize = 40
  Files <- MCFiles
  Junk = Junk
SPECIFICATION Spec
INVARIANTS ProgramInPlace PaddingBounded 
CHECK_DEADLOCK FALSE
