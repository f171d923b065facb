CONSTANTS
  NUM_INT_HARTS = 3
  NONSMP_HART = 0
  Words = {w1, w2}
  None = none
SPECIFICATION LiveSpec
INVARIANTS TypeOK EntryAgreement HandOverInv
PROPERTIES RefinesBarrier AllHartsJump
CHECK_DEADLOCK FALSE
