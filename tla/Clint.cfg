CONSTANTS
  CyclesPerTick = 10
  Words = 8
  MaxDelay = 2
  Starts <- MCStarts
  Ticks <- MCTicks
  RefFreq = 6
  RefTimeInv = 3
  Horizon = 160
SPECIFICATION Spec
INVARIANTS NeverAhead SpinsLongEnough FreqAccurate
PROPERTIES Returns
CHECK_DEADLOCK FALSE
