CONSTANTS
  Harts = {h1, h2}
  NoHart = NoHart
  NoCall = NoCall
  Copies1D <- MC1D
  Copies2D <- MC2D
  MaxTransfers = 4
SPECIFICATION Spec
INVARIANTS LaunchesWhatWasAsked
PROPERTIES ReturnsAfterDone WaitsEnd
CHECK_DEADLOCK FALSE
