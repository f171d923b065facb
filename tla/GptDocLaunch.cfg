CONSTANTS
  Disks <- MCDisks
  MaxLbas <- MCMaxLbas
SPECIFICATION Spec
INVARIANTS LaunchesWhatItLoaded
CHECK_DEADLOCK FALSE
