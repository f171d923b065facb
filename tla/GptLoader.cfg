CONSTANTS
  Disks <- MCDisks
  MaxLbas <- MCMaxLbas
SPECIFICATION Spec
INVARIANTS FirstFit LoadsFit RightParts NoEntryAfterFailure
PROPERTIES BootEnds
CHECK_DEADLOCK FALSE
