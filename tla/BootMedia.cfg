CONSTANTS
  NoCall = NoCall
  Untouched = Untouched
  Blank = Blank
  Window <- MCWindow
  Depth = 8
  Block = 65536
  Probed <- MCProbed
  Chunk = 4
  Sector = 2
  Pages = 3
  Disk <- MCDisk
  BlockLen = 3
  MaxReads = 2
  RespTimeout = 3
  R1bTimeout = 2
  DataTimeout = 3
  MaxNcr = 3
  MaxAccess = 2
  Cards = {"v1", "v2", "low_volt", "zero"}
  CheckedBytes <- MCCheckedBytes
  EepromReads <- MCEepromReads
  EepromWrites <- MCEepromWrites
  NorReads <- MCNorReads
  NorFlashes <- MCNorFlashes
  SdReads <- MCSdReads
SPECIFICATION Spec
INVARIANTS FifoHolds NothingLost ReadsActiveCard CleanAfterSuccess
PROPERTIES KeepsContract OnlyRequestedPages CallsReturn
CHECK_DEADLOCK FALSE
