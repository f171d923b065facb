CONSTANTS
  DataBytes <- OpcodeBytes
  Images <- TwoSections
  UartBurstBytes = 2
  NoiseBytes = {65}
  OutBytes = {6, 65}
  MaxOut = 2
  RetLen = 2
  RetBytes = {0, 20}
  FifoDepth = 2
  None = none
SPECIFICATION LiveSpec
INVARIANTS InStep SectionLoaded HostGetsRight QuietBetweenCommands
PROPERTIES Completes
CHECK_DEADLOCK FALSE
