CONSTANTS
  Configs <- MCConfigs
  Outside <- MCOutside
  Addrs <- MCAddrs
  SizeSpm = 2048
  NoTarget = NoTarget
SPECIFICATION AccessSpec
INVARIANTS ClicReachable
CHECK_DEADLOCK FALSE
