SPECIFICATION Spec
CONSTANTS
  Chunks = 1
  Slots = {1, 2}
  Lbas = {0, 1}
  Ports = {FALSE}
  Users <- HexUser
  CsdWrites <- CacheBootWidth
  PickerTicks = 1
  KeepaliveAfter = 2
  WatchdogAfter = 3
INVARIANTS WriteBackStaysHome
CHECK_DEADLOCK FALSE
