SPECIFICATION FairSpec
CONSTANTS
  Chunks = 1
  Slots = {1, 2}
  Lbas = {0, 1}
  Ports = {FALSE}
  Users <- EveryUser
  CsdWrites <- CacheBootWidth
  PickerTicks = 1
  KeepaliveAfter = 2
  WatchdogAfter = 3
INVARIANTS BaudKept SettingsShown HexStaysHome
PROPERTIES WritesWhereShown OperationEnds KeepaliveAnswered
CHECK_DEADLOCK FALSE
