SPECIFICATION FairSpec
CONSTANTS
  Chunks = 1
  Slots = {1, 2}
  Handles = {1, 2}
  Lbas = {0, 1}
  Exclusive = {FALSE, TRUE}
  Users <- EveryUser
INVARIANTS ErasesWhatItNamed OverwriteStaysHome SettingsShown BaudKept ConnectedHasProgrammer
PROPERTIES OperationEnds
CHECK_DEADLOCK FALSE
