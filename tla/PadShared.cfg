CONSTANTS
  Presses = 3
  ClearOnBoot = TRUE
  KeepAwake = TRUE
  ControlTier = TRUE
  HidMayFail = TRUE
SPECIFICATION FairSpec
INVARIANTS FlagIsTrue NoPhantomButtons PhysicalInControl
PROPERTIES PhysicalRegains
CHECK_DEADLOCK FALSE
