CONSTANTS
  press = press
  list = list
  reboot = reboot
  write = write
  Oversized <- None
  NoCall = NoCall
  Calls <- PressList
  Idempotent <- List
  FireAndForget <- None
  Large <- None
  Permitted <- PressList
  RequireHmac = FALSE
  MayCancel = TRUE
  Backlog = 2
  MaxDrops = 1
  MaxCrashes = 0
SPECIFICATION Spec
INVARIANTS AnswersMatchAlways
CHECK_DEADLOCK FALSE
