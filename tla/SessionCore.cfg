CONSTANTS
  press = press
  list = list
  reboot = reboot
  write = write
  Oversized <- None
  NoCall = NoCall
  Calls <- PressList
  Idempotent <- List
  FireAndForget <- None
  Large <- None
  Permitted <- PressList
  RequireHmac = TRUE
  MayCancel = TRUE
  Backlog = 2
  MaxDrops = 1
  MaxCrashes = 1
SPECIFICATION Spec
INVARIANTS TypeOK AtMostOnce AnswersMatch UnreachableIsUntouched
PROPERTIES NoLateExecution OnlyAuthenticated
CHECK_DEADLOCK FALSE
