CONSTANTS
  press = press
  list = list
  reboot = reboot
  write = write
  Oversized <- None
  NoCall = NoCall
  Calls <- Write
  Idempotent <- None
  FireAndForget <- None
  Large <- Write
  Permitted <- Write
  RequireHmac = FALSE
  MayCancel = FALSE
  Backlog = 2
  MaxDrops = 1
  MaxCrashes = 0
SPECIFICATION Spec
INVARIANTS AtMostOnceAll
CHECK_DEADLOCK FALSE
