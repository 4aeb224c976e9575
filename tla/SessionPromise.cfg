CONSTANTS
  press = press
  list = list
  reboot = reboot
  write = write
  Oversized <- Write
  NoCall = NoCall
  Calls <- WriteReboot
  Idempotent <- None
  FireAndForget <- Reboot
  Large <- Write
  Permitted <- WriteReboot
  RequireHmac = FALSE
  MayCancel = FALSE
  Backlog = 2
  MaxDrops = 1
  MaxCrashes = 0
SPECIFICATION FairSpec
PROPERTIES KeepsPromise LockReleased SlotReleased
CHECK_DEADLOCK FALSE
