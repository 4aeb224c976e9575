SPECIFICATION Spec
CONSTANTS
    MaxPid = 2
    BpSlots = 1
    WpSlots = 1
    MaxUnread = 2
    Watches <- MCWatches
    Ctls <- MCCtls
    Polls = {1, 2}
PROPERTY ResumedIsRunning
CHECK_DEADLOCK FALSE
