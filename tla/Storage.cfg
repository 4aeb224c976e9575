SPECIFICATION Spec
CONSTANTS
    SaveFiles = {main, extra}
    OtherFiles = {}
    Tokens = {"mine"}
    UserFiles <- MCUserFiles
    MaxEdits = 1
    MaxVersion = 2
    MaxOps = 5
    JournalCap = 1
    MaxWalkDepth = 1
    MaxScan = 3
    CHUNK = 2
INVARIANTS BackupHoldsSave MountedIsReachable JournalIsTail
INVARIANTS SearchesMissTheUnseen TransfersLoseTheUnmoved PathsStayBelow
PROPERTIES ObserveChangesNothing RestoreAllOrNothing TokenSettles
CHECK_DEADLOCK FALSE
SYMMETRY MCSymmetry
