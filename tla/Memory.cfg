SPECIFICATION MemSpec
CONSTANTS
    MaxPid = 2
    Regions <- MCRegions
    Requests <- MCRequests
    Gones <- MCGones
    ByteValues <- MCByteValues
    Widths = {1, 2, 3}
    Budgets = {1, 100}
    kScanChunk = 2
    kMaxCandidates = 2
    MaxGeneration = 2
INVARIANTS NarrowSound NarrowKeeps
CHECK_DEADLOCK FALSE
