SPECIFICATION Spec
CONSTANTS
    Buttons = {{"A"}, {"B"}}
    MaxSamples = 4
INVARIANT ReplayKeepsGaps
CHECK_DEADLOCK FALSE
