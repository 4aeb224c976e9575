CONSTANTS
  MaxBoots = 5
  Reboots = {r1, r2}
  Shutdowns = {s1, s2}
SPECIFICATION LifecycleSpec
INVARIANTS CountIsExact HealthyIfReached FirstAcknowledgedWins
PROPERTIES GoesDown PowerSparesCount
CHECK_DEADLOCK FALSE
