CONSTANTS
  EnablePsc = TRUE
  WedgedAfter = 20
  MaxSleeps = 3
SPECIFICATION FairSpec
INVARIANTS RegisteredAnswers AsleepOnlyInSleep
PROPERTIES ConsoleNeverHangs Heals
CHECK_DEADLOCK FALSE
