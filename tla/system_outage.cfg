SPECIFICATION FairSpec
CONSTANTS
  Agent = {a1}
  Cap = 2
  Faults <- OutagesAndDisk
  MaxCrashes = 0
  MaxPending = 1
PROPERTIES StopEndsCapture PrepareIsAnswered
CHECK_DEADLOCK FALSE
