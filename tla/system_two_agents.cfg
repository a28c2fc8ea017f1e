SPECIFICATION FairSpec
CONSTANTS
  Agent = {a1, a2}
  Cap = 1
  Faults <- LostAnswers
  MaxCrashes = 0
  MaxPending = 0
 
PROPERTIES ImplementsLifecycle StopIsAnswered 
CHECK_DEADLOCK FALSE
