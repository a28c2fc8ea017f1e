SPECIFICATION Spec
CONSTANTS
  Agent = {a1}
  Cap = 2
  Faults <- ManyFaults
  MaxCrashes = 1
  MaxPending = 1
INVARIANTS OneCapture EndIsFinal
PROPERTIES NeverSacrificed
CHECK_DEADLOCK FALSE
