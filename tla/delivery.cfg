SPECIFICATION FairSpec
CONSTANTS
  Agent = {a1}
  Slot = {p1, p2}
  MaxRows = 1
  Cap = 3
  Retained = 2
INVARIANTS AckedMeansHandled RerunOnlyIfForgotten
PROPERTIES CountNeverShrinks EveryCommandSettles
CHECK_DEADLOCK FALSE
