SPECIFICATION FairSpec
CONSTANTS
  Child = {c1, c2}
  Viewer = {v1}
  None = None
  Cap = 2
  MaxRows = 2
INVARIANTS ReportIsCurrent
PROPERTIES  NobodyIsWatched
CHECK_DEADLOCK FALSE
