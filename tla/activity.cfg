SPECIFICATION Spec
CONSTANTS
  ctrlL = ctrlL
  ctrlR = ctrlR
  letter = letter
  Code = {ctrlL, ctrlR, letter}
  Modifier <- Modifiers
  Window = {w1, w2}
  NoWindow = NoWindow
  Torn = Torn
  Missing = Missing
  Absent = Absent
  MaxInput = 3
  MaxSamples = 2
  MaxTime = 2
  BucketCount = 2
SYMMETRY Symmetry
INVARIANTS TypeOK CountedOnce HotkeysAreTyped TimelineKeepsCounts FocusIsOrdered
CHECK_DEADLOCK FALSE
