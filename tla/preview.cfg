SPECIFICATION FairSpec
CONSTANTS
  a1 = a1
  a2 = a2
  m1 = m1
  Agent = {a1, a2}
  Source = {m1}
  Records <- OneMicrophone
  Manifested = {a1}
  Handler = {h1}
  Cap = 2
  Faults <- AnyFault
  MaxRenders = 2
  MaxCrashes = 2
PROPERTIES ReadyWasWhole ReadyIsFinal SilentRenderSettles
CHECK_DEADLOCK FALSE
