SPECIFICATION FairSpec
CONSTANTS
  Session = {s1}
  None = None
  Outages = TRUE
  MaxCalls = 1
  MaxEach = 1
  MaxPolls = 2
INVARIANTS ReviewIsOver OneFollow
PROPERTIES ReviewIsShown FollowEnds
CHECK_DEADLOCK FALSE
