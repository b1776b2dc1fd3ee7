SPECIFICATION FairSpec
CONSTANTS
  j1 = j1
  j2 = j2
  null = null
  Jobs = {j1, j2}
  MaxAttempts = 2
  MaxClicks = 5
  MaxErrors = 1
  PollFaults = {}
INVARIANTS
  FollowsWhatIsShown
  Attended
  ToldOnce
PROPERTIES
  EndIsShown
CHECK_DEADLOCK FALSE
