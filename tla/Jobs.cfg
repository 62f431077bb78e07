CONSTANTS
  j1 = j1
  j2 = j2
  Jobs = {j1, j2}
  Timed = {j1}
  MaxFinishedJobs = 1
  JobRetention = 0
  MaxTime = 1
SPECIFICATION FairSpec
INVARIANT ExitedIsOwnExit
 
PROPERTY KeptForCause
PROPERTY TimeoutEnforced
