CONSTANTS
  w1 = w1
  w2 = w2
  WaitIds = {w1, w2}
  MaxActiveWaits = 1
  MaxKeptWaits = 1
  WaitRetention = 0
  MaxTime = 1
SPECIFICATION FairSpec
INVARIANT RunningBounded
INVARIANT OutcomeNamesCause
PROPERTY ToldForGood
 
CHECK_DEADLOCK FALSE
