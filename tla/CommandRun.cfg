CONSTANT ExitCodes = {0, 1}
SPECIFICATION FairSpec
INVARIANT OutcomeIsTrue
 
PROPERTY Returns
CHECK_DEADLOCK FALSE
