SPECIFICATION Spec
CONSTANTS
  HttpCalls = {"r1", "r2"}
  TrustedProxies = {"p"}
  RateBurst = 1
  AllToolNames = {"read", "write"}
  ReadOnlyTools = {"read"}
  Mutating = {"write"}
  Calls = {"c1", "c2", "c3"}
  TTL = 1
  MaxAge = 3
  UTFMax = 4
  MaxPerWrite = 8
 
INVARIANT ReadOnlyHolds
INVARIANT UsedSessionKept
INVARIANT CdsCompose
INVARIANT OutputIsExact
PROPERTY ExpiredIsReclaimed
CHECK_DEADLOCK FALSE
