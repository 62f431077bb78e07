CONSTANTS
  h1 = h1
  Hosts = {h1}
  PerMin = 2
  Burst = 4
  Minute = 3
  MaxTime = 16
SPECIFICATION Spec
 
INVARIANT HintSuffices
 
