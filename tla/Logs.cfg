CONSTANTS
  MaxLen = 5
  MaxGens = 2
  MaxClock = 4
  MtimeGrain = 2
  MaxScan = 2
  MaxLineHead = 2
  SettleTime = 2
  MaxContains = 1
  TailLines = 1
  TailMaxBytes = 2
  MaxTailLines = 1
  TailBlockSize = 1
  MaxTailScan = 4
  MaxTrim = 1
  MaxTailed = 4
SPECIFICATION Spec
INVARIANT ProbeMissesNothing
 
PROPERTY ReadersCatchUp
CHECK_DEADLOCK FALSE
