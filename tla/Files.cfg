SPECIFICATION Spec
CONSTANTS
  Names = {"a", "b"}
  Depth = 3
  MaxHops = 10
  MaxOps = 2
  Faults = {TRUE, FALSE}
  Chars = {1, 2}
  EditCalls = {c1, c2}
  Texts <- MCTexts
  PairLists <- MCPairLists
  ChunkSizes = {1, 2}
  PutFaults = {TRUE, FALSE}
  NoCursor = 99
  MaxReadFiles = 3
  MinShare = 2
  ItemOverhead = 1
  NumberedPrefix = 1
  MaxSearchOutput = 4
  DeadlineEvery = 2
  MayTimeOut = TRUE
  MaxFindScan = 3
  DiffContext = 1
  MaxDiffCells = 8
  MaxDiffTreeEntries = 2
  MaxDiffListed = 1
  MaxTreeDiffs = 1
  DiffMayTimeOut = TRUE
SYMMETRY Symmetry
INVARIANT CallsAreExact
INVARIANT WindowsAreExact
 
INVARIANT SearchesAreExact
 
 
PROPERTY TreeCallsAreExact
CHECK_DEADLOCK FALSE
