CONSTANTS
  e1 = e1
  e2 = e2
  Execs = {e1, e2}
  Asked = {}
  States = {"completed", "timed_out"}
  MaxRetainedExecs = 1
  MaxRetainedOutputs = 0
  MaxListedExecs = 1
  ExecRetention = 0
  MaxTime = 1
  None = None
SPECIFICATION FairSpec
PROPERTY RetentionHolds
PROPERTY ImplementsLedger
