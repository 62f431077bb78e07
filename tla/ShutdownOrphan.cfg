CONSTANTS
  e1 = e1
  e2 = e2
  Execs = {e1, e2}
  Asked = {}
  States = {"completed"}
  MaxRetainedExecs = 2
  MaxRetainedOutputs = 1
  MaxListedExecs = 1
  ExecRetention = 0
  MaxTime = 0
  None = None
SPECIFICATION ShutSpec
INVARIANT NoOrphanAtExit
CHECK_DEADLOCK FALSE
