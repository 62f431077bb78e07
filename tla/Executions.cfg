CONSTANTS
  e1 = e1
  e2 = e2
  Execs = {e1, e2}
  Asked = {e1}
  States = {"completed", "cancelled"}
  MaxRetainedExecs = 2
  MaxRetainedOutputs = 1
  MaxListedExecs = 1
  ExecRetention = 0
  MaxTime = 1
  None = None
SPECIFICATION Spec
INVARIANT TypeOK
INVARIANT OutcomeReportedOnce
INVARIANT RunningReachable
INVARIANT DrainImpliesAudited
 
