\* A rule that answers an operator's request by stopping injection only.
SPECIFICATION Spec
CONSTANTS
  Experiments = {"e3"}
  RunIds = {r1}
  Sessions = {"s1", "s2"}
  Targets = {"t1", "t2"}
  Offered <- BudgetOf
  Beats <- BeatsOf
  Incidents = {"operator_request"}
  LeaseTTL = 2
  MaxGen = 3
  MaxTime = 3
  None = None
CHECK_DEADLOCK FALSE
INVARIANT EmergencyTerminates
