\* Leases, slots, the sweep and the emergency stop of several runs; and what
\* heartbeats may claim, and how a run ends.
SPECIFICATION ScenarioSpec
CONSTANTS
  Experiments = {"e1", "e2", "e3"}
  RunIds = {"r1", "r2"}
  Sessions = {"s1", "s2"}
  Targets = {"t1", "t2"}
  Offered <- EnvelopesOf
  Beats <- BeatsOf
  Incidents = {"operator_request", "containment_coverage_loss"}
  LeaseTTL = 2
  MaxGen = 3
  MaxTime = 4
  None = None
CHECK_DEADLOCK FALSE
INVARIANT ConcurrencyHolds
INVARIANT StopSilences
INVARIANT OverspentNeverInjects
INVARIANT ExcludedNeverObserved
INVARIANT OneHandoff
PROPERTY RunOnlyAdvances
PROPERTY LapseEndsInjection
