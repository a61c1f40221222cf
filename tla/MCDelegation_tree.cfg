\* Chains and second trees in two runs, with and without a root budget.
SPECIFICATION Spec
CONSTANTS
  r1 = r1
  r2 = r2
  d1 = d1
  d2 = d2
  d3 = d3
  d4 = d4
  Runs <- TwoRuns
  Delegations <- Four
  Effects = {e1, e2}
  Actors = {"a0", "a1", "a2", "a3"}
  Currencies = {"usd", "eur"}
  None = None
  Entries <- Lists
  Targets <- Named
  Covers <- Matches
  AllowedClasses <- Classes
  RootCaps <- Roots
  RootBudget <- RootCeilings
  Mints <- Requests
  Proposals <- Proposed
  MaxMoney = 2
  MaxDepth = 3
SYMMETRY Symmetry
CHECK_DEADLOCK FALSE
INVARIANT OnlyNarrows
INVARIANT PermitFitsChain
INVARIANT EffectBudgetHolds
INVARIANT CostBudgetHolds
INVARIANT StoppedRunFenced
PROPERTY RevokedGroupSilent
