\* The stop protocol against racing commits, retries and the evidence fence, and
\* what may give, hold and take away the authority to send one effect.
SPECIFICATION ScenarioSpec
CONSTANTS
  NumProposals = 2
  Runs <- OneRun
  Ops <- AllOps
  Artifacts = {"queue"}
  Delegations <- TwoDels
  Policies = {"p1", "p2"}
  None = None
  Offered <- Proposable
  Gate <- TwoPolicies
  ArtifactOf <- Queued
  A2Ops <- Mutating
  VersionedOps = {"export", "deploy"}
  StagedOps = {"mutate", "deploy"}
  ReadableOps <- Mutating
  DelRun <- RunOf
  Chain <- Chains
  GrantEnd <- Granted
  PermitTTL = 2
  MaxTime = 1
INVARIANT CompensationFollowsCommit
INVARIANT SweptRunHoldsNoAuthority
INVARIANT LandedIsAccountedFor
INVARIANT VerdictMatchesRecords
INVARIANT AtMostOneSend
INVARIANT PermitNeedsReview
PROPERTY LateChangeReopens
PROPERTY StopCompletes
PROPERTY EffectsSendOnce
