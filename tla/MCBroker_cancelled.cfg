\* A stop cancels an effect that is being staged; the dispatch then sends it.
SPECIFICATION Spec
CONSTANTS
  NumProposals = 1
  Runs <- StopRuns
  Ops <- StopOps
  Artifacts = {"queue"}
  Delegations = {}
  Policies = {"p1"}
  None = None
  Offered <- OneOffered
  Gate <- StopGate
  ArtifactOf <- StopArtifact
  A2Ops <- StopOps
  VersionedOps = {}
  StagedOps <- StopOps
  ReadableOps <- StopOps
  DelRun <- NoDelRun
  Chain <- NoChain
  GrantEnd <- StopGrantEnd
  PermitTTL = 2
  MaxTime = 1
INVARIANT CancelledNeverLanded
