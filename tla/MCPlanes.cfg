SPECIFICATION PlanesSpec
CONSTANTS
 Events <- EventIds
 Ev <- EvOf
 Sources = {"c1"}
 EvidenceRuns = {"r1"}
 Roles = {"collector", "worker"}
 Batches <- Deliveries
 Sealed = TRUE
 Skew = 1
 MaxQuiet = 1
 Windows = {1}
 HoldEnds = {2}
 MaxNow = 3
 Preapproved <- Approved
 RootPolicy = "pol"
 Attesters = {"ops"}
 RequestsMade <- Requested
 MaxExpiry = 2
 MaxFalseInterventions = 0
 MinShadowObservations = 1
 MaxTrail = 3
 MaxPromotionTime = 3
 Claims = {"c1", "c2"}
 Assessed <- Assessments
 Changes <- Declared
 Suites = {"w1", "w2"}
 MaxRecords = 2
 MaxHour = 2
 Usages = {"u1"}
 Signers = {"s1"}
 Rotators = {"r1", "r2"}
 MaxKeys = 3
 Observations <- ObservationIds
 Obs <- ObsOf
 Workers = {"w1"}
 WindowSize = 3
 MaxProposals = 1
 SegmentSize = 2
 MaxSegments = 2
 Records <- RecordsOf
 Panels <- PanelsOf
 Consults = {"k1"}
 FailureModes = {"hold", "deny", "abstain"}
 Units <- UnitIds
 ClusterOf <- ClustersOf
 Draws <- Batched
 Calls = {"h1", "h2"}
 RunIds = {"run1"}
 Plans = {"p1", "bad"}
 Buildable = {"p1"}
 MaxCreated = 2
 Queries = 1
 MaxReceipts = 2
 Requests = {"q1", "q2", "q3", "q4"}
 Digests = {"d1", "d2"}
 Digest <- FourDigests
 Fronts = {"plane", "api"}
 None = None
INVARIANT ChainVerifies
INVARIANT CheckpointsHonest
INVARIANT FindingsExact
INVARIANT HardControlsKept
INVARIANT LapsedOnce
INVARIANT StaleIsOwed
INVARIANT SuccessorFirst
INVARIANT AllowIsUnanimous
INVARIANT ReviewedIsComplete
INVARIANT DrawIsStable
INVARIANT ClaimIsSettled
INVARIANT StrongestDecides
INVARIANT ReplayFitsBody
INVARIANT NoLostWakeup
INVARIANT ClosedOnce
INVARIANT ApiExecutesOnce
PROPERTY FirstReplyKept
PROPERTY ConsultationEnds
CHECK_DEADLOCK FALSE
