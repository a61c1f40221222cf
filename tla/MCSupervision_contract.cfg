\* Members that answer with words outside the review contract.
SPECIFICATION SupervisionSpec
CONSTANTS
 Observations <- ObservationIds
 Obs <- ObsOf
 Workers = {"w1"}
 WindowSize = 3
 MaxProposals = 1
 SegmentSize = 2
 MaxSegments = 2
 Records <- RecordsOf
 Panels <- PanelsOf
 Consults = {"k1"}
 FailureModes = {"hold", "deny", "abstain"}
INVARIANT OnlyAllowsAllow
CHECK_DEADLOCK FALSE
