\* A checkpoint after a batch that could not be sealed.
SPECIFICATION RecorderSpec
CONSTANTS
 Events <- EventIds
 Ev <- EvOf
 Sources = {"c1"}
 EvidenceRuns = {"r1"}
 Roles = {"collector", "worker"}
 Batches <- Deliveries
 Sealed = TRUE
 Skew = 1
 MaxQuiet = 1
 Windows = {1}
 HoldEnds = {2}
 MaxNow = 3
INVARIANT CheckpointsCoverStored
CHECK_DEADLOCK FALSE
