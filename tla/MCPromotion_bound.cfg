SPECIFICATION PromotionSpec
CONSTANTS
 Preapproved <- Approved
 RootPolicy = "pol"
 Attesters = {"ops"}
 RequestsMade <- Requested
 MaxExpiry = 2
 MaxFalseInterventions = 0
 MinShadowObservations = 1
 MaxTrail = 4
 MaxPromotionTime = 3
INVARIANT RunsWithinBound
CHECK_DEADLOCK FALSE
