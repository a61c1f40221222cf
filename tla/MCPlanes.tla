-------------------------------- MODULE MCPlanes -------------------------------
(***************************************************************************)
(* The stores around the broker and the governor, side by side.  They share *)
(* no state and call each other only through values the modules already    *)
(* take as inputs, so a behaviour of the whole is an interleaving of        *)
(* independent behaviours, and a property of one store is decided by the    *)
(* behaviours in which the others stand still: focus says which one moves.  *)
(***************************************************************************)
EXTENDS MCRecorder, MCPromotion, MCFreshness, MCSupervision, MCReplyLedger, KeyCustody, Sentinel,
        ApiRuns, Verifier

VARIABLE focus

Stores == {"recorder", "promotion", "freshness", "keys", "supervision", "sentinel", "api",
           "verifier", "ledger"}

ClustersOf == [u1 |-> "A", u2 |-> "A", u3 |-> NoCluster]
UnitIds == DOMAIN ClustersOf
Batched == {{[unit |-> "u1", routed |-> FALSE]},
            {[unit |-> "u1", routed |-> FALSE], [unit |-> "u2", routed |-> TRUE]},
            {[unit |-> "u1", routed |-> TRUE], [unit |-> "u2", routed |-> FALSE],
             [unit |-> "u3", routed |-> FALSE]}}

planesVars == <<recorderVars, promotionVars, freshnessVars, keyVars, supervisionVars, apiVars,
                verifierVars, sentinelVars, ledgerVars, focus>>

\* The sampler's key matters only to the sampler, the front end only to the ledger.
PlanesInit ==
  /\ focus \in Stores
  /\ RecorderInit /\ PromotionInit /\ FreshnessInit /\ KeyInit /\ SupervisionInit
  /\ ApiInit /\ VerifierInit /\ SentinelInit /\ LedgerInit
  /\ focus # "sentinel" => design = "unit" /\ drawn = [i \in SamplingIds |-> FALSE]
  /\ focus # "ledger" => front = "plane"

\* What stands still when one store moves.
Still(store, vars) == IF focus = store THEN TRUE ELSE UNCHANGED vars
OthersStill ==
  /\ Still("recorder", recorderVars) /\ Still("promotion", promotionVars)
  /\ Still("freshness", freshnessVars) /\ Still("keys", keyVars)
  /\ Still("supervision", supervisionVars) /\ Still("sentinel", sentinelVars)
  /\ Still("api", apiVars) /\ Still("verifier", verifierVars)
  /\ Still("ledger", ledgerVars)
  /\ UNCHANGED focus

PlanesNext ==
  \/ focus = "recorder" /\ RecorderNext /\ OthersStill
  \/ focus = "promotion" /\ PromotionNext /\ OthersStill
  \/ focus = "freshness" /\ FreshnessNext /\ OthersStill
  \/ focus = "keys" /\ KeyNext /\ OthersStill
  \/ focus = "supervision" /\ SupervisionNext /\ OthersStill
  \/ focus = "sentinel" /\ SentinelNext /\ OthersStill
  \/ focus = "api" /\ ApiNext /\ OthersStill
  \/ focus = "verifier" /\ VerifierNext /\ OthersStill
  \/ focus = "ledger" /\ LedgerNext /\ OthersStill

PlanesSpec == PlanesInit /\ [][PlanesNext]_planesVars /\ CallerFairness
=============================================================================
