-------------------------------- MODULE Detector -------------------------------
(***************************************************************************)
(* The supervisor's fast detector (supervisor/detector.go): what one run's *)
(* recent events make suspicious.  A pure function of the events, which    *)
(* are given in ingest order.  Heartbeats are required, as they are in the *)
(* default configuration the supervisor and the session review use.        *)
(***************************************************************************)
EXTENDS Integers, FiniteSetsExt, Sequences

CONSTANTS
  Observations,  \* event ids
  Obs,           \* [Observations -> ObservationShapes]
  Workers,       \* the sources that propose actions
  WindowSize, MaxProposals

\* content: what the payload begins with, which is all the detector reads of a
\* broker decision; "other" for everything else, the broker's own JSON included.
ObservationShapes ==
  [kind : {"proposed_action", "broker_decision", "external_receipt", "tool_request",
           "tool_response", "collector_heartbeat"},
   source : Workers, seq : Nat, content : {"allow", "deny", "other"}, effect : STRING,
   worker : BOOLEAN, independent : BOOLEAN, corrects : SUBSET Observations,
   answers : SUBSET Observations, admits : SUBSET {"omitted", "truncated", "delayed"}]

\* NewFastDetector replaces a bound that is not positive.
ASSUME DetectorAssumption ==
  /\ Obs \in [Observations -> ObservationShapes]
  /\ WindowSize \in Nat \ {0} /\ MaxProposals \in Nat \ {0}

-----------------------------------------------------------------------------
IsKind(e, kind) == Obs[e].kind = kind

\* The most recent size events.
LastOf(events, size) ==
  IF Len(events) <= size THEN events ELSE SubSeq(events, Len(events) - size + 1, Len(events))

Suspicion(rule, severity, refs) == [rule |-> rule, severity |-> severity, refs |-> refs]

\* The positions of the broker's denials before i, of which the last one counts.
DeniesBefore(w, i) ==
  {j \in 1..(i - 1) : IsKind(w[j], "broker_decision") /\ Obs[w[j]].content = "deny"}

\* A proposal after a denial, as long as its sequence is the higher one, whatever
\* source the two sequences belong to.
DeniedRetries(w) ==
  {Suspicion("denied_retry", "high", {w[Max(DeniesBefore(w, i))], w[i]}) :
     i \in {k \in DOMAIN w : /\ IsKind(w[k], "proposed_action")
                             /\ DeniesBefore(w, k) # {}
                             /\ Obs[w[k]].seq > Obs[w[Max(DeniesBefore(w, k))]].seq}}

CorrectedClaims(w) ==
  {Suspicion("corrected_claim", "high", {w[i]} \cup Obs[w[i]].corrects) :
     i \in {k \in DOMAIN w : Obs[w[k]].corrects # {}}}

Proposals(w, s) ==
  {w[i] : i \in {k \in DOMAIN w : IsKind(w[k], "proposed_action") /\ Obs[w[k]].source = s}}
ProposalBursts(w) ==
  {Suspicion("proposal_burst", "low", Proposals(w, s)) :
     s \in {t \in Workers : Cardinality(Proposals(w, t)) > MaxProposals}}

\* Worker tool traffic, and nobody independent to see it.
ToolTraffic(w) ==
  {w[i] : i \in {k \in DOMAIN w : /\ IsKind(w[k], "tool_request") \/ IsKind(w[k], "tool_response")
                                  /\ Obs[w[k]].worker}}
SilentCollectors(w) ==
  {Suspicion("collector_silent", "low", t) :
     t \in {u \in {ToolTraffic(w)} : /\ u # {}
                                     /\ \A i \in DOMAIN w : ~IsKind(w[i], "collector_heartbeat")}}

SuspicionsIn(w) ==
  DeniedRetries(w) \cup CorrectedClaims(w) \cup ProposalBursts(w) \cup SilentCollectors(w)

\* What Detect reports: the suspicions of the last size events.
Detect(events, size) == SuspicionsIn(LastOf(events, size))

\* The events a set of suspicions cites.
RefsOf(suspicions) == UNION {s.refs : s \in suspicions}
=============================================================================
