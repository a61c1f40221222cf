----------------------------- MODULE SessionReview -----------------------------
(***************************************************************************)
(* The review of a whole session (supervisor/session.go): structural       *)
(* checks over the complete record, segments within a budget, and an       *)
(* outcome that is "reviewed" only when nothing was left out and no        *)
(* evidence is missing.  A pure function of the events in ingest order.    *)
(***************************************************************************)
EXTENDS Detector

CONSTANTS SegmentSize, MaxSegments

\* NewSessionReviewer replaces bounds that are not positive.
ASSUME SessionAssumption == SegmentSize \in Nat \ {0} /\ MaxSegments \in Nat \ {0}

NoEffect == ""
Budget == SegmentSize * MaxSegments
Least(a, b) == IF a <= b THEN a ELSE b

-----------------------------------------------------------------------------
Check(name, e) == [check |-> name, refs |-> {e}]

Decided(events, x) ==
  \E i \in DOMAIN events : IsKind(events[i], "broker_decision") /\ Obs[events[i]].effect = x
Allowed(events, x) ==
  \E i \in DOMAIN events : /\ IsKind(events[i], "broker_decision") /\ Obs[events[i]].effect = x
                           /\ Obs[events[i]].content = "allow"
Receipted(events, x) ==
  \E i \in DOMAIN events : IsKind(events[i], "external_receipt") /\ Obs[events[i]].effect = x
Answered(events, q) ==
  \E i \in DOMAIN events : IsKind(events[i], "tool_response") /\ q \in Obs[events[i]].answers

\* indexEffects: the coverage checks, wherever in the record the match stands.
MissingDecision(events, e) ==
  /\ IsKind(e, "proposed_action") /\ Obs[e].effect # NoEffect
  /\ ~Decided(events, Obs[e].effect)
MissingReceipt(events, e) ==
  /\ IsKind(e, "broker_decision") /\ Obs[e].effect # NoEffect
  /\ Allowed(events, Obs[e].effect) /\ ~Receipted(events, Obs[e].effect)
MissingReply(events, e) == IsKind(e, "tool_request") /\ ~Answered(events, e)

StructuralFindings(events) ==
  LET all == {events[i] : i \in DOMAIN events} IN
  {Check("missing_decision", e) : e \in {f \in all : MissingDecision(events, f)}}
  \cup {Check("missing_receipt", e) : e \in {f \in all : MissingReceipt(events, f)}}
  \cup {Check("missing_tool_response", e) : e \in {f \in all : MissingReply(events, f)}}

\* The detector over the whole session; a silent collector is missing evidence.
TrajectoryFindings(events) ==
  {[check |-> IF s.rule = "collector_silent" THEN s.rule ELSE "trajectory", refs |-> s.refs] :
     s \in Detect(events, Len(events))}

MissingEvidence(finding) ==
  finding.check \in {"missing_decision", "missing_receipt", "missing_tool_response",
                     "collector_silent"}

\* Mutation: a last segment that is not full is dropped.
FullSegments(covered) == covered \div SegmentSize

SegmentCount(covered) == (covered + SegmentSize - 1) \div SegmentSize

\* Segments of the part within the budget, with the structural findings about
\* their events as open questions (at most four are written down).
Segments(events) ==
  LET covered == Least(Len(events), Budget)
  IN [n \in 1..SegmentCount(covered) |->
        LET first == (n - 1) * SegmentSize + 1
            last == Least(n * SegmentSize, covered)
        IN [first |-> first, last |-> last,
            open |-> {f \in StructuralFindings(events) :
                        \E i \in first..last : events[i] \in f.refs}]]

\* What the record admits about itself.
Disclosures(events) ==
  [d \in {"omitted", "truncated", "delayed"} |->
     Cardinality({i \in DOMAIN events : d \in Obs[events[i]].admits})]

\* Review.
Report(events) ==
  LET findings == StructuralFindings(events) \cup TrajectoryFindings(events)
      omitted == IF Len(events) > Budget THEN Len(events) - Budget ELSE 0
  IN IF events = <<>>
     THEN [outcome |-> "incomplete", omitted |-> 0, findings |-> {}, segments |-> <<>>,
           disclosures |-> Disclosures(events)]
     ELSE [outcome |-> IF omitted > 0 \/ \E f \in findings : MissingEvidence(f)
                       THEN "incomplete" ELSE "reviewed",
           omitted |-> omitted, findings |-> findings, segments |-> Segments(events),
           disclosures |-> Disclosures(events)]
=============================================================================
