-------------------------------- MODULE Verifier -------------------------------
(***************************************************************************)
(* The outcome verifier (evidence-plane/verifier.go): whether an effect    *)
(* landed, out of external state, the receipts recorded so far, a fixture  *)
(* and a grader.  Receipts arrive while verifications are made, and what   *)
(* a source answers may change from one call to the next.                  *)
(***************************************************************************)
EXTENDS Integers, Sequences, FiniteSets

CONSTANTS
  Queries,      \* how many external-state queries an expectation may name
  MaxReceipts   \* bound on the receipts recorded for the effect

ASSUME VerifierAssumption == Queries \in Nat /\ MaxReceipts \in Nat

\* A fixture or grader is either not asked for, or answers; "error" also when it
\* is asked for and not configured.
Readings == {"yes", "no", "error"}
Optional == Readings \cup {"not asked"}

VARIABLES
  receipts,   \* what the recorder holds for the effect: [trusted, landed]
  verdict     \* the last report: the verdict and the evidence it rests on

verifierVars == <<receipts, verdict>>

Pending == [verdict |-> "unknown", strongest |-> "none", graderOnly |-> FALSE, evidence |-> <<>>]

VerifierInit == receipts = <<>> /\ verdict = Pending

-----------------------------------------------------------------------------
\* kindStrength: lower is stronger.
Strength(kind) ==
  CASE kind = "external_state"        -> 0
    [] kind = "service_receipt"       -> 1
    [] kind = "deterministic_fixture" -> 2
    [] kind = "semantic_grader"       -> 3
    [] kind = "none"                  -> 4

Result(matches) == IF matches THEN "supports" ELSE "contradicts"
Item(kind, result) == [kind |-> kind, result |-> result]

\* The item for an answer to "is the change there".
Reading(kind, reading, wanted) ==
  Item(kind, IF reading = "error" THEN "errored" ELSE Result((reading = "yes") = wanted))

StateItems(states, wanted) ==
  [i \in DOMAIN states |-> Reading("external_state", states[i], wanted)]

\* Only what a collector vouches for counts, in the order it arrived; a refusal is a
\* receipt as well.
Trusted == {i \in DOMAIN receipts : receipts[i].trusted}
ReceiptItems(wanted) ==
  LET nth(n) == CHOOSE i \in Trusted : Cardinality({j \in Trusted : j < i}) = n - 1
  IN [n \in 1..Cardinality(Trusted) |->
        Item("service_receipt", Result(receipts[nth(n)].landed = wanted))]

\* A fixture or a grader passes or does not, whatever was wanted.
IfAsked(kind, answer) ==
  IF answer = "not asked" THEN <<>> ELSE <<Reading(kind, answer, TRUE)>>

\* Mutation: receipts are consulted before the external state.
EvidenceReceiptsFirst(states, readable, fixture, grader, wanted) ==
  (IF readable THEN ReceiptItems(wanted) ELSE <<Item("service_receipt", "errored")>>)
  \o StateItems(states, wanted)
  \o IfAsked("deterministic_fixture", fixture)
  \o IfAsked("semantic_grader", grader)

Evidence(states, readable, fixture, grader, wanted) ==
  StateItems(states, wanted)
  \o (IF readable THEN ReceiptItems(wanted) ELSE <<Item("service_receipt", "errored")>>)
  \o IfAsked("deterministic_fixture", fixture)
  \o IfAsked("semantic_grader", grader)

\* combine: the first authoritative item that answers decides.
Authoritative(item) == item.kind # "semantic_grader" /\ item.result # "errored"
Combined(evidence) ==
  LET answered == {i \in DOMAIN evidence : Authoritative(evidence[i])}
      first == CHOOSE i \in answered : \A j \in answered : i <= j
  IN IF answered = {} THEN "unknown"
     ELSE IF evidence[first].result = "supports" THEN "passed" ELSE "failed"

GraderOnly(evidence) ==
  /\ evidence # <<>>
  /\ \A i \in DOMAIN evidence : evidence[i].kind = "semantic_grader"

StrongestKind(evidence) ==
  LET kinds == {"none"} \cup {evidence[i].kind : i \in DOMAIN evidence}
  IN CHOOSE k \in kinds : \A j \in kinds : Strength(k) <= Strength(j)

\* HealthCheck: the known-good fixture passes and the known-bad one does not.
Healthy(good, bad) == good = "yes" /\ bad = "no"

-----------------------------------------------------------------------------
RecordReceipt(trusted, landed) ==
  /\ Len(receipts) < MaxReceipts
  /\ receipts' = Append(receipts, [trusted |-> trusted, landed |-> landed])
  /\ UNCHANGED verdict

Verify(wanted, states, readable, fixture, grader) ==
  /\ LET evidence == Evidence(states, readable, fixture, grader, wanted) IN
     verdict' = [verdict |-> Combined(evidence), strongest |-> StrongestKind(evidence),
                 graderOnly |-> GraderOnly(evidence), evidence |-> evidence]
  /\ UNCHANGED receipts

\* An unhealthy verifier answers unknown for everything.
VerifyUnhealthy == verdict' = Pending /\ UNCHANGED receipts

\* Nothing is kept from one report to the next (verifier.go:139), so the model
\* makes one, at any moment.
Ask(good, bad) ==
  /\ verdict = Pending
  /\ IF Healthy(good, bad)
     THEN \E wanted, readable \in BOOLEAN, n \in 0..Queries, fixture, grader \in Optional :
            \E states \in [1..n -> Readings] : Verify(wanted, states, readable, fixture, grader)
     ELSE VerifyUnhealthy

VerifierNext ==
  \/ \E trusted, landed \in BOOLEAN : RecordReceipt(trusted, landed)
  \/ \E good, bad \in Readings : Ask(good, bad)

VerifierSpec == VerifierInit /\ [][VerifierNext]_verifierVars

-----------------------------------------------------------------------------
VerifierTypeOK ==
  /\ receipts \in Seq([trusted : BOOLEAN, landed : BOOLEAN])
  /\ verdict.verdict \in {"passed", "failed", "unknown"}

\* A verdict agrees with an answer of the strongest authoritative kind that gave
\* one; no weaker kind, no error and no grader outweighs it, however many receipts
\* have arrived and whatever they say (verifier.go:17-19, 224-229).
StrongestDecides ==
  LET answered == {i \in DOMAIN verdict.evidence : Authoritative(verdict.evidence[i])}
      agreeing == {i \in answered :
                     verdict.evidence[i].result =
                       (IF verdict.verdict = "passed" THEN "supports" ELSE "contradicts")}
  IN IF verdict.verdict = "unknown" THEN answered = {}
     ELSE \E i \in agreeing : \A j \in answered :
            Strength(verdict.evidence[i].kind) <= Strength(verdict.evidence[j].kind)
=============================================================================
