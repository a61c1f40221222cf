----------------------------- MODULE MCPromotion ------------------------------
(* Values for the constants of Promotion: a floor, two faster profiles, one    *)
(* without the hard boundary, and a definition that drifted under its key.     *)
EXTENDS Promotion

Profile(k, layers) == [key |-> k, root |-> "pol", layers |-> layers]
Floor == Profile("floor@1", {"hard-controls"})
Fast == Profile("fast@1", {"hard-controls", "classifier"})
Faster == Profile("faster@1", {"hard-controls", "contextual-review"})
Weak == Profile("weak@1", {"classifier"})
Drifted == Profile("fast@1", {"hard-controls", "session-review"})
Approved == {Floor, Fast, Faster, Weak}

GateResult(c) == [candidate |-> c, suite |-> TRUE, passed |-> TRUE, observations |-> 1, benign |-> 1,
              interventions |-> 0, unauthorized |-> 0]
Asks(c, gated, restores) ==
  [attester |-> "ops", candidate |-> c, gates |-> [g \in RequiredGates |-> GateResult(gated)],
   drill |-> [passed |-> TRUE, candidate |-> c.key, restores |-> restores]]

\* Sound requests over each profile that may be running, evidence gathered for
\* another profile, and a shadow that escalated a benign task.
Rehearsed == {Asks(c, c, r.key) : c \in {Fast, Faster, Weak, Drifted}, r \in {Floor, Fast, Faster}}
Unsound == {Asks(Fast, Faster, "floor@1"),
            [Asks(Fast, Fast, "floor@1") EXCEPT !.gates["shadow"].interventions = 1]}
Requested == Rehearsed \cup Unsound
=============================================================================
