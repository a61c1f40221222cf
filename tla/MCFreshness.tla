----------------------------- MODULE MCFreshness ------------------------------
(* Values for the constants of Freshness: two claims, one of which is assessed *)
(* again under another suite and another policy.                               *)
EXTENDS Freshness

Prints(policy) == [k \in Components |-> IF k = "policy" THEN policy ELSE "same"]
Says(until, policy, suite) ==
  [status |-> "SUPPORTED_WITHIN_SCOPE", until |-> until,
   triggers |-> {"policy_change", "isolation_test_failure"}, prints |-> Prints(policy),
   suite |-> suite]
Assessments == [c1 |-> {Says(1, "p1", "w1"), Says(2, "p2", "w2")}, c2 |-> {Says(1, "p1", "w1")}]

Declared == {[kind |-> "policy_change", component |-> Unstated, previous |-> "p1"],
             [kind |-> "policy_change", component |-> "policy", previous |-> Unstated],
             [kind |-> "isolation_test_failure", component |-> Unstated, previous |-> "p1"],
             [kind |-> "tool_change", component |-> Everywhere, previous |-> Unstated],
             [kind |-> "holiday", component |-> Unstated, previous |-> Unstated]}
=============================================================================
