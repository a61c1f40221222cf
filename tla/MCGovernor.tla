------------------------------ MODULE MCGovernor ------------------------------
(* Values for the constants of Governor.                                       *)
EXTENDS Governor

NoRules == [c \in Conditions |-> "none"]

Envelope(agg, rules) ==
  [selectors |-> {[targets |-> {"t1", "t2"}, exclusions |-> {}],
                  [targets |-> {"t1"}, exclusions |-> {"t2"}]},
   duration |-> 3, concurrent |-> 1, perSession |-> 2, aggregate |-> agg,
   rules |-> rules]

\* Every trip condition is reached under rules that stop injection, fence or
\* terminate, or under none.
Silent == [NoRules EXCEPT !["grant_expiry"] = "stop_injection"]
Mixed == [NoRules EXCEPT !["budget_exhaustion"] = "stop_injection",
                         !["unexpected_target_expansion"] = "terminate",
                         !["operator_request"] = "stop_injection"]
EnvelopesOf == [e1 |-> {Envelope(2, NoRules)}, e2 |-> {Envelope(2, Silent)},
                e3 |-> {Envelope(3, NoRules), Envelope(3, Mixed)}]
BudgetOf == [e3 |-> EnvelopesOf["e3"]]

\* Claims over a session's own ceiling and over the shared one; a beat with an
\* unexpected target is refused before its claims are read.
Costs == [{"s1", "s2"} -> {0, 2, 3}]
BeatsOf == [claims : Costs, foreign : BOOLEAN, observed : {{"t1"}}]
             \cup [claims : {[s \in {"s1", "s2"} |-> 0]}, foreign : {FALSE},
                   observed : {{"t1", "t2"}}]
=============================================================================
