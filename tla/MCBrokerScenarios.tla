-------------------------- MODULE MCBrokerScenarios --------------------------
(***************************************************************************)
(* Two scenarios for the broker in one configuration, for a run r1 whose   *)
(* grant lasts one tick.                                                   *)
(*                                                                         *)
(* "stop": an operation of class A2 whose sink stages and reads back, and  *)
(* an observing one whose sink does neither.  Effect 2 is a second         *)
(* ordinary effect or a caller's own compensation of effect 1.             *)
(*                                                                         *)
(* "authority": one effect, under a root delegation, its child or none;    *)
(* two policies that disagree on review and on what is banned; the         *)
(* resource version is pinned and the sink verifies, stages and reads      *)
(* back.                                                                   *)
(***************************************************************************)
EXTENDS Broker

Scenarios == {"stop", "authority"}
OpsOf == [stop |-> {"mutate", "observe"}, authority |-> {"export", "deploy"}]

OneRun == {"r1"}
AllOps == UNION {OpsOf[s] : s \in Scenarios}
TwoDels == {"root", "child"}
Shape(o, t, d) == [run |-> "r1", op |-> o, of |-> t, del |-> d]
Proposable ==
  <<{Shape("mutate", None, None), Shape("observe", None, None)}
      \cup {Shape(o, None, d) : o \in OpsOf["authority"], d \in TwoDels \cup {None}},
    {Shape("mutate", None, None), Shape("mutate", 1, None)}>>

TwoPolicies == [p1 |-> [o \in AllOps |-> IF o = "deploy" THEN "review" ELSE "allow"],
                p2 |-> [o \in AllOps |-> IF o = "export" THEN "review" ELSE "deny"]]
Mutating == {"mutate", "export", "deploy"}
Queued == [o \in AllOps |-> "queue"]
Granted == [r \in OneRun |-> 1]
RunOf == [d \in TwoDels |-> "r1"]
Chains == [root |-> {"root"}, child |-> {"root", "child"}]

VARIABLE scenario

ScenarioInit ==
  /\ Init
  /\ scenario \in Scenarios
  /\ scenario = "stop" => policy = "p1"

\* Each scenario has its own operations; policies and delegations are the subject
\* of one, a second effect of the other.
ScenarioNext ==
  /\ Next
  /\ \A e \in Ids : eff'[e].op \in OpsOf[scenario] \cup {None}
  /\ scenario = "stop" => policy' = "p1" /\ (revoked' = revoked \/ stop' # stop)
  /\ scenario = "authority" => eff'[2] = NoEffect /\ stop'["r1"].plans \subseteq {1}
  /\ UNCHANGED scenario

ScenarioSpec ==
  /\ ScenarioInit /\ [][ScenarioNext]_<<vars, scenario>>
  /\ \A r \in Runs : WF_vars(StopStep(r))
=============================================================================
