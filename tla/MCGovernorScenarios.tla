------------------------- MODULE MCGovernorScenarios -------------------------
(***************************************************************************)
(* Two scenarios for the governor in one configuration.                    *)
(*                                                                         *)
(* "lease": two experiments whose rules differ; two runs compete for one   *)
(* slot each while leases lapse and emergency stops arrive.  Costs and     *)
(* cleanup reports play no part.                                           *)
(*                                                                         *)
(* "budget": one run of two sessions, whatever its beats claim and report  *)
(* and however its trips are answered.                                     *)
(***************************************************************************)
EXTENDS MCGovernor

ExperimentsOf == [lease |-> {"e1", "e2"}, budget |-> {"e3"}]
Scenarios == DOMAIN ExperimentsOf

VARIABLE scenario

ScenarioInit == Init /\ scenario \in Scenarios

ScenarioNext ==
  /\ Next
  /\ \A e \in Experiments : e \notin ExperimentsOf[scenario] => envelope'[e] = None
  /\ scenario = "lease" =>
       \A r \in RunIds : /\ run'[r].spend = NoRun.spend /\ run'[r].cleanup = "none"
                         /\ run'[r].tripped \subseteq {"grant_expiry", "operator_request"}
  /\ scenario = "budget" => run'["r2"] = NoRun /\ now' <= 3
  /\ UNCHANGED scenario

ScenarioSpec == ScenarioInit /\ [][ScenarioNext]_<<vars, scenario>> /\ WF_vars(Sweep)
=============================================================================
