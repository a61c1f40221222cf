------------------------------- MODULE MCBroker -------------------------------
(* Values for the constants of Broker: one A2 effect of one run, whose sink     *)
(* stages and reads back, for the two configurations that reach a disagreement *)
(* between the code and what its comments say.                                 *)
EXTENDS Broker

StopRuns == {"r1"}
StopOps == {"mutate"}
OneOffered == <<{[run |-> "r1", op |-> "mutate", of |-> None, del |-> None]}>>
StopGate == [p \in {"p1"} |-> [o \in StopOps |-> "allow"]]
StopArtifact == [o \in StopOps |-> "queue"]
StopGrantEnd == [r \in StopRuns |-> 1]
NoDelRun == [d \in {} |-> "r1"]
NoChain == [d \in {} |-> {}]
=============================================================================
