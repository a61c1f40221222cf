-------------------------------- MODULE SendOnce -------------------------------
(***************************************************************************)
(* What the effect broker promises about each effect, whatever its         *)
(* protocol: it is performed at most once, only under an authority that    *)
(* stood when its dispatch began, and its record is closed once.  Several  *)
(* effects may move in one step, as they do when a stop sweeps a run.      *)
(***************************************************************************)
CONSTANT Effect

VARIABLES
  phase,      \* [Effect -> Phases]
  told,       \* [Effect -> what the record says for good, or "open"]
  withdrawn   \* [Effect -> its delegation has been revoked]

Phases == {"absent", "held", "granted", "dispatching", "sent", "performed", "failed", "dropped"}

SendOnceInit ==
  /\ phase = [e \in Effect |-> "absent"]
  /\ told = [e \in Effect |-> "open"]
  /\ withdrawn = [e \in Effect |-> FALSE]

\* Authority is given to an effect whose delegation stands.
Propose(e) ==
  /\ phase[e] = "absent"
  /\ phase'[e] \in {"held", "dropped"} \/ (phase'[e] = "granted" /\ ~withdrawn'[e])
Release(e) == phase[e] = "held" /\ phase'[e] = "granted" /\ ~withdrawn[e]
Drop(e) == phase[e] \in {"held", "granted", "dispatching"} /\ phase'[e] = "dropped"

\* It stands when the dispatch begins; a dispatch under way is not called back.
Begin(e) == phase[e] = "granted" /\ phase'[e] \in {"dispatching", "sent"} /\ ~withdrawn[e]
Send(e) == phase[e] = "dispatching" /\ phase'[e] = "sent"
Settle(e) == phase[e] = "sent" /\ phase'[e] \in {"performed", "failed"}

Moves(e) ==
  \/ phase'[e] = phase[e]
  \/ Propose(e) \/ Release(e) \/ Drop(e) \/ Begin(e) \/ Send(e) \/ Settle(e)

\* Committed is said of a performed effect alone, and nothing is taken back.
Tells(e) ==
  \/ told'[e] = told[e]
  \/ told[e] = "open" /\ told'[e] = "committed" /\ phase'[e] = "performed"
  \/ told[e] = "open" /\ told'[e] = "over" /\ phase'[e] # "held"

Withdraws(e) == withdrawn[e] => withdrawn'[e]

SendOnceNext == \A e \in Effect : Moves(e) /\ Tells(e) /\ Withdraws(e)

SendOnceSpec == SendOnceInit /\ [][SendOnceNext]_<<phase, told, withdrawn>>
=============================================================================
