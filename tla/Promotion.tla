------------------------------ MODULE Promotion -------------------------------
(***************************************************************************)
(* The promotion authority (control-plane/promotion.go): a candidate       *)
(* supervision profile is promoted for a bounded time after its gates and  *)
(* a rehearsed rollback, lapses back when the time is up, and is rolled    *)
(* back by the operator.  Every operation holds a.mu throughout and reads  *)
(* its clock inside it; tenants share nothing but the preapproval set,     *)
(* which never changes, so one tenant is modelled.                         *)
(***************************************************************************)
EXTENDS Integers, Sequences, FiniteSets

CONSTANTS
  Preapproved,   \* the closed set of promotable profile definitions
  RootPolicy, Attesters,
  RequestsMade,  \* the promotion requests callers make; expiresAt is set apart
  MaxExpiry, MaxFalseInterventions, MinShadowObservations,
  MaxTrail,      \* bound on the audit trail
  MaxPromotionTime

RequiredLayers == {"hard-controls"}
KnownLayers == RequiredLayers \cup {"classifier", "contextual-review", "full-call-review",
                                    "session-review"}
RequiredGates == {"development", "held-out", "shadow"}

\* A definition is its own digest: key is id@version.
ProfileShapes == [key : STRING, root : STRING, layers : SUBSET KnownLayers]

\* What a request brings.  A gate that did not run is absent from its gates.
GateShapes == [candidate : ProfileShapes, suite : BOOLEAN, passed : BOOLEAN,
               observations : Nat, benign : Nat, interventions : Nat, unauthorized : Nat]

RunsRequiredLayers(p) == RequiredLayers \subseteq p.layers
Floors == {p \in Preapproved : p.root = RootPolicy /\ p.layers = RequiredLayers}

\* NewPreapproval and NewPromotionAuthority refuse anything else.
ASSUME PromotionAssumption ==
  /\ Preapproved \subseteq ProfileShapes
  /\ \A p, q \in Preapproved : p.key = q.key => p = q
  /\ \A p \in Preapproved : p.layers # {} /\ p.root = RootPolicy
  /\ Floors # {}
  /\ MaxExpiry \in Nat /\ MaxFalseInterventions \in Nat /\ MinShadowObservations \in Nat
  /\ MaxTrail \in Nat /\ MaxPromotionTime \in Nat

VARIABLES
  binding,     \* what the tenant runs, or Unbound
  promotions,  \* the signed records, in the order they were granted
  trail,       \* the audit events
  day          \* the authority's clock

promotionVars == <<binding, promotions, trail, day>>

\* promotion 0: a rollback landing, which is no promotion and does not expire.
Unbound == [profile |-> "none"]
Bound(p, n, previous, expires) ==
  [profile |-> p, promotion |-> n, previous |-> previous, expires |-> expires, noted |-> FALSE]

PromotionInit ==
  binding = Unbound /\ promotions = <<>> /\ trail = <<>> /\ day = 0

-----------------------------------------------------------------------------
(* What Promote checks; every check is made, and all have to hold.           *)

\* Mutation: preapproval is taken for the hard boundary.
CandidatePreapproved(c) == c \in Preapproved /\ c.root = RootPolicy

CandidateSound(c) ==
  /\ c.layers # {}
  /\ c \in Preapproved
  /\ c.root = RootPolicy
  /\ RunsRequiredLayers(c)

\* All gates, passed, bound to this very candidate.
GatesSound(req) ==
  /\ RequiredGates \subseteq DOMAIN req.gates
  /\ \A g \in RequiredGates :
       /\ req.gates[g].candidate = req.candidate
       /\ req.gates[g].suite
       /\ req.gates[g].passed

\* Unmeasured is not zero.
ShadowSound(shadow) ==
  /\ shadow.unauthorized = 0
  /\ shadow.observations >= MinShadowObservations
  /\ shadow.benign > 0
  /\ shadow.interventions <= MaxFalseInterventions

Expired(b) == b.expires <= day

\* resolveKey: a key outside the preapproval set lands on a floor.  Which floor
\* is the order a map is walked in.
Resolve(key) ==
  IF \E p \in Preapproved : p.key = key THEN {p \in Preapproved : p.key = key} ELSE Floors

\* The keys a promotion may be found to replace.
PreviousKeys ==
  IF binding = Unbound THEN {p.key : p \in Floors}
  ELSE IF binding.promotion = 0 \/ ~Expired(binding) THEN {binding.profile.key}
  ELSE {p.key : p \in Resolve(binding.previous)}

DrillSound(req, previous) ==
  req.drill.passed /\ req.drill.candidate = req.candidate.key /\ req.drill.restores = previous

BoundedExpiry(expires) == expires > day /\ expires <= day + MaxExpiry

-----------------------------------------------------------------------------
(* Operations                                                                *)

Audit(kind, n) == trail' = Append(trail, [kind |-> kind, promotion |-> n])
Room == Len(trail) < MaxTrail

Promote(req, expires) ==
  /\ Room
  /\ req.attester \in Attesters
  /\ CandidateSound(req.candidate) /\ GatesSound(req) /\ ShadowSound(req.gates["shadow"])
  /\ BoundedExpiry(expires)
  /\ \E previous \in PreviousKeys :
       /\ DrillSound(req, previous)
       /\ promotions' = Append(promotions, [candidate |-> req.candidate, previous |-> previous,
                                            granted |-> day, expires |-> expires])
       /\ binding' = Bound(req.candidate, Len(promotions) + 1, previous, expires)
       /\ Audit("promotion_granted", Len(promotions) + 1)
  /\ UNCHANGED day

\* What Active answers.
Runs(b) ==
  IF b.promotion = 0 \/ ~Expired(b) THEN {b.profile} ELSE Resolve(b.previous)

\* Mutation: the binding does not remember that its lapse was audited.
Unnoted(b) == b

Noted(b) == [b EXCEPT !.noted = TRUE]

\* A read of an expired promotion audits the lapse, once.
Active ==
  /\ Room
  /\ binding # Unbound /\ binding.promotion # 0 /\ Expired(binding) /\ ~binding.noted
  /\ Audit("promotion_lapsed", binding.promotion)
  /\ binding' = Noted(binding)
  /\ UNCHANGED <<promotions, day>>

\* With a reason; the landing's own previous is a floor.
Rollback ==
  /\ Room
  /\ binding # Unbound
  /\ \E landing \in Resolve(binding.previous), floor \in Floors :
       binding' = Bound(landing, 0, floor.key, 0)
  /\ Audit("promotion_rolled_back", binding.promotion)
  /\ UNCHANGED <<promotions, day>>

PassDay ==
  /\ day < MaxPromotionTime
  /\ day' = day + 1
  /\ UNCHANGED <<binding, promotions, trail>>

PromotionNext ==
  \/ \E req \in RequestsMade, expires \in 0..(MaxPromotionTime + MaxExpiry) :
       Promote(req, expires)
  \/ Active
  \/ Rollback
  \/ PassDay

PromotionSpec == PromotionInit /\ [][PromotionNext]_promotionVars

-----------------------------------------------------------------------------
(* Properties                                                                *)

PromotionTypeOK ==
  /\ binding = Unbound
     \/ /\ binding.profile \in ProfileShapes /\ binding.promotion \in 0..Len(promotions)
        /\ binding.previous \in STRING /\ binding.expires \in Nat /\ binding.noted \in BOOLEAN
  /\ \A n \in DOMAIN promotions :
       promotions[n].candidate \in Preapproved /\ promotions[n].expires > promotions[n].granted
  /\ \A i \in DOMAIN trail : trail[i].promotion \in 0..Len(promotions)
  /\ day \in 0..MaxPromotionTime

\* Through promotions over promotions, lapses and rollbacks, what the tenant runs,
\* and what a lapse or a rollback would restore, is a preapproved profile that
\* still has the hard boundary (promotion.go:43-46).
HardControlsKept ==
  binding # Unbound =>
    \A p \in Runs(binding) \cup Resolve(binding.previous) :
      p \in Preapproved /\ RunsRequiredLayers(p)

\* A promotion's lapse is audited at most once, after its expiry, and neither
\* before it was granted nor after it was rolled back (promotion.go:593-595).
LapsedOnce ==
  \A j \in DOMAIN trail : trail[j].kind = "promotion_lapsed" =>
    /\ promotions[trail[j].promotion].expires <= day
    /\ \A i \in DOMAIN trail \ {j} : trail[i].promotion = trail[j].promotion =>
         trail[i].kind = (IF i < j THEN "promotion_granted" ELSE "promotion_rolled_back")

\* promotion.go:17-19: "every promotion is bounded -- it expires, and expiry
\* lapses the binding back without anyone asking".  With no rollback in the trail,
\* a profile that is no floor runs only while some promotion of it is unexpired.
RunsWithinBound ==
  binding # Unbound /\ (\A i \in DOMAIN trail : trail[i].kind # "promotion_rolled_back") =>
    \A p \in Runs(binding) \ Floors :
      \E n \in DOMAIN promotions : promotions[n].candidate = p /\ promotions[n].expires > day
=============================================================================
