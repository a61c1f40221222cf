---------------------------- MODULE GovernorProofs ----------------------------
(***************************************************************************)
(* Proofs about Governor for every set of runs, experiments, sessions and  *)
(* envelopes: types, the bound on concurrent leases, the lease bounds, the *)
(* silence of stopped scopes and overspent runs, one handoff per ended     *)
(* run, and what one step may do to a run.                                 *)
(***************************************************************************)
EXTENDS Governor, FiniteSetTheorems, TLAPS

\* The inductive invariant.
IInv == TypeOK /\ (\A r \in RunIds : Sound(r)) /\ ConcurrencyHolds

\* A run that has not started has a typed record.
LEMMA NoRunType == NoRun \in GovernedRuns
BY DEF NoRun, GovernedRuns

\* The rules never leave a condition without one of the three actions.
LEMMA ActionType ==
  ASSUME NEW env \in Envelopes, NEW c \in Conditions
  PROVE  ActionFor(env, c) \in Actions
BY DEF ActionFor, Envelopes, Actions

\* Raised claims are still natural numbers for every session.
LEMMA RaisedType ==
  ASSUME NEW s1 \in [Sessions -> Nat], NEW s2 \in [Sessions -> Nat]
  PROVE  Raised(s1, s2) \in [Sessions -> Nat]
BY DEF Raised

\* What tripping does to an active run: the grant and the spend stay, nothing
\* injects afterwards, and the run goes on without a handoff or ends with one.
LEMMA TripEffect ==
  ASSUME NEW x \in GovernedRuns, NEW c \in Conditions, NEW a \in Actions,
         x.state = "active", x.handoffs = {}, x.injecting => x.tripped = {}
  PROVE  LET y == Tripped(x, c, a) IN
         /\ y \in GovernedRuns
         /\ y.of = x.of /\ y.expires = x.expires /\ y.deadline = x.deadline
         /\ y.state # "none" /\ ~y.injecting
         /\ IF y.state \in {"fenced", "stopped"} THEN y.handoffs = {c} ELSE y.handoffs = {}
<1>1. CASE c \in x.tripped
  <2>1. Tripped(x, c, a) = x
    BY <1>1 DEF Tripped
  <2>2. ~x.injecting
    BY <1>1
  <2>3. QED
    BY <2>1, <2>2 DEF GovernedRuns
<1>2. CASE c \notin x.tripped
  <2>1. Tripped(x, c, a) = Applied(x, c, a)
    BY <1>2 DEF Tripped
  <2>2. x.tripped \cup {c} \in SUBSET Conditions /\ {c} \in SUBSET Conditions
    BY DEF GovernedRuns
  <2>3. PICK st \in {"active", "fenced", "stopped"}, h \in SUBSET Conditions :
          /\ Applied(x, c, a) = [x EXCEPT !.tripped = x.tripped \cup {c}, !.injecting = FALSE,
                                          !.state = st, !.handoffs = h]
          /\ h = IF st = "active" THEN {} ELSE {c}
    <3>1. CASE a = "stop_injection"
      <4>1. Applied(x, c, a) = [x EXCEPT !.tripped = x.tripped \cup {c}, !.injecting = FALSE,
                                         !.state = "active", !.handoffs = {}]
        BY <3>1 DEF Applied, Actions, GovernedRuns
      <4>2. QED
        BY <4>1
    <3>2. CASE a = "fence_effects"
      <4>1. Applied(x, c, a) = [x EXCEPT !.tripped = x.tripped \cup {c}, !.injecting = FALSE,
                                         !.state = "fenced", !.handoffs = {c}]
        BY <3>2 DEF Applied, Actions, GovernedRuns
      <4>2. QED
        BY <4>1
    <3>3. CASE a = "terminate"
      <4>1. Applied(x, c, a) = [x EXCEPT !.tripped = x.tripped \cup {c}, !.injecting = FALSE,
                                         !.state = "stopped", !.handoffs = {c}]
        BY <3>3 DEF Applied, Actions, GovernedRuns
      <4>2. QED
        BY <4>1
    <3>4. QED
      BY <3>1, <3>2, <3>3 DEF Actions
  <2>4. Applied(x, c, a) \in GovernedRuns
    BY <2>2, <2>3 DEF GovernedRuns
  <2>5. /\ Applied(x, c, a).of = x.of
        /\ Applied(x, c, a).expires = x.expires
        /\ Applied(x, c, a).deadline = x.deadline
        /\ Applied(x, c, a).injecting = FALSE
    BY <2>3 DEF GovernedRuns
  <2>6. /\ Applied(x, c, a).state \in {"active", "fenced", "stopped"}
        /\ Applied(x, c, a).handoffs = IF Applied(x, c, a).state = "active" THEN {} ELSE {c}
    BY <2>3 DEF GovernedRuns
  <2>7. QED
    BY <2>1, <2>4, <2>5, <2>6
<1>3. QED
  BY <1>1, <1>2

\* A step that adds no live lease to any experiment keeps every budget.
LEMMA ShrinkingSlots ==
  ASSUME TypeOK, ConcurrencyHolds, envelope' = envelope,
         \A e \in Experiments : Granted(e)' \subseteq Granted(e)
  PROVE  ConcurrencyHolds'
<1>1. SUFFICES ASSUME NEW e \in Experiments, envelope[e] # None
               PROVE  Cardinality(Granted(e)') <= envelope[e].concurrent
  BY DEF ConcurrencyHolds
<1>2. IsFiniteSet(Granted(e))
  BY GovernorAssumption, FS_Subset DEF Granted
<1>3. Cardinality(Granted(e)') <= Cardinality(Granted(e)) /\ IsFiniteSet(Granted(e)')
  BY <1>2, FS_Subset
<1>4. Cardinality(Granted(e)) \in Nat /\ Cardinality(Granted(e)') \in Nat
  BY <1>2, <1>3, FS_CardinalityType
<1>5. envelope[e].concurrent \in Nat
  BY <1>1 DEF TypeOK, Envelopes
<1>6. Cardinality(Granted(e)) <= envelope[e].concurrent
  BY <1>1 DEF ConcurrencyHolds
<1>7. QED
  BY <1>3, <1>4, <1>5, <1>6

\* The lease a grant or a renewal gets, by the clock and the deadline alone.
LEMMA LeaseEndBounds ==
  ASSUME TypeOK, NEW d \in Nat
  PROVE  LeaseEnd(d) \in Nat /\ LeaseEnd(d) <= d /\ LeaseEnd(d) <= now + LeaseTTL
BY GovernorAssumption DEF LeaseEnd, TypeOK

\* The empty registry is sound.
LEMMA InitInv == Init => IInv
<1> SUFFICES ASSUME Init PROVE IInv
  OBVIOUS
<1>1. TypeOK
  BY NoRunType DEF Init, TypeOK
<1>2. ASSUME NEW r \in RunIds PROVE Sound(r)
  BY DEF Init, Sound, NoRun
<1>3. ConcurrencyHolds
  BY DEF Init, ConcurrencyHolds
<1>4. QED
  BY <1>1, <1>2, <1>3 DEF IInv

\* The records a trip may replace run r's record by, with more spend on record.
LEMMA TripKeeps ==
  ASSUME IInv, NEW r \in RunIds, NEW x \in GovernedRuns, NEW c \in Conditions,
         run[r].state = "active", x.state = "active",
         x.of = run[r].of, x.expires = run[r].expires, x.deadline = run[r].deadline,
         x.handoffs = run[r].handoffs, x.tripped = run[r].tripped,
         x.injecting = run[r].injecting,
         Trip(r, x, c)
  PROVE  IInv'
<1> DEFINE y == Tripped(x, c, ActionFor(Env(r), c))
<1>1. Sound(r) /\ TypeOK
  BY DEF IInv
<1>2. Env(r) \in Envelopes
  BY <1>1 DEF TypeOK, Sound, Env
<1>3. ActionFor(Env(r), c) \in Actions
  BY <1>2, ActionType
<1>4. x.handoffs = {} /\ (x.injecting => x.tripped = {})
  BY <1>1 DEF Sound
<1>5. /\ y \in GovernedRuns
      /\ y.of = x.of /\ y.expires = x.expires /\ y.deadline = x.deadline
      /\ y.state # "none" /\ ~y.injecting
      /\ IF y.state \in {"fenced", "stopped"} THEN y.handoffs = {c} ELSE y.handoffs = {}
  BY <1>3, <1>4, TripEffect
<1>6. run' = [run EXCEPT ![r] = y] /\ UNCHANGED <<now, envelope, fenced, tenantFenced>>
  BY DEF Trip, registry
<1>7. TypeOK'
  BY <1>1, <1>5, <1>6 DEF TypeOK
<1>8. ASSUME NEW q \in RunIds PROVE Sound(q)'
  <2>1. CASE q = r
    BY <2>1, <1>1, <1>5, <1>6 DEF Sound, TypeOK
  <2>2. CASE q # r
    <3>1. run'[q] = run[q]
      BY <2>2, <1>1, <1>6 DEF TypeOK
    <3>2. Sound(q)
      BY DEF IInv
    <3>3. QED
      BY <3>1, <3>2, <1>6 DEF Sound, OverBudget
  <2>3. QED
    BY <2>1, <2>2
<1>9. \A e \in Experiments : Granted(e)' \subseteq Granted(e)
  BY <1>1, <1>5, <1>6 DEF Granted, TypeOK
<1>10. ConcurrencyHolds'
  BY <1>1, <1>6, <1>9, ShrinkingSlots DEF IInv
<1>11. QED
  BY <1>7, <1>8, <1>10 DEF IInv

\* A registration: no run can hold authority under an experiment that has none.
LEMMA RegisterKeeps ==
  ASSUME IInv, NEW e \in Experiments, NEW env \in Offered[e], RegisterEnvelope(e, env)
  PROVE  IInv'
<1>1. TypeOK /\ env \in Envelopes /\ env # None
  BY GovernorAssumption DEF IInv
<1>2. /\ envelope[e] = None /\ envelope' = [envelope EXCEPT ![e] = env]
      /\ UNCHANGED <<now, fenced, tenantFenced, run>>
  BY DEF RegisterEnvelope
<1>3. TypeOK'
  BY <1>1, <1>2 DEF TypeOK
<1>4. ASSUME NEW q \in RunIds PROVE Sound(q)' /\ ~(run[q].state = "active" /\ run[q].of = e)
  <2>1. Sound(q)
    BY DEF IInv
  <2>2. CASE run[q].state = "none"
    BY <1>2, <2>1, <2>2 DEF Sound, NoRun
  <2>3. CASE run[q].state # "none"
    <3>1. run[q].of \in Experiments /\ run[q].of # e
      BY <1>2, <2>1, <2>3 DEF Sound
    <3>2. envelope'[run[q].of] = envelope[run[q].of]
      BY <1>1, <1>2, <3>1 DEF TypeOK
    <3>3. QED
      BY <1>2, <2>1, <2>3, <3>1, <3>2 DEF Sound, OverBudget
  <2>4. QED
    BY <2>2, <2>3
<1>5. ASSUME NEW f \in Experiments, envelope'[f] # None
      PROVE  Cardinality(Granted(f)') <= envelope'[f].concurrent
  <2>1. Granted(f)' = Granted(f)
    BY <1>2 DEF Granted
  <2>2. CASE f = e
    <3>1. Granted(f) = {}
      BY <1>4, <2>2 DEF Granted
    <3>2. envelope'[f] = env /\ env.concurrent \in Nat
      BY <1>1, <1>2, <2>2 DEF TypeOK, Envelopes
    <3>3. QED
      BY <2>1, <3>1, <3>2, FS_EmptySet
  <2>3. CASE f # e
    BY <1>1, <1>2, <1>5, <2>1, <2>3 DEF TypeOK, IInv, ConcurrencyHolds
  <2>4. QED
    BY <2>2, <2>3
<1>6. ConcurrencyHolds'
  BY <1>5 DEF ConcurrencyHolds
<1>7. QED
  BY <1>3, <1>4, <1>6 DEF IInv

\* One more run holds at most one more slot.
LEMMA OneMore ==
  ASSUME NEW S, NEW x, IsFiniteSet(S)
  PROVE  IsFiniteSet(S \cup {x}) /\ Cardinality(S \cup {x}) <= Cardinality(S) + 1
<1>1. Cardinality(S) \in Nat
  BY FS_CardinalityType
<1>2. QED
  BY <1>1, FS_AddElement

\* A start: the new lease takes a slot that was counted free.
LEMMA StartKeeps ==
  ASSUME IInv, NEW r \in RunIds, NEW e \in Experiments, StartRun(r, e)
  PROVE  IInv'
<1> DEFINE deadline == now + envelope[e].duration
           y == [NoRun EXCEPT !.state = "active", !.of = e, !.injecting = TRUE, !.gen = 1,
                              !.expires = LeaseEnd(deadline), !.deadline = deadline]
<1>1. /\ run[r].state = "none" /\ Open(e)
      /\ Cardinality(Granted(e)) < envelope[e].concurrent
      /\ run' = [run EXCEPT ![r] = y]
  BY DEF StartRun
<1>0. UNCHANGED <<now, envelope, fenced, tenantFenced>>
  BY DEF StartRun, registry
<1>2. TypeOK
  BY DEF IInv
<1>3. envelope[e] \in Envelopes
  BY <1>1, <1>2 DEF TypeOK, Open
<1>4. deadline \in Nat
  BY <1>2, <1>3 DEF TypeOK, Envelopes
<1>5. LeaseEnd(deadline) \in Nat /\ LeaseEnd(deadline) <= deadline
                                 /\ LeaseEnd(deadline) <= now + LeaseTTL
  BY <1>2, <1>4, LeaseEndBounds
<1>6. y \in GovernedRuns
  BY <1>4, <1>5 DEF NoRun, GovernedRuns
<1>7. TypeOK'
  BY <1>0, <1>1, <1>2, <1>6 DEF TypeOK
<1>8. ~OverBudget(envelope[e], [s \in Sessions |-> 0])
  <2>1. SumFunction([s \in Sessions |-> 0]) = 0
    BY GovernorAssumption
  <2>2. QED
    BY <1>3, <2>1 DEF OverBudget, Envelopes
<1>9. ASSUME NEW q \in RunIds PROVE Sound(q)'
  <2>1. CASE q = r
    <3>1. run'[q] = y
      BY <1>1, <1>2, <2>1 DEF TypeOK
    <3>2. /\ run'[q].state = "active" /\ run'[q].of = e /\ run'[q].expires = LeaseEnd(deadline)
          /\ run'[q].deadline = deadline /\ run'[q].tripped = {} /\ run'[q].handoffs = {}
          /\ run'[q].spend = [s \in Sessions |-> 0]
      BY <3>1 DEF NoRun
    <3>3. /\ ~tenantFenced' /\ e \notin fenced' /\ envelope'[e] # None
          /\ envelope' = envelope /\ now' = now
      BY <1>0, <1>1 DEF Open
    <3>4. ~OverBudget(envelope'[e], run'[q].spend)
      BY <1>8, <3>2, <3>3
    <3> HIDE DEF y, deadline
    <3>5. /\ run'[q].expires <= now' + LeaseTTL /\ run'[q].expires <= run'[q].deadline
      BY <1>5, <3>2, <3>3
    <3>6. QED
      BY <3>2, <3>3, <3>4, <3>5 DEF Sound, OverBudget
  <2>2. CASE q # r
    <3>1. run'[q] = run[q]
      BY <1>1, <1>2, <2>2 DEF TypeOK
    <3>2. Sound(q)
      BY DEF IInv
    <3>3. QED
      BY <1>0, <3>1, <3>2 DEF Sound, OverBudget
  <2>3. QED
    BY <2>1, <2>2
<1>10. ASSUME NEW f \in Experiments, envelope[f] # None
       PROVE  Cardinality(Granted(f)') <= envelope[f].concurrent
  <2>1. IsFiniteSet(Granted(f)) /\ Cardinality(Granted(f)) \in Nat
    BY GovernorAssumption, FS_Subset, FS_CardinalityType DEF Granted
  <2>2. envelope[f].concurrent \in Nat
    BY <1>2, <1>10 DEF TypeOK, Envelopes
  <2>3. CASE f = e
    <3>1. Granted(f)' \subseteq Granted(f) \cup {r}
      BY <1>0, <1>1, <1>2, <2>3 DEF Granted, TypeOK
    <3>2. /\ IsFiniteSet(Granted(f) \cup {r})
          /\ Cardinality(Granted(f) \cup {r}) <= Cardinality(Granted(f)) + 1
      BY <2>1, OneMore
    <3>3. /\ Cardinality(Granted(f)') <= Cardinality(Granted(f) \cup {r})
          /\ IsFiniteSet(Granted(f)')
      BY <3>1, <3>2, FS_Subset
    <3>4. Cardinality(Granted(f)') \in Nat /\ Cardinality(Granted(f) \cup {r}) \in Nat
      BY <3>2, <3>3, FS_CardinalityType
    <3>5. QED
      BY <1>1, <2>1, <2>2, <2>3, <3>2, <3>3, <3>4
  <2>4. CASE f # e
    <3>1. Granted(f)' = Granted(f)
      BY <1>0, <1>1, <1>2, <2>4 DEF Granted, TypeOK, NoRun
    <3>2. QED
      BY <1>10, <3>1 DEF IInv, ConcurrencyHolds
  <2>5. QED
    BY <2>3, <2>4
<1>11. ConcurrencyHolds'
  BY <1>0, <1>10 DEF ConcurrencyHolds
<1>12. QED
  BY <1>7, <1>9, <1>11 DEF IInv

\* A beat in time that renews: the lease moves forward inside its bounds, and the
\* run already held the slot it keeps.
LEMMA RenewKeeps ==
  ASSUME IInv, NEW r \in RunIds, NEW g \in 0..MaxGen, NEW b \in Beats, RenewingBeat(r, g, b)
  PROVE  IInv'
<1> DEFINE spend == Raised(run[r].spend, b.claims)
           lease == LeaseEnd(run[r].deadline)
           y == [run[r] EXCEPT !.spend = spend, !.gen = run[r].gen + 1,
                               !.expires = lease, !.observed = b.observed]
<1>1. TypeOK /\ Sound(r) /\ run[r] \in GovernedRuns /\ b \in BeatShapes
  BY GovernorAssumption DEF IInv, TypeOK
<1>2. run[r].state = "active" /\ now < run[r].expires
  BY <1>1 DEF RenewingBeat, Timely, Lapsed, TypeOK, GovernedRuns
<1>3. spend \in [Sessions -> Nat]
  BY <1>1, RaisedType DEF GovernedRuns, BeatShapes
<1>4. ~OverBudget(envelope[run[r].of], spend)
  <2>1. Claimed(r, b).spend = spend
    BY <1>1 DEF Claimed, GovernedRuns
  <2>2. QED
    BY <2>1 DEF RenewingBeat, Env
<1>5. lease \in Nat /\ lease <= run[r].deadline /\ lease <= now + LeaseTTL
  BY <1>1, LeaseEndBounds DEF GovernedRuns
<1>6. UNCHANGED <<now, envelope, fenced, tenantFenced>>
  BY DEF RenewingBeat, registry
<1>7. run' = [run EXCEPT ![r] = y]
  <2>1. [Claimed(r, b) EXCEPT !.gen = @ + 1, !.expires = lease, !.observed = b.observed] = y
    BY <1>1 DEF Claimed, GovernedRuns
  <2>2. QED
    BY <2>1 DEF RenewingBeat
<1>8. y \in GovernedRuns
  <2>1. run[r].gen + 1 \in Nat /\ b.observed \in SUBSET Targets
    BY <1>1 DEF GovernedRuns, BeatShapes
  <2> HIDE DEF spend, lease
  <2>2. QED
    BY <1>1, <1>3, <1>5, <2>1 DEF GovernedRuns
<1>9. /\ y.state = "active" /\ y.of = run[r].of /\ y.injecting = run[r].injecting
      /\ y.tripped = run[r].tripped /\ y.handoffs = run[r].handoffs
      /\ y.deadline = run[r].deadline /\ y.expires = lease /\ y.spend = spend
  BY <1>1, <1>2 DEF GovernedRuns
<1> HIDE DEF y, spend, lease
<1>10. run'[r] = y /\ \A q \in RunIds : q # r => run'[q] = run[q]
  BY <1>1, <1>7 DEF TypeOK
<1>11. TypeOK'
  BY <1>1, <1>6, <1>7, <1>8 DEF TypeOK
<1>12. ASSUME NEW q \in RunIds PROVE Sound(q)'
  <2>1. CASE q = r
    <3>1. run'[q] = y /\ y.of \in Experiments /\ envelope'[y.of] # None
      BY <1>1, <1>2, <1>6, <1>9, <1>10, <2>1 DEF Sound
    <3>2. y.injecting => y.tripped = {} /\ ~tenantFenced' /\ y.of \notin fenced'
      BY <1>1, <1>6, <1>9 DEF Sound
    <3>3. y.handoffs = {}
      BY <1>1, <1>2, <1>9 DEF Sound
    <3>4. y.expires <= now' + LeaseTTL /\ y.expires <= y.deadline
      BY <1>5, <1>6, <1>9
    <3>5. ~OverBudget(envelope'[y.of], y.spend)
      BY <1>4, <1>6, <1>9
    <3>6. QED
      BY <1>9, <3>1, <3>2, <3>3, <3>4, <3>5 DEF Sound, OverBudget
  <2>2. CASE q # r
    <3>1. run'[q] = run[q] /\ Sound(q)
      BY <1>10, <2>2 DEF IInv
    <3>2. QED
      BY <1>6, <3>1 DEF Sound, OverBudget
  <2>3. QED
    BY <2>1, <2>2
<1>13. \A e \in Experiments : Granted(e)' \subseteq Granted(e)
  BY <1>2, <1>6, <1>9, <1>10 DEF Granted
<1>14. ConcurrencyHolds'
  BY <1>1, <1>6, <1>13, ShrinkingSlots DEF IInv
<1>15. QED
  BY <1>11, <1>12, <1>14 DEF IInv

\* A handler that trips several active runs at once, each by its own action, as
\* the sweep and the emergency stop do.  A run it does not reach must be outside
\* the scopes that are under a stop afterwards if it injects.
LEMMA StopKeeps ==
  ASSUME IInv, NEW reached \in SUBSET RunIds, NEW c \in Conditions,
         NEW action \in [RunIds -> Actions],
         \A r \in reached : run[r].state = "active",
         run' = [r \in RunIds |-> IF r \in reached THEN Tripped(run[r], c, action[r]) ELSE run[r]],
         UNCHANGED <<now, envelope>>,
         fenced' \subseteq Experiments, tenantFenced' \in BOOLEAN,
         \A r \in RunIds \ reached :
            run[r].injecting => ~tenantFenced' /\ run[r].of \notin fenced'
  PROVE  IInv'
<1>1. TypeOK
  BY DEF IInv
<1>2. ASSUME NEW r \in reached
      PROVE  /\ run'[r] \in GovernedRuns
             /\ run'[r].of = run[r].of /\ run'[r].expires = run[r].expires
             /\ run'[r].deadline = run[r].deadline
             /\ run'[r].state # "none" /\ ~run'[r].injecting
             /\ IF run'[r].state \in {"fenced", "stopped"} THEN run'[r].handoffs = {c}
                                                           ELSE run'[r].handoffs = {}
  <2>1. run[r] \in GovernedRuns /\ action[r] \in Actions /\ run[r].state = "active"
    BY <1>1 DEF TypeOK
  <2>2. run[r].handoffs = {} /\ (run[r].injecting => run[r].tripped = {})
    BY <2>1 DEF IInv, Sound
  <2>3. run'[r] = Tripped(run[r], c, action[r])
    OBVIOUS
  <2>4. QED
    BY <2>1, <2>2, <2>3, TripEffect
<1>3. \A r \in RunIds \ reached : run'[r] = run[r]
  OBVIOUS
<1>4. TypeOK'
  <2>1. \A r \in RunIds : run'[r] \in GovernedRuns
    BY <1>1, <1>2, <1>3 DEF TypeOK
  <2>2. run' \in [RunIds -> GovernedRuns]
    BY <2>1
  <2>3. QED
    BY <1>1, <2>2 DEF TypeOK
<1>5. ASSUME NEW q \in RunIds PROVE Sound(q)'
  <2>1. Sound(q)
    BY DEF IInv
  <2>2. CASE q \in reached
    <3>1. run[q].state = "active"
      BY <2>2
    <3>2. QED
      BY <1>2, <2>1, <2>2, <3>1 DEF Sound
  <2>3. CASE q \notin reached
    BY <1>3, <2>1, <2>3 DEF Sound, OverBudget
  <2>4. QED
    BY <2>2, <2>3
<1>6. \A e \in Experiments : Granted(e)' \subseteq Granted(e)
  <2>1. \A q \in RunIds : /\ run'[q].of = run[q].of /\ run'[q].expires = run[q].expires
                          /\ run'[q].state = "active" => run[q].state = "active"
    BY <1>2, <1>3
  <2>2. QED
    BY <2>1 DEF Granted
<1>7. ConcurrencyHolds'
  BY <1>1, <1>6, ShrinkingSlots DEF IInv
<1>8. QED
  BY <1>4, <1>5, <1>7 DEF IInv

\* The emergency stop reaches every injecting run of the scope it closes.
LEMMA EmergencyKeeps ==
  ASSUME IInv, NEW scope \in Experiments \cup {None}, EmergencyStop(scope)
  PROVE  IInv'
<1> DEFINE reached == {r \in RunIds : Reached(run[r], scope)}
           action == [r \in RunIds |-> "terminate"]
<1>1. action \in [RunIds -> Actions] /\ "operator_request" \in Conditions
  BY DEF Actions, Conditions
<1>2. TypeOK
  BY DEF IInv
<1>3. \A r \in reached : run[r].state = "active"
  BY DEF Reached
<1>4. run' = [r \in RunIds |->
        IF r \in reached THEN Tripped(run[r], "operator_request", action[r]) ELSE run[r]]
  BY DEF EmergencyStop
<1>5. /\ UNCHANGED <<now, envelope>>
      /\ fenced' \subseteq Experiments /\ tenantFenced' \in BOOLEAN
  BY <1>2 DEF EmergencyStop, TypeOK
<1>6. ASSUME NEW r \in RunIds \ reached, run[r].injecting
      PROVE  ~tenantFenced' /\ run[r].of \notin fenced'
  <2>1. run[r].state = "active" /\ ~tenantFenced /\ run[r].of \notin fenced
    BY <1>6 DEF IInv, Sound
  <2>2. scope # None /\ run[r].of # scope
    BY <2>1 DEF Reached
  <2>3. QED
    BY <2>1, <2>2 DEF EmergencyStop
<1>7. QED
  BY <1>1, <1>3, <1>4, <1>5, <1>6, StopKeeps

\* The sweep reaches the lapsed runs and closes no scope.
LEMMA SweepKeeps == IInv /\ Sweep => IInv'
<1> SUFFICES ASSUME IInv, Sweep PROVE IInv'
  OBVIOUS
<1> DEFINE reached == {r \in RunIds : Lapsed(run[r])}
           action == [r \in RunIds |-> IF r \in reached THEN ActionFor(Env(r), "grant_expiry")
                                                        ELSE "terminate"]
<1>1. "grant_expiry" \in Conditions /\ "terminate" \in Actions
  BY DEF Actions, Conditions
<1>2. TypeOK
  BY DEF IInv
<1>3. \A r \in reached : run[r].state = "active"
  BY DEF Lapsed
<1>4. \A r \in reached : Env(r) \in Envelopes
  BY <1>2, <1>3 DEF IInv, Sound, TypeOK, Env
<1>5. action \in [RunIds -> Actions]
  BY <1>1, <1>4, ActionType
<1>6. run' = [r \in RunIds |->
        IF r \in reached THEN Tripped(run[r], "grant_expiry", action[r]) ELSE run[r]]
  BY DEF Sweep
<1>7. UNCHANGED <<now, envelope, fenced, tenantFenced>>
  BY DEF Sweep, registry
<1>8. \A r \in RunIds \ reached :
        run[r].injecting => ~tenantFenced' /\ run[r].of \notin fenced'
  BY <1>7 DEF IInv, Sound
<1>9. fenced' \subseteq Experiments /\ tenantFenced' \in BOOLEAN
  BY <1>2, <1>7 DEF TypeOK
<1>10. QED
  BY <1>1, <1>3, <1>5, <1>6, <1>7, <1>8, <1>9, StopKeeps

\* A beat that trips may first put its claims on record; the record stays typed.
LEMMA BeatKeeps ==
  ASSUME IInv, NEW r \in RunIds, NEW g \in 0..MaxGen, NEW b \in Beats, Heartbeat(r, g, b)
  PROVE  IInv'
<1>1. TypeOK /\ run[r] \in GovernedRuns /\ b \in BeatShapes
  BY GovernorAssumption DEF IInv, TypeOK
<1>2. CASE LateBeat(r)
  <2>1. run[r].state = "active" /\ Trip(r, run[r], "grant_expiry")
    BY <1>2 DEF LateBeat, Lapsed
  <2>2. "grant_expiry" \in Conditions
    BY DEF Conditions
  <2>3. QED
    BY <1>1, <2>1, <2>2, TripKeeps
<1>3. CASE ExpandingBeat(r, g, b)
  <2>1. run[r].state = "active" /\ Trip(r, run[r], "unexpected_target_expansion")
    BY <1>3 DEF ExpandingBeat, Timely
  <2>2. "unexpected_target_expansion" \in Conditions
    BY DEF Conditions
  <2>3. QED
    BY <1>1, <2>1, <2>2, TripKeeps
<1>4. CASE CostlyBeat(r, g, b)
  <2>1. run[r].state = "active" /\ Trip(r, Claimed(r, b), "budget_exhaustion")
    BY <1>4 DEF CostlyBeat, Timely
  <2>2. "budget_exhaustion" \in Conditions
    BY DEF Conditions
  <2>3. Raised(run[r].spend, b.claims) \in [Sessions -> Nat]
    BY <1>1, RaisedType DEF GovernedRuns, BeatShapes
  <2>4. /\ Claimed(r, b) \in GovernedRuns
        /\ Claimed(r, b).state = run[r].state /\ Claimed(r, b).of = run[r].of
        /\ Claimed(r, b).expires = run[r].expires /\ Claimed(r, b).deadline = run[r].deadline
        /\ Claimed(r, b).handoffs = run[r].handoffs /\ Claimed(r, b).tripped = run[r].tripped
        /\ Claimed(r, b).injecting = run[r].injecting
    BY <1>1, <2>3 DEF Claimed, GovernedRuns
  <2>5. QED
    BY <2>1, <2>2, <2>4, TripKeeps
<1>5. CASE RenewingBeat(r, g, b)
  BY <1>5, RenewKeeps
<1>6. QED
  BY <1>2, <1>3, <1>4, <1>5 DEF Heartbeat

\* A cleanup report touches only the ended run's verdict.
LEMMA CleanupKeeps ==
  ASSUME IInv, NEW r \in RunIds, NEW t \in {"CLEAN", "DIRTY_QUARANTINED", "UNKNOWN"},
         ReportCleanupState(r, t)
  PROVE  IInv'
<1> DEFINE y == [run[r] EXCEPT !.cleanup = t]
<1>1. TypeOK /\ run[r] \in GovernedRuns
  BY DEF IInv, TypeOK
<1>2. run' = [run EXCEPT ![r] = y] /\ run[r].state \in {"fenced", "stopped"}
  BY DEF ReportCleanupState
<1>3. UNCHANGED <<now, envelope, fenced, tenantFenced>>
  BY DEF ReportCleanupState, registry
<1>4. y \in GovernedRuns
  BY <1>1 DEF GovernedRuns
<1>5. /\ y.state = run[r].state /\ y.of = run[r].of /\ y.injecting = run[r].injecting
      /\ y.tripped = run[r].tripped /\ y.handoffs = run[r].handoffs
      /\ y.deadline = run[r].deadline /\ y.expires = run[r].expires /\ y.spend = run[r].spend
  BY <1>1 DEF GovernedRuns
<1> HIDE DEF y
<1>6. run'[r] = y /\ \A q \in RunIds : q # r => run'[q] = run[q]
  BY <1>1, <1>2 DEF TypeOK
<1>7. TypeOK'
  BY <1>1, <1>2, <1>3, <1>4 DEF TypeOK
<1>8. ASSUME NEW q \in RunIds PROVE Sound(q)'
  <2>1. Sound(q)
    BY DEF IInv
  <2>2. CASE q = r
    BY <1>2, <1>3, <1>5, <1>6, <2>1, <2>2 DEF Sound, OverBudget
  <2>3. CASE q # r
    BY <1>3, <1>6, <2>1, <2>3 DEF Sound, OverBudget
  <2>4. QED
    BY <2>2, <2>3
<1>9. \A e \in Experiments : Granted(e)' \subseteq Granted(e)
  BY <1>3, <1>5, <1>6 DEF Granted
<1>10. ConcurrencyHolds'
  BY <1>1, <1>3, <1>9, ShrinkingSlots DEF IInv
<1>11. QED
  BY <1>7, <1>8, <1>10 DEF IInv

\* Time only takes leases away.
LEMMA TickKeeps == IInv /\ Tick => IInv'
<1> SUFFICES ASSUME IInv, Tick PROVE IInv'
  OBVIOUS
<1>1. TypeOK /\ now' = now + 1 /\ UNCHANGED <<envelope, fenced, tenantFenced, run>>
  BY DEF IInv, Tick, registry
<1>2. TypeOK'
  BY <1>1 DEF TypeOK
<1>3. ASSUME NEW q \in RunIds PROVE Sound(q)'
  <2>1. Sound(q) /\ run[q].expires \in Nat /\ now \in Nat /\ LeaseTTL \in Nat
    BY <1>1, GovernorAssumption DEF IInv, TypeOK, GovernedRuns
  <2>2. QED
    BY <1>1, <2>1 DEF Sound, OverBudget
<1>4. \A e \in Experiments : Granted(e)' \subseteq Granted(e)
  <2>1. \A q \in RunIds : now + 1 < run[q].expires => now < run[q].expires
    BY <1>1 DEF TypeOK, GovernedRuns
  <2>2. QED
    BY <1>1, <2>1 DEF Granted
<1>5. ConcurrencyHolds'
  BY <1>1, <1>4, ShrinkingSlots DEF IInv
<1>6. QED
  BY <1>2, <1>3, <1>5 DEF IInv

\* Each handler in turn.
LEMMA NextInv == IInv /\ [Next]_vars => IInv'
<1> SUFFICES ASSUME IInv, [Next]_vars PROVE IInv'
  OBVIOUS
<1>1. ASSUME NEW e \in Experiments, NEW env \in Offered[e], RegisterEnvelope(e, env)
      PROVE  IInv'
  BY <1>1, RegisterKeeps
<1>2. ASSUME NEW r \in RunIds, NEW e \in Experiments, StartRun(r, e)
      PROVE  IInv'
  BY <1>2, StartKeeps
<1>3. ASSUME NEW r \in RunIds, NEW g \in 0..MaxGen, NEW b \in Beats, Heartbeat(r, g, b)
      PROVE  IInv'
  BY <1>3, BeatKeeps
<1>4. ASSUME NEW r \in RunIds, NEW c \in Incidents, ReportIncident(r, c)
      PROVE  IInv'
  <2>1. run[r] \in GovernedRuns /\ c \in Conditions
    BY GovernorAssumption DEF IInv, TypeOK
  <2>2. run[r].state = "active" /\ Trip(r, run[r], c)
    BY <1>4 DEF ReportIncident
  <2>3. QED
    BY <2>1, <2>2, TripKeeps
<1>5. ASSUME NEW scope \in Experiments \cup {None}, EmergencyStop(scope)
      PROVE  IInv'
  BY <1>5, EmergencyKeeps
<1>6. CASE Sweep
  BY <1>6, SweepKeeps
<1>7. ASSUME NEW r \in RunIds, NEW t \in {"CLEAN", "DIRTY_QUARANTINED", "UNKNOWN"},
             ReportCleanupState(r, t)
      PROVE  IInv'
  BY <1>7, CleanupKeeps
<1>8. CASE Tick
  BY <1>8, TickKeeps
<1>9. CASE UNCHANGED vars
  <2>1. UNCHANGED <<now, envelope, fenced, tenantFenced, run>>
    BY <1>9 DEF vars
  <2>2. TypeOK'
    BY <2>1 DEF IInv, TypeOK
  <2>3. \A q \in RunIds : Sound(q)'
    BY <2>1 DEF IInv, Sound, OverBudget
  <2>4. ConcurrencyHolds'
    BY <2>1 DEF IInv, ConcurrencyHolds, Granted
  <2>5. QED
    BY <2>2, <2>3, <2>4 DEF IInv
<1>10. QED
  BY <1>1, <1>2, <1>3, <1>4, <1>5, <1>6, <1>7, <1>8, <1>9 DEF Next

-------------------------------------------------------------------------------
(* The theorems *)

\* Every handler keeps the registry, the leases and the run records sound.
THEOREM GovernorInvariance == Spec => []IInv
BY InitInv, NextInv, PTL DEF Spec

\* The governor's records keep their types: in particular a run's state is never
\* the name of an action.
THEOREM GovernorTypes == Spec => []TypeOK
<1>1. IInv => TypeOK
  BY DEF IInv
<1>2. QED
  BY <1>1, GovernorInvariance, PTL

\* No interleaving of starts, renewals and lapses gives an experiment more live
\* leases than its budget of concurrent sessions, however many runs there are.
THEOREM SlotsHold == Spec => []ConcurrencyHolds
<1>1. IInv => ConcurrencyHolds
  BY DEF IInv
<1>2. QED
  BY <1>1, GovernorInvariance, PTL

\* Whatever is renewed when, a lease ends within one GrantLeaseTTL of now and by
\* the duration budget's deadline.
THEOREM LeasesBounded == Spec => []LeaseBounded
<1>1. IInv => LeaseBounded
  BY DEF IInv, Sound, LeaseBounded
<1>2. QED
  BY <1>1, GovernorInvariance, PTL

\* Under an emergency stop of its experiment or its tenant no run injects,
\* whether it was stopped, fenced, or only lost its injection before.
THEOREM StopsSilence == Spec => []StopSilences
<1>1. IInv => StopSilences
  BY DEF IInv, Sound, StopSilences
<1>2. QED
  BY <1>1, GovernorInvariance, PTL

\* A run that injects is within both ceilings of its envelope, by the sum of the
\* claims recorded for all of its sessions.
THEOREM OverspentSilenced == Spec => []OverspentNeverInjects
<1>1. IInv => OverspentNeverInjects
  BY DEF IInv, Sound, OverspentNeverInjects, OverBudget, Env
<1>2. QED
  BY <1>1, GovernorInvariance, PTL

\* A run that ended was handed to the stop protocol exactly once, and a run that
\* has not was never handed over.
THEOREM HandedOffOnce == Spec => []OneHandoff
<1>1. IInv => OneHandoff
  <2> SUFFICES ASSUME IInv, NEW r \in RunIds
               PROVE  Cardinality(run[r].handoffs) =
                        (IF run[r].state \in {"fenced", "stopped"} THEN 1 ELSE 0)
    BY DEF OneHandoff
  <2>1. Sound(r)
    BY DEF IInv
  <2>2. CASE run[r].state \in {"fenced", "stopped"}
    <3>1. PICK c \in Conditions : run[r].handoffs = {c}
      BY <2>1, <2>2 DEF Sound
    <3>2. QED
      BY <2>2, <3>1, FS_Singleton
  <2>3. CASE run[r].state \notin {"fenced", "stopped"}
    <3>1. run[r].handoffs = {}
      BY <2>1, <2>3 DEF Sound
    <3>2. QED
      BY <2>3, <3>1, FS_EmptySet
  <2>4. QED
    BY <2>2, <2>3
<1>2. QED
  BY <1>1, GovernorInvariance, PTL

-------------------------------------------------------------------------------
(* What one step may do to one run                                           *)

Trips(r) ==
  /\ run[r].state = "active"
  /\ \A s \in Sessions : run'[r].spend[s] >= run[r].spend[s]
  /\ run'[r].of = run[r].of /\ run'[r].observed = run[r].observed
Renews(r) ==
  /\ run[r].state = "active"
  /\ \A s \in Sessions : run'[r].spend[s] >= run[r].spend[s]
  /\ run'[r].of = run[r].of /\ run'[r].observed \subseteq Eligible(Env(r))
Starts(r) ==
  run[r] = NoRun /\ run'[r].spend = run[r].spend /\ run'[r].observed = {}
Settles(r) ==
  /\ run[r].cleanup = "none" /\ run'[r].state = run[r].state /\ run'[r].of = run[r].of
  /\ run'[r].observed = run[r].observed /\ run'[r].spend = run[r].spend
  /\ [run'[r] EXCEPT !.cleanup = run[r].cleanup] = run[r]
Moves(r) == run'[r] = run[r] \/ Trips(r) \/ Renews(r) \/ Starts(r) \/ Settles(r)

\* A trip leaves the claims and the observed targets of the run alone.
LEMMA TripLeaves ==
  ASSUME NEW x \in GovernedRuns, NEW c, NEW a
  PROVE  LET y == Tripped(x, c, a) IN
         y.spend = x.spend /\ y.of = x.of /\ y.observed = x.observed
BY DEF Tripped, Applied, GovernedRuns

\* Recorded claims only rise.
LEMMA RaisedRises ==
  ASSUME NEW s1 \in [Sessions -> Nat], NEW s2 \in [Sessions -> Nat]
  PROVE  \A s \in Sessions : Raised(s1, s2)[s] >= s1[s]
BY DEF Raised

\* A handler that trips one run, with more spend on record.
LEMMA TripMoves ==
  ASSUME TypeOK, NEW r \in RunIds, NEW x \in GovernedRuns, NEW c, run[r].state = "active",
         x.of = run[r].of, x.observed = run[r].observed,
         \A s \in Sessions : x.spend[s] >= run[r].spend[s],
         Trip(r, x, c)
  PROVE  \A q \in RunIds : Moves(q)
<1> DEFINE y == Tripped(x, c, ActionFor(Env(r), c))
<1>1. y.spend = x.spend /\ y.of = x.of /\ y.observed = x.observed
  BY TripLeaves
<1>2. run' = [run EXCEPT ![r] = y]
  BY DEF Trip
<1> HIDE DEF y
<1>3. run'[r] = y /\ \A q \in RunIds : q # r => run'[q] = run[q]
  BY <1>2 DEF TypeOK
<1>4. Trips(r)
  BY <1>1, <1>3 DEF Trips
<1>5. QED
  BY <1>3, <1>4 DEF Moves

\* A handler that trips any set of active runs.
LEMMA StopMoves ==
  ASSUME TypeOK, NEW reached \in SUBSET RunIds, NEW c, NEW action,
         \A r \in reached : run[r].state = "active",
         run' = [r \in RunIds |-> IF r \in reached THEN Tripped(run[r], c, action[r]) ELSE run[r]]
  PROVE  \A q \in RunIds : Moves(q)
<1> SUFFICES ASSUME NEW q \in RunIds PROVE Moves(q)
  OBVIOUS
<1>1. run[q] \in GovernedRuns
  BY DEF TypeOK
<1>2. CASE q \in reached
  <2>1. run'[q] = Tripped(run[q], c, action[q]) /\ run[q].state = "active"
    BY <1>2
  <2>2. run'[q].spend = run[q].spend /\ run'[q].of = run[q].of
                                     /\ run'[q].observed = run[q].observed
    BY <1>1, <2>1, TripLeaves
  <2>3. \A s \in Sessions : run[q].spend[s] \in Nat
    BY <1>1 DEF GovernedRuns
  <2>4. QED
    BY <2>1, <2>2, <2>3 DEF Moves, Trips
<1>3. CASE q \notin reached
  BY <1>3 DEF Moves
<1>4. QED
  BY <1>2, <1>3

\* An eligible target is excluded by no selector.
LEMMA EligibleAllowed ==
  ASSUME NEW env
  PROVE  Eligible(env) \cap Excluded(env) = {}
<1>1. ASSUME NEW t, t \in Eligible(env) PROVE t \notin Excluded(env)
  BY <1>1, Zenon DEF Eligible
<1>2. QED
  BY <1>1

\* A beat trips its run or renews it inside the eligible targets.
LEMMA BeatMoves ==
  ASSUME TypeOK, NEW r \in RunIds, NEW g \in 0..MaxGen, NEW b \in Beats, Heartbeat(r, g, b)
  PROVE  \A q \in RunIds : Moves(q)
<1>1. run[r] \in GovernedRuns /\ b \in BeatShapes
  BY GovernorAssumption DEF TypeOK
<1>2. run[r].spend \in [Sessions -> Nat] /\ b.claims \in [Sessions -> Nat]
  BY <1>1 DEF GovernedRuns, BeatShapes
<1>3. run[r].state = "active"
  BY DEF Heartbeat, LateBeat, ExpandingBeat, CostlyBeat, RenewingBeat, Lapsed, Timely
<1>4. \A s \in Sessions : run[r].spend[s] >= run[r].spend[s]
  BY <1>2
<1>5. CASE LateBeat(r)
  BY <1>1, <1>3, <1>4, <1>5, TripMoves DEF LateBeat
<1>6. CASE ExpandingBeat(r, g, b)
  BY <1>1, <1>3, <1>4, <1>6, TripMoves DEF ExpandingBeat
<1>7. /\ Claimed(r, b) \in GovernedRuns
      /\ Claimed(r, b).spend = Raised(run[r].spend, b.claims)
      /\ Claimed(r, b).of = run[r].of /\ Claimed(r, b).observed = run[r].observed
  <2>1. Raised(run[r].spend, b.claims) \in [Sessions -> Nat]
    BY <1>2, RaisedType
  <2>2. QED
    BY <1>1, <2>1 DEF Claimed, GovernedRuns
<1>8. \A s \in Sessions : Claimed(r, b).spend[s] >= run[r].spend[s]
  BY <1>2, <1>7, RaisedRises
<1>9. CASE CostlyBeat(r, g, b)
  BY <1>3, <1>7, <1>8, <1>9, TripMoves DEF CostlyBeat
<1>10. CASE RenewingBeat(r, g, b)
  <2> DEFINE y == [Claimed(r, b) EXCEPT !.gen = @ + 1, !.expires = LeaseEnd(run[r].deadline),
                                        !.observed = b.observed]
  <2>1. run' = [run EXCEPT ![r] = y] /\ b.observed \subseteq Eligible(Env(r))
    BY <1>10 DEF RenewingBeat
  <2>2. /\ y.spend = Claimed(r, b).spend /\ y.of = Claimed(r, b).of
        /\ y.observed = b.observed
    BY <1>7 DEF GovernedRuns
  <2> HIDE DEF y
  <2>3. run'[r] = y /\ \A q \in RunIds : q # r => run'[q] = run[q]
    BY <2>1 DEF TypeOK
  <2>4. Renews(r)
    BY <1>3, <1>7, <1>8, <2>1, <2>2, <2>3 DEF Renews
  <2>5. QED
    BY <2>3, <2>4 DEF Moves
<1>11. QED
  BY <1>5, <1>6, <1>9, <1>10 DEF Heartbeat

\* Every step of the governor is one of these for every run.
LEMMA NextMoves ==
  ASSUME IInv, [Next]_vars
  PROVE  /\ \A q \in RunIds : Moves(q)
         /\ \A e \in Experiments : envelope[e] # None => envelope'[e] = envelope[e]
<1>0. TypeOK
  BY DEF IInv
<1>1. \A e \in Experiments : envelope[e] # None => envelope'[e] = envelope[e]
  <2>1. ASSUME NEW e \in Experiments, NEW env \in Offered[e], RegisterEnvelope(e, env)
        PROVE  \A f \in Experiments : envelope[f] # None => envelope'[f] = envelope[f]
    BY <1>0, <2>1 DEF RegisterEnvelope, TypeOK
  <2>2. CASE UNCHANGED envelope
    BY <2>2
  <2>3. QED
    BY <2>1, <2>2 DEF Next, vars, registry, StartRun, Heartbeat, LateBeat, ExpandingBeat,
       CostlyBeat, RenewingBeat, Trip, ReportIncident, EmergencyStop, Sweep,
       ReportCleanupState, Tick
<1>2. ASSUME UNCHANGED run PROVE \A q \in RunIds : Moves(q)
  BY <1>2 DEF Moves
<1>3. ASSUME NEW r \in RunIds, NEW e \in Experiments, StartRun(r, e)
      PROVE  \A q \in RunIds : Moves(q)
  <2> DEFINE y == [NoRun EXCEPT !.state = "active", !.of = e, !.injecting = TRUE, !.gen = 1,
                                !.expires = LeaseEnd(now + envelope[e].duration),
                                !.deadline = now + envelope[e].duration]
  <2>1. run' = [run EXCEPT ![r] = y] /\ run[r] = NoRun
    BY <1>3 DEF StartRun, IInv, Sound
  <2>2. y.spend = NoRun.spend /\ y.observed = {}
    BY DEF NoRun
  <2> HIDE DEF y
  <2>3. run'[r] = y /\ \A q \in RunIds : q # r => run'[q] = run[q]
    BY <1>0, <2>1 DEF TypeOK
  <2>4. Starts(r)
    BY <2>1, <2>2, <2>3 DEF Starts
  <2>5. QED
    BY <2>3, <2>4 DEF Moves
<1>4. ASSUME NEW r \in RunIds, NEW g \in 0..MaxGen, NEW b \in Beats, Heartbeat(r, g, b)
      PROVE  \A q \in RunIds : Moves(q)
  BY <1>0, <1>4, BeatMoves
<1>5. ASSUME NEW r \in RunIds, NEW c \in Incidents, ReportIncident(r, c)
      PROVE  \A q \in RunIds : Moves(q)
  <2>1. run[r] \in GovernedRuns /\ \A s \in Sessions : run[r].spend[s] >= run[r].spend[s]
    BY <1>0 DEF TypeOK, GovernedRuns
  <2>2. QED
    BY <1>0, <1>5, <2>1, TripMoves DEF ReportIncident
<1>6. ASSUME NEW scope \in Experiments \cup {None}, EmergencyStop(scope)
      PROVE  \A q \in RunIds : Moves(q)
  <2> DEFINE reached == {r \in RunIds : Reached(run[r], scope)}
             action == [r \in RunIds |-> "terminate"]
  <2>1. \A r \in reached : run[r].state = "active"
    BY DEF Reached
  <2>2. run' = [r \in RunIds |->
          IF r \in reached THEN Tripped(run[r], "operator_request", action[r]) ELSE run[r]]
    BY <1>6 DEF EmergencyStop
  <2> HIDE DEF action
  <2>3. QED
    BY <1>0, <2>1, <2>2, StopMoves
<1>7. ASSUME Sweep PROVE \A q \in RunIds : Moves(q)
  <2> DEFINE reached == {r \in RunIds : Lapsed(run[r])}
             action == [r \in RunIds |-> ActionFor(Env(r), "grant_expiry")]
  <2>1. \A r \in reached : run[r].state = "active"
    BY DEF Lapsed
  <2>2. run' = [r \in RunIds |->
          IF r \in reached THEN Tripped(run[r], "grant_expiry", action[r]) ELSE run[r]]
    BY <1>7 DEF Sweep
  <2> HIDE DEF action
  <2>3. QED
    BY <1>0, <2>1, <2>2, StopMoves
<1>8. ASSUME NEW r \in RunIds, NEW t \in {"CLEAN", "DIRTY_QUARANTINED", "UNKNOWN"},
             ReportCleanupState(r, t)
      PROVE  \A q \in RunIds : Moves(q)
  <2> DEFINE y == [run[r] EXCEPT !.cleanup = t]
  <2>1. run' = [run EXCEPT ![r] = y] /\ run[r].cleanup = "none" /\ run[r] \in GovernedRuns
    BY <1>0, <1>8 DEF ReportCleanupState, TypeOK
  <2>2. /\ y.state = run[r].state /\ y.of = run[r].of /\ y.observed = run[r].observed
        /\ y.spend = run[r].spend /\ [y EXCEPT !.cleanup = run[r].cleanup] = run[r]
    BY <2>1 DEF GovernedRuns
  <2> HIDE DEF y
  <2>3. run'[r] = y /\ \A q \in RunIds : q # r => run'[q] = run[q]
    BY <1>0, <2>1 DEF TypeOK
  <2>4. Settles(r)
    BY <2>1, <2>2, <2>3 DEF Settles
  <2>5. QED
    BY <2>3, <2>4 DEF Moves
<1>9. \A q \in RunIds : Moves(q)
  BY <1>2, <1>3, <1>4, <1>5, <1>6, <1>7, <1>8 DEF Next, vars, RegisterEnvelope, Tick
<1>10. QED
  BY <1>1, <1>9

\* A run only moves towards its end, whatever is delivered late, twice or out of
\* order: claims never fall, an ended run keeps its record, and its first cleanup
\* report stands (governor.go:282-300, 540-600).
THEOREM RunsAdvance == Spec => RunOnlyAdvances
<1> DEFINE Advances == \A r \in RunIds :
             /\ \A s \in Sessions : run'[r].spend[s] >= run[r].spend[s]
             /\ run[r].state \in {"fenced", "stopped"} =>
                  /\ [run'[r] EXCEPT !.cleanup = run[r].cleanup] = run[r]
                  /\ run[r].cleanup # "none" => run'[r].cleanup = run[r].cleanup
<1>1. IInv /\ [Next]_vars => [Advances]_vars
  <2> SUFFICES ASSUME IInv, [Next]_vars PROVE Advances
    OBVIOUS
  <2> SUFFICES ASSUME NEW r \in RunIds
               PROVE  /\ \A s \in Sessions : run'[r].spend[s] >= run[r].spend[s]
                      /\ run[r].state \in {"fenced", "stopped"} =>
                           /\ [run'[r] EXCEPT !.cleanup = run[r].cleanup] = run[r]
                           /\ run[r].cleanup # "none" => run'[r].cleanup = run[r].cleanup
    OBVIOUS
  <2>1. Moves(r) /\ run[r] \in GovernedRuns
    BY NextMoves DEF IInv, TypeOK
  <2>2. \A s \in Sessions : run[r].spend[s] >= run[r].spend[s]
    BY <2>1 DEF GovernedRuns
  <2>3. CASE run'[r] = run[r]
    BY <2>1, <2>2, <2>3 DEF GovernedRuns
  <2>4. CASE Trips(r) \/ Renews(r)
    BY <2>4 DEF Trips, Renews
  <2>5. CASE Starts(r)
    BY <2>2, <2>5 DEF Starts, NoRun
  <2>6. CASE Settles(r)
    BY <2>2, <2>6 DEF Settles
  <2>7. QED
    BY <2>1, <2>3, <2>4, <2>5, <2>6 DEF Moves
<1>2. QED
  BY <1>1, GovernorInvariance, PTL DEF Spec, RunOnlyAdvances

\* Whatever is observed, claimed and renewed in between, a run never holds a target
\* that any selector of its envelope excludes (governor.go:600-640).
THEOREM ExcludedUnobserved == Spec => []ExcludedNeverObserved
<1>1. Init => ExcludedNeverObserved
  BY DEF Init, ExcludedNeverObserved, NoRun
<1>2. IInv /\ ExcludedNeverObserved /\ [Next]_vars => ExcludedNeverObserved'
  <2> SUFFICES ASSUME IInv, ExcludedNeverObserved, [Next]_vars, NEW r \in RunIds,
                      run'[r].state # "none"
               PROVE  run'[r].observed \cap Excluded(Env(r)') = {}
    BY DEF ExcludedNeverObserved, Excluded
  <2>1. /\ Moves(r) /\ Sound(r)
        /\ \A e \in Experiments : envelope[e] # None => envelope'[e] = envelope[e]
    BY NextMoves DEF IInv
  <2>2. run[r].state # "none" => run[r].observed \cap Excluded(Env(r)) = {}
    BY DEF ExcludedNeverObserved
  <2>3. run[r].state # "none" /\ run'[r].of = run[r].of => Env(r)' = Env(r)
    BY <2>1 DEF Sound, Env
  <2>4. CASE Starts(r)
    BY <2>4 DEF Starts
  <2>5. CASE Renews(r)
    <3>1. run'[r].observed \subseteq Eligible(Env(r)) /\ Env(r)' = Env(r)
      BY <2>3, <2>5 DEF Renews
    <3>2. Eligible(Env(r)) \cap Excluded(Env(r)) = {}
      BY EligibleAllowed
    <3>3. QED
      BY <3>1, <3>2
  <2>6. CASE run'[r] = run[r] \/ Trips(r) \/ Settles(r)
    <3>1. /\ run[r].state # "none" /\ run'[r].of = run[r].of
          /\ run'[r].observed = run[r].observed
      BY <2>6 DEF Trips, Settles
    <3>2. QED
      BY <2>2, <2>3, <3>1
  <2>7. QED
    BY <2>1, <2>4, <2>5, <2>6 DEF Moves
<1>3. QED
  BY <1>1, <1>2, GovernorInvariance, PTL DEF Spec
=============================================================================
