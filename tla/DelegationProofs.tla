--------------------------- MODULE DelegationProofs ---------------------------
(***************************************************************************)
(* Proofs about Delegation for every tree, set of requests and budgets:    *)
(* delegations only narrow, permits fit the whole chain, groups stay       *)
(* within their ceilings of effects and of money, revoked and stopped      *)
(* groups are silent.                                                      *)
(***************************************************************************)
EXTENDS Delegation, FiniteSetTheorems, TLAPS

\* The inductive invariant.
IInv == /\ TypeOK /\ ChainsClosed /\ OnlyNarrows
        /\ PermitFitsChain /\ EffectBudgetHolds /\ StoppedRunFenced

PermitStates == {"permitted", "released", "lapsed"}

-------------------------------------------------------------------------------
(* Counting *)

\* A subset of the effects has a cardinality, and a part of it has no larger one.
LEMMA Counting ==
  ASSUME NEW S \in SUBSET Effects, NEW T \in SUBSET S
  PROVE  Cardinality(S) \in Nat /\ Cardinality(T) \in Nat /\ Cardinality(T) <= Cardinality(S)
<1>1. IsFiniteSet(S) /\ IsFiniteSet(T)
  BY FS_Subset, DelegationAssumption
<1>2. QED
  BY <1>1, FS_CardinalityType, FS_Subset

\* One more effect is at most one more.
LEMMA OneMore ==
  ASSUME NEW S \in SUBSET Effects, NEW e \in Effects, NEW T \in SUBSET (S \cup {e})
  PROVE  Cardinality(T) <= Cardinality(S) + 1
<1>1. IsFiniteSet(S)
  BY FS_Subset, DelegationAssumption
<1>2. Cardinality(S \cup {e}) <= Cardinality(S) + 1
  <2>1. Cardinality(S \cup {e}) = IF e \in S THEN Cardinality(S) ELSE Cardinality(S) + 1
    BY <1>1, FS_AddElement
  <2>2. Cardinality(S) \in Nat
    BY <1>1, FS_CardinalityType
  <2>3. QED
    BY <2>1, <2>2
<1> DEFINE U == S \cup {e}
<1>3. U \in SUBSET Effects /\ S \in SUBSET U /\ T \in SUBSET U
  OBVIOUS
<1> HIDE DEF U
<1>4. Cardinality(T) <= Cardinality(U) /\ Cardinality(T) \in Nat
      /\ Cardinality(U) \in Nat /\ Cardinality(S) \in Nat
  BY <1>3, Counting
<1>5. QED
  BY <1>2, <1>4 DEF U

\* A ceiling that is not raised from one to the next is not raised along the way.
LEMMA NotRaisedTransitive ==
  ASSUME NEW a \in Budgets, NEW b \in Budgets, NEW c \in Budgets,
         NotRaised(a, b), NotRaised(b, c)
  PROVE  NotRaised(a, c)
<1>1. \A x \in Budgets : x.effects \in Nat /\ x.tokens \in Nat /\ x.cost \in Int
  BY DelegationAssumption DEF Budgets
<1>2. QED
  BY <1>1 DEF NotRaised

\* A ceiling is not above itself.
LEMMA NotRaisedReflexive ==
  ASSUME NEW a \in Budgets
  PROVE  NotRaised(a, a)
<1>1. a.effects \in Nat /\ a.tokens \in Nat /\ a.cost \in Int
  BY DelegationAssumption DEF Budgets
<1>2. QED
  BY <1>1 DEF NotRaised

\* What is minted is typed, and the tree's empty place is not.
LEMMA MintedNodes ==
  ASSUME TypeOK, NEW d \in Minted
  PROVE  /\ d \in Delegations /\ deleg[d] \in Nodes
         /\ deleg[d].run \in Runs /\ deleg[d].budget \in Budgets
         /\ deleg[d].caps \in Capabilities /\ deleg[d].depth \in 1..MaxDepth
         /\ deleg[d].above \subseteq Delegations
BY DEF TypeOK, Minted, Nodes

\* What is permitted has a proposal.
LEMMA PermittedRecords ==
  ASSUME TypeOK, NEW e \in Permitted
  PROVE  e \in Effects /\ eff[e] \in Records /\ eff[e].p \in Proposals
BY DEF TypeOK, Permitted, Records, Unknown

-------------------------------------------------------------------------------
(* The initial states *)

\* The empty registry satisfies the invariant.
LEMMA InitInv == Init => IInv
<1> SUFFICES ASSUME Init PROVE IInv
  OBVIOUS
<1>1. Minted = {} /\ Permitted = {}
  BY DEF Init, Minted, Permitted, Unknown
<1>2. TypeOK
  BY DEF Init, TypeOK
<1>3. ChainsClosed /\ OnlyNarrows /\ PermitFitsChain /\ StoppedRunFenced
  BY <1>1 DEF ChainsClosed, OnlyNarrows, PermitFitsChain, StoppedRunFenced
<1>4. EffectBudgetHolds
  <2>1. Cardinality({}) = 0
    BY FS_EmptySet
  <2>2. \A r \in Runs : {e \in PermittedUnder(Delegations) : eff[e].p.run = r} = {}
    BY <1>1 DEF PermittedUnder
  <2>3. \A r \in Runs : RootBudget[r] # None => RootBudget[r].effects \in Nat
    BY DelegationAssumption DEF Budgets
  <2>4. \A r \in Runs : RootBudget[r] # None =>
          Cardinality({e \in PermittedUnder(Delegations) : eff[e].p.run = r})
            <= RootBudget[r].effects
    <3> TAKE r \in Runs
    <3>1. Cardinality({e \in PermittedUnder(Delegations) : eff[e].p.run = r}) = 0
      BY <2>1, <2>2
    <3>2. QED
      BY <2>3, <3>1
  <2>5. QED
    BY <1>1, <2>4 DEF EffectBudgetHolds
<1>5. QED
  BY <1>2, <1>3, <1>4 DEF IInv

-------------------------------------------------------------------------------
(* The steps *)

\* One effect's record changes; a new permit passed the delegation's checks.
LEMMA EffectKeeps ==
  ASSUME IInv, NEW e \in Effects, NEW x \in Records,
         eff' = [eff EXCEPT ![e] = x], UNCHANGED <<deleg, stopped>>,
         x.state \in PermitStates =>
           \/ e \in Permitted /\ x.p = eff[e].p
           \/ x.p.delegation # None =>
                /\ InScope(x.p)
                /\ \A b \in Ceilings(x.p.delegation) :
                     Cardinality(Counted(x.p.delegation)) + 1 <= b.effects
  PROVE  IInv'
<1>1. TypeOK'
  BY DEF IInv, TypeOK
<1>2. ChainsClosed' /\ OnlyNarrows' /\ StoppedRunFenced'
  BY DEF IInv, ChainsClosed, OnlyNarrows, StoppedRunFenced, Minted
<1>3. eff'[e] = x /\ \A f \in Effects : f # e => eff'[f] = eff[f]
  BY DEF IInv, TypeOK
<1>4. /\ \A f \in Permitted' : f \in Effects /\ (f # e => f \in Permitted)
      /\ e \in Permitted' => x.state \in PermitStates
  BY <1>3 DEF Permitted, PermitStates
<1> HIDE DEF PermitStates
<1>5. PermitFitsChain'
  <2> SUFFICES ASSUME NEW f \in Permitted', eff'[f].p.delegation # None,
                      NEW d, d = eff'[f].p.delegation
               PROVE  /\ d \in Minted /\ deleg[d].run = eff'[f].p.run
                      /\ deleg[d].holder = eff'[f].p.actor
                      /\ \A a \in deleg[d].above, k \in Kinds :
                           \E y \in deleg[a].caps[k] : eff'[f].p.target[k] \in Covers[y]
    BY DEF PermitFitsChain, Minted
  <2>1. CASE f \in Permitted /\ eff'[f].p = eff[f].p
    BY <2>1 DEF IInv, PermitFitsChain
  <2>2. CASE ~(f \in Permitted /\ eff'[f].p = eff[f].p)
    <3>1. f = e /\ eff'[f].p = x.p /\ InScope(x.p)
      BY <1>3, <1>4, <2>2
    <3>2. \A a \in deleg[d].above, k \in Kinds : deleg[d].caps[k] \subseteq deleg[a].caps[k]
      BY <3>1 DEF IInv, OnlyNarrows, InScope
    <3>3. QED
      BY <3>1, <3>2 DEF InScope
  <2>3. QED
    BY <2>1, <2>2
<1>6. EffectBudgetHolds'
  <2>1. ASSUME NEW S \in SUBSET Effects, NEW T \in SUBSET Effects, NEW n \in Nat,
               Cardinality(S) <= n, T \subseteq S \cup {e},
               e \in T /\ e \notin S => \E C \in SUBSET Effects : S \subseteq C /\ Cardinality(C) + 1 <= n
        PROVE  Cardinality(T) <= n
    <3>1. CASE T \subseteq S
      BY <2>1, <3>1, Counting
    <3>2. CASE ~(T \subseteq S)
      <4>1. PICK C \in SUBSET Effects : S \subseteq C /\ Cardinality(C) + 1 <= n
        BY <2>1, <3>2
      <4>2. Cardinality(S) <= Cardinality(C) /\ Cardinality(S) \in Nat /\ Cardinality(C) \in Nat
        BY <4>1, Counting
      <4>3. Cardinality(T) <= Cardinality(S) + 1 /\ Cardinality(T) \in Nat
        BY <2>1, OneMore, Counting
      <4>4. QED
        BY <4>1, <4>2, <4>3
    <3>3. QED
      BY <3>1, <3>2
  <2>2. ASSUME NEW a \in Minted
        PROVE  Cardinality({f \in Permitted' : eff'[f].p.delegation \in Group(a)})
                 <= deleg[a].budget.effects
    <3> DEFINE S == {f \in Permitted : eff[f].p.delegation \in Group(a)}
               T == {f \in Permitted' : eff'[f].p.delegation \in Group(a)}
               C == Counted(x.p.delegation)
    <3>1. /\ S \in SUBSET Effects /\ T \in SUBSET Effects /\ C \in SUBSET Effects
          /\ T \subseteq S \cup {e}
      BY <1>3, <1>4 DEF Permitted, Counted
    <3>2. deleg[a].budget.effects \in Nat /\ Cardinality(S) <= deleg[a].budget.effects
      BY MintedNodes DEF IInv, EffectBudgetHolds, PermittedUnder, Budgets
    <3>3. ASSUME e \in T, e \notin S
          PROVE  S \subseteq C /\ Cardinality(C) + 1 <= deleg[a].budget.effects
      <4>1. /\ x.p.delegation \in Group(a) /\ x.p.delegation # None
            /\ ~(e \in Permitted /\ x.p = eff[e].p)
        BY <1>3, <3>3, DelegationAssumption DEF Group, Minted
      <4>2. /\ x.p.delegation \in Minted /\ a \in deleg[x.p.delegation].above
            /\ \A b \in Ceilings(x.p.delegation) : Cardinality(C) + 1 <= b.effects
        BY <1>4, <3>3, <4>1 DEF Group
      <4>3. deleg[a].budget \in Ceilings(x.p.delegation)
        BY <4>2 DEF Ceilings
      <4>4. deleg[x.p.delegation].run = deleg[a].run
        BY <4>2 DEF IInv, ChainsClosed
      <4>5. ASSUME NEW f \in S PROVE f \in C
        <5>1. /\ eff[f].p.delegation \in Minted /\ a \in deleg[eff[f].p.delegation].above
              /\ f \in Permitted /\ eff[f].p.delegation # None
          BY DelegationAssumption DEF Group, Minted
        <5>2. eff[f].p.run = deleg[a].run
          BY <5>1 DEF IInv, ChainsClosed, PermitFitsChain
        <5>3. eff[f].p.delegation \in Tree(x.p.delegation)
          BY <4>2, <5>1 DEF Tree
        <5>4. QED
          BY <4>4, <5>1, <5>2, <5>3 DEF Counted, Permitted
      <4>6. QED
        BY <4>2, <4>3, <4>5
    <3> HIDE DEF S, T, C
    <3>4. Cardinality(T) <= deleg[a].budget.effects
      BY <2>1, <3>1, <3>2, <3>3
    <3>5. QED
      BY <3>4 DEF T
  <2>3. ASSUME NEW r \in Runs, RootBudget[r] # None
        PROVE  Cardinality({f \in Permitted' : eff'[f].p.delegation \in Delegations
                                             /\ eff'[f].p.run = r}) <= RootBudget[r].effects
    <3> DEFINE S == {f \in Permitted : eff[f].p.delegation \in Delegations /\ eff[f].p.run = r}
               T == {f \in Permitted' : eff'[f].p.delegation \in Delegations /\ eff'[f].p.run = r}
               C == Counted(x.p.delegation)
    <3>1. /\ S \in SUBSET Effects /\ T \in SUBSET Effects /\ C \in SUBSET Effects
          /\ T \subseteq S \cup {e}
      BY <1>3, <1>4 DEF Permitted, Counted
    <3>2. RootBudget[r].effects \in Nat /\ Cardinality(S) <= RootBudget[r].effects
      <4>1. RootBudget[r].effects \in Nat
        BY <2>3, DelegationAssumption DEF Budgets
      <4>2. S = {f \in PermittedUnder(Delegations) : eff[f].p.run = r}
        BY DEF PermittedUnder
      <4>3. QED
        BY <2>3, <4>1, <4>2 DEF IInv, EffectBudgetHolds
    <3>3. ASSUME e \in T, e \notin S
          PROVE  S \subseteq C /\ Cardinality(C) + 1 <= RootBudget[r].effects
      <4>1. /\ x.p.delegation # None /\ x.p.run = r
            /\ ~(e \in Permitted /\ x.p = eff[e].p)
        BY <1>3, <3>3, DelegationAssumption
      <4>2. /\ deleg[x.p.delegation].run = r
            /\ \A b \in Ceilings(x.p.delegation) : Cardinality(C) + 1 <= b.effects
        BY <1>4, <3>3, <4>1 DEF InScope
      <4>3. RootBudget[r] \in Ceilings(x.p.delegation)
        BY <2>3, <4>2 DEF Ceilings
      <4>4. S \subseteq C
        BY <2>3, <4>2, DelegationAssumption DEF Counted, Permitted
      <4>5. QED
        BY <4>2, <4>3, <4>4
    <3> HIDE DEF S, T, C
    <3>4. Cardinality(T) <= RootBudget[r].effects
      BY <2>1, <3>1, <3>2, <3>3
    <3>5. QED
      BY <3>4 DEF T
  <2>4. \A r \in Runs : {f \in Permitted' : eff'[f].p.delegation \in Delegations /\ eff'[f].p.run = r}
                        = {f \in PermittedUnder(Delegations)' : eff'[f].p.run = r}
    BY DEF PermittedUnder
  <2>5. QED
    BY <2>2, <2>3, <2>4 DEF EffectBudgetHolds, PermittedUnder, Group, Minted
<1>7. QED
  BY <1>1, <1>2, <1>5, <1>6 DEF IInv

\* Delegations are revoked, one or all of a run's; nothing else about them changes.
LEMMA RevokingKeeps ==
  ASSUME IInv, deleg' \in [Delegations -> Nodes \cup {Unminted}], UNCHANGED eff,
         stopped' \subseteq Runs,
         \A d \in Delegations :
           \/ deleg'[d] = deleg[d]
           \/ d \in Minted /\ deleg'[d] = [deleg[d] EXCEPT !.active = FALSE],
         \A d \in Minted : deleg[d].run \in stopped' \ stopped => ~deleg'[d].active
  PROVE  IInv'
<1>1. TypeOK'
  BY DEF IInv, TypeOK
<1>2. \A d \in Minted : /\ deleg'[d].run = deleg[d].run /\ deleg'[d].holder = deleg[d].holder
                        /\ deleg'[d].caps = deleg[d].caps /\ deleg'[d].budget = deleg[d].budget
                        /\ deleg'[d].above = deleg[d].above
                        /\ ~deleg[d].active => ~deleg'[d].active
  <2> SUFFICES ASSUME NEW d \in Minted, deleg'[d] = [deleg[d] EXCEPT !.active = FALSE]
               PROVE  /\ deleg'[d].run = deleg[d].run /\ deleg'[d].holder = deleg[d].holder
                      /\ deleg'[d].caps = deleg[d].caps /\ deleg'[d].budget = deleg[d].budget
                      /\ deleg'[d].above = deleg[d].above
                      /\ ~deleg'[d].active
    BY DEF Minted
  <2>1. deleg[d] \in Nodes
    BY MintedNodes DEF IInv
  <2>2. QED
    BY <2>1 DEF Nodes
<1>3. Minted' = Minted
  <2>1. ASSUME NEW d \in Minted PROVE d \in Minted'
    <3>1. d \in deleg'[d].above /\ d \in Delegations
      BY <1>2 DEF IInv, ChainsClosed, Minted
    <3>2. Unminted.above = {}
      BY DEF Unminted
    <3>3. QED
      BY <3>1, <3>2 DEF Minted
  <2>2. ASSUME NEW d \in Minted' PROVE d \in Minted
    BY DEF Minted
  <2>3. QED
    BY <2>1, <2>2
<1>4. ChainsClosed'
  BY <1>2, <1>3 DEF IInv, ChainsClosed
<1>5. OnlyNarrows'
  BY <1>2, <1>3 DEF IInv, OnlyNarrows, ChainsClosed
<1>6. PermitFitsChain'
  BY <1>2, <1>3 DEF IInv, PermitFitsChain, ChainsClosed, Permitted
<1>7. EffectBudgetHolds'
  <2>1. \A a \in Minted : Group(a)' = Group(a)
    BY <1>2, <1>3 DEF Group
  <2>2. Permitted' = Permitted
    BY DEF Permitted
  <2>3. \A a \in Minted : PermittedUnder(Group(a))' = PermittedUnder(Group(a))
    BY <2>1, <2>2 DEF PermittedUnder
  <2>4. PermittedUnder(Delegations)' = PermittedUnder(Delegations)
    BY <2>2 DEF PermittedUnder
  <2>5. QED
    BY <1>2, <1>3, <2>3, <2>4 DEF IInv, EffectBudgetHolds
<1>8. StoppedRunFenced'
  BY <1>2, <1>3 DEF IInv, StoppedRunFenced
<1>9. QED
  BY <1>1, <1>4, <1>5, <1>6, <1>7, <1>8 DEF IInv

\* A new delegation narrows from its parent, and so from everything above it.
LEMMA MintKeeps ==
  ASSUME IInv, NEW m \in Mints, Delegate(m)
  PROVE  IInv'
<1> DEFINE scope == ParentScope(m)
           n == [run |-> m.run, holder |-> m.to, depth |-> scope.depth + 1, caps |-> m.caps,
                 budget |-> m.budget, active |-> TRUE, above |-> scope.above \cup {m.id}]
<1>1. /\ m.id \in Delegations /\ m.run \in Runs /\ m.to \in Actors /\ m.caps \in Capabilities
      /\ m.budget \in Budgets /\ m.parent \in Delegations \cup {None}
  BY DelegationAssumption DEF MintShapes
<1>2. /\ m.run \notin stopped /\ m.id \notin Minted
      /\ deleg' = [deleg EXCEPT ![m.id] = n] /\ UNCHANGED <<eff, stopped>>
      /\ scope.depth + 1 <= MaxDepth /\ ParentFit(m)
      /\ \A k \in Kinds : m.caps[k] \subseteq scope.caps[k]
      /\ scope.budget # None => NotRaised(m.budget, scope.budget)
  BY DEF Delegate, Open, DepthOk, Narrower
<1>3. /\ scope.depth \in 0..MaxDepth /\ scope.above \subseteq Minted
      /\ \A a \in scope.above : deleg[a].run = m.run /\ deleg[a].above \subseteq scope.above
  <2>1. CASE m.parent = None
    BY <2>1, DelegationAssumption DEF ParentScope
  <2>2. CASE m.parent # None
    <3>1. m.parent \in Minted /\ deleg[m.parent].run = m.run
      BY <1>2, <2>2 DEF ParentFit
    <3>2. scope.depth = deleg[m.parent].depth /\ scope.above = deleg[m.parent].above
      BY <2>2 DEF ParentScope
    <3>3. QED
      BY <3>1, <3>2, MintedNodes, DelegationAssumption DEF IInv, ChainsClosed
  <2>3. QED
    BY <2>1, <2>2
<1>4. /\ \A k \in Kinds : m.caps[k] \subseteq RootCaps[m.run][k]
      /\ RootBudget[m.run] # None => NotRaised(m.budget, RootBudget[m.run])
      /\ \A a \in scope.above : /\ \A k \in Kinds : m.caps[k] \subseteq deleg[a].caps[k]
                                /\ NotRaised(m.budget, deleg[a].budget)
  <2>1. CASE m.parent = None
    <3>1. scope.caps = RootCaps[m.run] /\ scope.budget = RootBudget[m.run] /\ scope.above = {}
      BY <2>1 DEF ParentScope
    <3>2. QED
      BY <1>2, <3>1
  <2>2. CASE m.parent # None
    <3> DEFINE q == deleg[m.parent]
    <3>1. m.parent \in Minted /\ q.run = m.run
      BY <1>2, <2>2 DEF ParentFit
    <3>2. scope.caps = q.caps /\ scope.budget = q.budget /\ scope.above = q.above
      BY <2>2 DEF ParentScope
    <3>3. q.budget \in Budgets /\ q.budget # None
      BY <3>1, MintedNodes, DelegationAssumption DEF IInv
    <3>4. NotRaised(m.budget, q.budget) /\ \A k \in Kinds : m.caps[k] \subseteq q.caps[k]
      BY <1>2, <3>2, <3>3
    <3>5. RootBudget[m.run] # None => NotRaised(m.budget, RootBudget[m.run])
      <4>1. RootBudget[m.run] # None => RootBudget[m.run] \in Budgets /\ NotRaised(q.budget, RootBudget[m.run])
        BY <1>1, <3>1, DelegationAssumption DEF IInv, OnlyNarrows
      <4>2. QED
        BY <1>1, <3>3, <3>4, <4>1, NotRaisedTransitive
    <3>6. ASSUME NEW a \in scope.above PROVE NotRaised(m.budget, deleg[a].budget)
      <4>1. deleg[a].budget \in Budgets /\ NotRaised(q.budget, deleg[a].budget)
        BY <1>3, <3>1, <3>2, MintedNodes DEF IInv, OnlyNarrows
      <4>2. QED
        BY <1>1, <3>3, <3>4, <4>1, NotRaisedTransitive
    <3>7. \A k \in Kinds : /\ m.caps[k] \subseteq RootCaps[m.run][k]
                           /\ \A a \in scope.above : m.caps[k] \subseteq deleg[a].caps[k]
      BY <3>1, <3>2, <3>4 DEF IInv, OnlyNarrows
    <3>8. QED
      BY <3>5, <3>6, <3>7
  <2>3. QED
    BY <2>1, <2>2
<1> HIDE DEF scope
<1>5. n \in Nodes /\ n # Unminted
  <2>1. n \in Nodes
    BY <1>1, <1>2, <1>3, DelegationAssumption DEF Nodes, Minted
  <2>2. m.id \in n.above /\ Unminted.above = {}
    BY DEF Unminted
  <2>3. QED
    BY <2>1, <2>2
<1>6. /\ n.run = m.run /\ n.caps = m.caps /\ n.budget = m.budget /\ n.active
      /\ n.above = scope.above \cup {m.id}
  OBVIOUS
<1> HIDE DEF n
<1>7. deleg'[m.id] = n /\ \A d \in Delegations : d # m.id => deleg'[d] = deleg[d]
  BY <1>1, <1>2 DEF IInv, TypeOK
<1>8. Minted' = Minted \cup {m.id}
  BY <1>1, <1>5, <1>7 DEF Minted
<1>9. \A d \in Minted : d # m.id /\ deleg'[d] = deleg[d] /\ deleg[d].above \subseteq Minted
  BY <1>2, <1>7 DEF Minted, IInv, ChainsClosed
<1>10. TypeOK'
  BY <1>2, <1>5 DEF IInv, TypeOK
<1>11. ChainsClosed'
  BY <1>3, <1>6, <1>7, <1>8, <1>9 DEF IInv, ChainsClosed
<1>12. OnlyNarrows'
  <2>1. NotRaised(m.budget, m.budget)
    BY <1>1, NotRaisedReflexive
  <2>2. QED
    BY <1>3, <1>4, <1>6, <1>7, <1>8, <1>9, <2>1 DEF IInv, OnlyNarrows
<1>13. Permitted' = Permitted
  BY <1>2 DEF Permitted
<1>14. PermitFitsChain'
  BY <1>2, <1>8, <1>9, <1>13 DEF IInv, PermitFitsChain
<1>15. EffectBudgetHolds'
  <2>1. \A f \in Permitted : eff[f].p.delegation # m.id \/ eff[f].p.delegation = None
    BY <1>2 DEF IInv, PermitFitsChain
  <2>2. ASSUME NEW a \in Minted
        PROVE  PermittedUnder(Group(a))' = PermittedUnder(Group(a))
    <3>1. \A d \in Delegations : d # m.id => (d \in Group(a)' <=> d \in Group(a))
      BY <1>8, <1>9 DEF Group
    <3>2. Group(a)' \subseteq Delegations /\ Group(a) \subseteq Delegations
      BY DEF Group, Minted
    <3>3. \A f \in Permitted : eff[f].p.delegation \in Group(a)' <=> eff[f].p.delegation \in Group(a)
      BY <2>1, <3>1, <3>2, DelegationAssumption
    <3>4. QED
      BY <1>2, <1>13, <3>3 DEF PermittedUnder
  <2>3. ASSUME NEW a, a = m.id
        PROVE  PermittedUnder(Group(a))' = {}
    <3>1. \A d \in Group(a)' : d = m.id
      BY <1>8, <1>9, <1>2, <2>3 DEF Group
    <3>2. \A f \in Permitted : eff[f].p.delegation \notin Group(a)'
      BY <1>1, <2>1, <3>1, DelegationAssumption
    <3>3. QED
      BY <1>2, <1>13, <3>2 DEF PermittedUnder
  <2>4. m.budget.effects \in Nat /\ Cardinality({}) = 0
    BY <1>1, FS_EmptySet DEF Budgets
  <2>5. PermittedUnder(Delegations)' = PermittedUnder(Delegations)
    BY <1>2, <1>13 DEF PermittedUnder
  <2>6. \A a \in Minted' : Cardinality(PermittedUnder(Group(a))') <= deleg'[a].budget.effects
    <3> SUFFICES ASSUME NEW a \in Minted'
                 PROVE  Cardinality(PermittedUnder(Group(a))') <= deleg'[a].budget.effects
      OBVIOUS
    <3>1. CASE a = m.id
      <4>1. Cardinality(PermittedUnder(Group(a))') = 0
        BY <2>3, <2>4, <3>1
      <4>2. QED
        BY <1>6, <1>7, <2>4, <3>1, <4>1
    <3>2. CASE a # m.id
      <4>1. a \in Minted /\ deleg'[a] = deleg[a]
        BY <1>8, <1>9, <3>2
      <4>2. Cardinality(PermittedUnder(Group(a))') = Cardinality(PermittedUnder(Group(a)))
        BY <2>2, <4>1
      <4>3. QED
        BY <4>1, <4>2 DEF IInv, EffectBudgetHolds
    <3>3. QED
      BY <3>1, <3>2
  <2>7. \A r \in Runs : RootBudget[r] # None =>
          Cardinality({e \in PermittedUnder(Delegations)' : eff'[e].p.run = r}) <= RootBudget[r].effects
    BY <1>2, <2>5 DEF IInv, EffectBudgetHolds
  <2>8. QED
    BY <2>6, <2>7 DEF EffectBudgetHolds
<1>16. StoppedRunFenced'
  BY <1>2, <1>6, <1>7, <1>8, <1>9 DEF IInv, StoppedRunFenced
<1>17. QED
  BY <1>10, <1>11, <1>12, <1>14, <1>15, <1>16 DEF IInv

\* A decision is a denial, a hold or a permit; the last two passed the checks.
LEMMA DecideKeeps ==
  ASSUME IInv, NEW e \in Effects, NEW p \in Proposals, e \notin Permitted,
         Decide(e, p), UNCHANGED <<deleg, stopped>>
  PROVE  IInv'
<1>1. CASE \E st \in {"denied", "held"} :
             eff' = [eff EXCEPT ![e] = [p |-> p, state |-> st, limit |-> None]]
  <2>1. PICK st \in {"denied", "held"} :
          eff' = [eff EXCEPT ![e] = [p |-> p, state |-> st, limit |-> None]]
    BY <1>1
  <2> DEFINE x == [p |-> p, state |-> st, limit |-> None]
  <2>2. x \in Records /\ x.state \notin PermitStates
    BY <2>1 DEF Records, PermitStates
  <2> HIDE DEF x
  <2>3. eff' = [eff EXCEPT ![e] = x]
    BY <2>1 DEF x
  <2>4. QED
    BY <2>2, <2>3, EffectKeeps
<1>2. CASE \E limit \in Limits \cup {None} :
             /\ Passes(p, limit)
             /\ eff' = [eff EXCEPT ![e] = [p |-> p, state |-> "permitted", limit |-> limit]]
  <2>1. PICK limit \in Limits \cup {None} :
          /\ Passes(p, limit)
          /\ eff' = [eff EXCEPT ![e] = [p |-> p, state |-> "permitted", limit |-> limit]]
    BY <1>2
  <2> DEFINE x == [p |-> p, state |-> "permitted", limit |-> limit]
  <2>2. x \in Records /\ x.p = p
    BY <2>1 DEF Records
  <2> HIDE DEF x
  <2>3. eff' = [eff EXCEPT ![e] = x]
    BY <2>1 DEF x
  <2>4. ASSUME p.delegation # None
        PROVE  /\ InScope(p)
               /\ \A b \in Ceilings(p.delegation) : Cardinality(Counted(p.delegation)) + 1 <= b.effects
    <3>1. InScope(p) /\ ~OverBudget(p.delegation, limit)
      BY <2>1, <2>4 DEF Passes
    <3>2. \A b \in Ceilings(p.delegation) : b \in Budgets
      <4>1. p.delegation \in Minted
        BY <3>1 DEF InScope
      <4>2. \A a \in deleg[p.delegation].above : deleg[a].budget \in Budgets
        BY <4>1, MintedNodes DEF IInv, ChainsClosed
      <4>3. deleg[p.delegation].run \in Runs
        BY <4>1, MintedNodes DEF IInv
      <4>4. QED
        BY <4>2, <4>3, DelegationAssumption DEF Ceilings
    <3>3. \A b \in Ceilings(p.delegation) : b.effects \in Nat
      BY <3>2 DEF Budgets
    <3>4. Cardinality(Counted(p.delegation)) \in Nat
      BY Counting DEF Counted, Permitted
    <3>5. \A b \in Ceilings(p.delegation) : ~(Cardinality(Counted(p.delegation)) + 1 > b.effects)
      BY <3>1 DEF OverBudget
    <3>6. QED
      BY <3>1, <3>3, <3>4, <3>5
  <2>5. QED
    BY <2>2, <2>3, <2>4, EffectKeeps
<1>3. QED
  BY <1>1, <1>2 DEF Decide

\* Each operation in turn.
LEMMA NextInv == IInv /\ [Next]_vars => IInv'
<1> SUFFICES ASSUME IInv, [Next]_vars PROVE IInv'
  OBVIOUS
<1>1. ASSUME NEW m \in Mints, Delegate(m) PROVE IInv'
  BY <1>1, MintKeeps
<1>2. ASSUME NEW d \in Delegations, RevokeDelegation(d) PROVE IInv'
  <2>1. /\ deleg[d] \in Nodes /\ d \in Minted
        /\ deleg' = [deleg EXCEPT ![d].active = FALSE] /\ UNCHANGED <<eff, stopped>>
    BY <1>2, MintedNodes DEF RevokeDelegation, IInv
  <2>2. [deleg[d] EXCEPT !.active = FALSE] \in Nodes
    BY <2>1 DEF Nodes
  <2>3. /\ deleg' \in [Delegations -> Nodes \cup {Unminted}]
        /\ \A c \in Delegations : \/ deleg'[c] = deleg[c]
                                  \/ c \in Minted /\ deleg'[c] = [deleg[c] EXCEPT !.active = FALSE]
    BY <2>1, <2>2 DEF IInv, TypeOK
  <2>4. QED
    BY <2>1, <2>3, RevokingKeeps DEF IInv, TypeOK
<1>3. ASSUME NEW r \in Runs, Stop(r) PROVE IInv'
  <2>1. /\ stopped' = stopped \cup {r} /\ UNCHANGED eff
        /\ deleg' = [d \in Delegations |-> IF deleg[d].run = r THEN [deleg[d] EXCEPT !.active = FALSE]
                                                             ELSE deleg[d]]
    BY <1>3 DEF Stop
  <2>2. ASSUME NEW d \in Delegations, deleg[d].run = r
        PROVE  /\ d \in Minted /\ [deleg[d] EXCEPT !.active = FALSE] \in Nodes
               /\ ~[deleg[d] EXCEPT !.active = FALSE].active
    <3>1. d \in Minted
      BY <2>2, DelegationAssumption DEF Minted, Unminted
    <3>2. deleg[d] \in Nodes
      BY <3>1, MintedNodes DEF IInv
    <3>3. QED
      BY <3>1, <3>2 DEF Nodes
  <2>3. deleg' \in [Delegations -> Nodes \cup {Unminted}]
    BY <2>1, <2>2 DEF IInv, TypeOK
  <2>4. \A d \in Delegations :
          \/ deleg'[d] = deleg[d]
          \/ d \in Minted /\ deleg'[d] = [deleg[d] EXCEPT !.active = FALSE]
    BY <2>1, <2>2
  <2>5. \A d \in Minted : deleg[d].run \in stopped' \ stopped => ~deleg'[d].active
    BY <2>1, <2>2 DEF Minted
  <2>6. QED
    BY <2>1, <2>3, <2>4, <2>5, RevokingKeeps DEF IInv, TypeOK
<1>4. ASSUME NEW e \in Effects, NEW p \in Proposals, Authorize(e, p) PROVE IInv'
  <2>1. e \notin Permitted
    BY <1>4 DEF Authorize, Permitted, Unknown
  <2>2. QED
    BY <1>4, <2>1, DecideKeeps DEF Authorize
<1>5. ASSUME NEW e \in Effects, AttachReview(e) PROVE IInv'
  <2>1. e \notin Permitted
    BY <1>5 DEF AttachReview, Permitted
  <2>2. eff[e].p \in Proposals
    BY <1>5 DEF AttachReview, IInv, TypeOK, Records, Unknown
  <2>3. QED
    BY <1>5, <2>1, <2>2, DecideKeeps DEF AttachReview
<1>6. ASSUME NEW e \in Effects, Commit(e) \/ Lapse(e) PROVE IInv'
  <2>1. PICK st \in {"released", "lapsed"} : eff' = [eff EXCEPT ![e].state = st]
    BY <1>6 DEF Commit, Lapse
  <2>2. e \in Permitted /\ UNCHANGED <<deleg, stopped>>
    BY <1>6 DEF Commit, Lapse, Permitted
  <2> DEFINE x == [eff[e] EXCEPT !.state = st]
  <2>3. x \in Records /\ x.p = eff[e].p
    BY <2>2, PermittedRecords DEF IInv, Records
  <2> HIDE DEF x
  <2>4. eff' = [eff EXCEPT ![e] = x]
    BY <2>1 DEF x
  <2>5. QED
    BY <2>2, <2>3, <2>4, EffectKeeps
<1>7. CASE UNCHANGED vars
  BY <1>7 DEF vars, IInv, TypeOK, ChainsClosed, OnlyNarrows, PermitFitsChain,
              EffectBudgetHolds, StoppedRunFenced, Minted, Permitted, PermittedUnder, Group
<1>8. QED
  BY <1>1, <1>2, <1>3, <1>4, <1>5, <1>6, <1>7 DEF Next

-------------------------------------------------------------------------------
(* The theorems *)

\* The invariant holds in every reachable state.
THEOREM TreeInvariance == Spec => []IInv
BY InitInv, NextInv, PTL DEF Spec

\* The registry, the effects and the stopped runs are well typed.
THEOREM DelegationTypes == Spec => []TypeOK
<1>1. IInv => TypeOK
  BY DEF IInv
<1>2. QED
  BY <1>1, TreeInvariance, PTL

\* Delegations only narrow, however deep the chain of mints that made them.
THEOREM Narrowing == Spec => []OnlyNarrows
<1>1. IInv => OnlyNarrows
  BY DEF IInv
<1>2. QED
  BY <1>1, TreeInvariance, PTL

\* Every permit is within the capabilities of every ancestor of its delegation.
THEOREM PermitsFit == Spec => []PermitFitsChain
<1>1. IInv => PermitFitsChain
  BY DEF IInv
<1>2. QED
  BY <1>1, TreeInvariance, PTL

\* No group outgrows its ceiling of effects, and no run its root's.
THEOREM EffectsBounded == Spec => []EffectBudgetHolds
<1>1. IInv => EffectBudgetHolds
  BY DEF IInv
<1>2. QED
  BY <1>1, TreeInvariance, PTL

\* A stopped run's delegations are revoked for good.
THEOREM StoppedStaysFenced == Spec => []StoppedRunFenced
<1>1. IInv => StoppedRunFenced
  BY DEF IInv
<1>2. QED
  BY <1>1, TreeInvariance, PTL

\* In the group of a revoked delegation nothing is minted, held, permitted or released.
THEOREM RevokedSilent == Spec => RevokedGroupSilent
<1>1. IInv /\ [Next]_vars => [GroupSilent]_vars
  <2> SUFFICES ASSUME IInv, Next PROVE GroupSilent
    OBVIOUS
  <2> SUFFICES ASSUME NEW a \in Minted, ~deleg[a].active
               PROVE  /\ \A d \in Delegations \ Minted : a \notin deleg'[d].above
                      /\ \A e \in Effects : eff'[e] # eff[e] /\ eff'[e].p.delegation \in Group(a) =>
                           eff'[e].state \in {"denied", "lapsed"}
    BY DEF GroupSilent
  <2>1. \A d \in Delegations \ Minted : deleg[d].above = {}
    BY DEF Minted, Unminted
  <2>2. \A d \in Group(a) : ~ChainActive(d) /\ d \in Delegations
    BY DEF Group, ChainActive, Minted
  <2>3. ASSUME NEW m \in Mints, Delegate(m)
        PROVE  \A d \in Delegations \ Minted : a \notin deleg'[d].above
    <3>1. m.id \in Delegations /\ m.id \notin Minted /\ UNCHANGED eff
      BY <2>3, DelegationAssumption DEF MintShapes, Delegate, Open
    <3>2. a \notin ParentScope(m).above
      <4>1. CASE m.parent = None
        BY <4>1 DEF ParentScope
      <4>2. CASE m.parent # None
        <5>1. ChainActive(m.parent)
          BY <2>3, <4>2 DEF Delegate, ParentFit
        <5>2. QED
          BY <4>2, <5>1 DEF ParentScope, ChainActive
      <4>3. QED
        BY <4>1, <4>2
    <3>3. deleg'[m.id].above = ParentScope(m).above \cup {m.id}
          /\ \A d \in Delegations : d # m.id => deleg'[d] = deleg[d]
      BY <2>3, <3>1 DEF Delegate, IInv, TypeOK
    <3>4. a # m.id
      BY <3>1
    <3>5. QED
      BY <2>1, <3>2, <3>3, <3>4
  <2>4. ASSUME NEW d \in Delegations, RevokeDelegation(d)
        PROVE  \A c \in Delegations \ Minted : deleg'[c] = deleg[c]
    BY <2>4 DEF RevokeDelegation, IInv, TypeOK
  <2>5. ASSUME NEW r \in Runs, Stop(r)
        PROVE  \A c \in Delegations \ Minted : deleg'[c] = deleg[c]
    <3>1. \A c \in Delegations \ Minted : deleg[c].run # r
      BY DelegationAssumption DEF Minted, Unminted
    <3>2. QED
      BY <2>5, <3>1 DEF Stop
  <2>6. ASSUME NEW e \in Effects, NEW p \in Proposals, Decide(e, p)
        PROVE  \A f \in Effects : eff'[f] # eff[f] /\ eff'[f].p.delegation \in Group(a) =>
                 eff'[f].state = "denied"
    <3>1. \A f \in Effects : f # e => eff'[f] = eff[f]
      BY <2>6 DEF Decide, IInv, TypeOK
    <3>2. eff'[e].p = p
      BY <2>6 DEF Decide, IInv, TypeOK
    <3>3. eff'[e].state = "denied" \/ \E limit \in Limits \cup {None} : Passes(p, limit)
      BY <2>6 DEF Decide, IInv, TypeOK
    <3>4. p.delegation \in Group(a) => \A limit \in Limits \cup {None} : ~Passes(p, limit)
      BY <2>2, DelegationAssumption DEF Passes, InScope
    <3>5. QED
      BY <3>1, <3>2, <3>3, <3>4
  <2>7. ASSUME NEW e \in Effects, Commit(e) \/ Lapse(e)
        PROVE  \A f \in Effects : eff'[f] # eff[f] /\ eff'[f].p.delegation \in Group(a) =>
                 eff'[f].state = "lapsed"
    <3>1. e \in Permitted /\ eff[e] \in Records
      BY <2>7, PermittedRecords DEF Commit, Lapse, Permitted, IInv
    <3>2. \A f \in Effects : f # e => eff'[f] = eff[f]
      BY <2>7 DEF Commit, Lapse, IInv, TypeOK
    <3>3. PICK st : eff' = [eff EXCEPT ![e].state = st]
                    /\ (st = "lapsed" \/ ~CommitFenced(eff[e].p))
      BY <2>7 DEF Commit, Lapse
    <3>4. eff'[e].p = eff[e].p /\ eff'[e].state = st
      BY <3>1, <3>3 DEF IInv, TypeOK, Records
    <3>5. eff[e].p.delegation \in Group(a) => CommitFenced(eff[e].p)
      BY <2>2, DelegationAssumption DEF CommitFenced
    <3>6. QED
      BY <3>2, <3>3, <3>4, <3>5
  <2>8. \A d \in Delegations \ Minted : a \notin deleg'[d].above
    <3>1. CASE UNCHANGED deleg
      BY <2>1, <3>1
    <3>2. CASE \E m \in Mints : Delegate(m)
      BY <2>3, <3>2
    <3>3. CASE (\E d \in Delegations : RevokeDelegation(d)) \/ (\E r \in Runs : Stop(r))
      BY <2>1, <2>4, <2>5, <3>3
    <3>4. QED
      BY <3>1, <3>2, <3>3 DEF Next, Authorize, AttachReview, Commit, Lapse
  <2>9. \A e \in Effects : eff'[e] # eff[e] /\ eff'[e].p.delegation \in Group(a) =>
          eff'[e].state \in {"denied", "lapsed"}
    <3>1. CASE UNCHANGED eff
      BY <3>1
    <3>2. CASE \E e \in Effects, p \in Proposals : Decide(e, p)
      BY <2>6, <3>2
    <3>3. CASE \E e \in Effects : Commit(e) \/ Lapse(e)
      BY <2>7, <3>3
    <3>4. CASE \E e \in Effects : AttachReview(e)
      <4>1. PICK e \in Effects : AttachReview(e)
        BY <3>4
      <4>2. eff[e].p \in Proposals /\ Decide(e, eff[e].p)
        BY <4>1 DEF AttachReview, IInv, TypeOK, Records, Unknown
      <4>3. QED
        BY <3>2, <4>2
    <3>5. QED
      BY <3>1, <3>2, <3>3, <3>4 DEF Next, Delegate, RevokeDelegation, Stop, Authorize
  <2>10. QED
    BY <2>8, <2>9
<1>2. QED
  BY <1>1, TreeInvariance, PTL DEF Spec, RevokedGroupSilent

-------------------------------------------------------------------------------
(* Sums over sets of effects *)

\* A set of natural numbers has a least one.
LEMMA LeastNumber ==
  ASSUME NEW S \in SUBSET Nat, S # {}
  PROVE  \E n \in S : \A m \in S : n <= m
<1>1. PICK n \in S : \A m \in S : ~ (<<m, n>> \in OpToRel(<, Nat))
  BY NatLessThanWellFounded, WFMin
<1>2. \A m \in S : ~(m < n)
  BY <1>1 DEF OpToRel
<1> QED
  BY <1>2

\* Without one of its members a set of effects is smaller by one.
LEMMA Smaller ==
  ASSUME NEW T \in SUBSET Effects, NEW e \in T
  PROVE  /\ Cardinality(T) \in Nat /\ Cardinality(T \ {e}) \in Nat
         /\ Cardinality(T \ {e}) = Cardinality(T) - 1
<1>1. IsFiniteSet(T)
  BY FS_Subset, DelegationAssumption
<1> QED
  BY <1>1, FS_RemoveElement, FS_CardinalityType

\* Among sets of effects there is one that leaves them with any member it loses.
LEMMA SmallestSet ==
  ASSUME NEW X \in SUBSET (SUBSET Effects), X # {}
  PROVE  \E T \in X : \A e \in T : T \ {e} \notin X
<1>1. \A T \in X : Cardinality(T) \in Nat
  BY FS_Subset, FS_CardinalityType, DelegationAssumption
<1> DEFINE sizes == {Cardinality(T) : T \in X}
<1>2. PICK n \in sizes : \A m \in sizes : n <= m
  <2>1. sizes \in SUBSET Nat /\ sizes # {}
    BY <1>1
  <2> HIDE DEF sizes
  <2> QED
    BY <2>1, LeastNumber
<1>3. PICK T \in X : Cardinality(T) = n
  BY <1>2
<1>4. ASSUME NEW e \in T, T \ {e} \in X PROVE FALSE
  <2>1. Cardinality(T \ {e}) = Cardinality(T) - 1 /\ Cardinality(T) \in Nat
    BY Smaller
  <2> QED
    BY <1>2, <1>3, <1>4, <2>1
<1> QED
  BY <1>3, <1>4

\* The effect a fold takes next.
Some(T) == CHOOSE e \in T : TRUE

\* What g has for T is the sum that the library's fold forms.
Adds(g, v, T) == g[T] = IF T = {} THEN 0 ELSE v[Some(T)] + g[T \ {Some(T)}]

\* There is a function with the sums of all sets of effects: one for the sets of up to
\* n members gives one for those of up to n + 1.
LEMMA SumsExist ==
  ASSUME NEW v \in [Effects -> Nat]
  PROVE  \E g \in [SUBSET Effects -> Nat] : \A T \in SUBSET Effects : Adds(g, v, T)
<1> DEFINE UpTo(n) == \E g \in [SUBSET Effects -> Nat] :
                        \A T \in SUBSET Effects : Cardinality(T) <= n => Adds(g, v, T)
<1>0. \A T \in SUBSET Effects : IsFiniteSet(T) /\ Cardinality(T) \in Nat
  BY FS_Subset, FS_CardinalityType, DelegationAssumption
<1>1. UpTo(0)
  <2> DEFINE g == [T \in SUBSET Effects |-> 0]
  <2>1. \A T \in SUBSET Effects : Cardinality(T) <= 0 => T = {}
    BY <1>0, FS_EmptySet
  <2>2. g \in [SUBSET Effects -> Nat] /\ \A T \in SUBSET Effects : Cardinality(T) <= 0 => Adds(g, v, T)
    BY <2>1 DEF Adds
  <2> QED
    BY <2>2
<1>2. ASSUME NEW n \in Nat, UpTo(n) PROVE UpTo(n + 1)
  <2>1. PICK g \in [SUBSET Effects -> Nat] :
               \A T \in SUBSET Effects : Cardinality(T) <= n => Adds(g, v, T)
    BY <1>2
  <2> DEFINE h == [T \in SUBSET Effects |-> IF T = {} THEN 0 ELSE v[Some(T)] + g[T \ {Some(T)}]]
  <2>2. h \in [SUBSET Effects -> Nat]
    <3> SUFFICES ASSUME NEW T \in SUBSET Effects, T # {}
                 PROVE  v[Some(T)] + g[T \ {Some(T)}] \in Nat
      OBVIOUS
    <3>1. v[Some(T)] \in Nat /\ g[T \ {Some(T)}] \in Nat
      BY DEF Some
    <3> QED
      BY <3>1
  <2>3. \A T \in SUBSET Effects : Cardinality(T) <= n => h[T] = g[T]
    BY <2>1 DEF Adds
  <2>4. ASSUME NEW T \in SUBSET Effects, Cardinality(T) <= n + 1, T # {}
        PROVE  h[T \ {Some(T)}] = g[T \ {Some(T)}]
    <3>1. Some(T) \in T
      BY <2>4 DEF Some
    <3>2. Cardinality(T \ {Some(T)}) <= n
      BY <2>4, <3>1, Smaller
    <3> QED
      BY <2>3, <3>2
  <2>5. \A T \in SUBSET Effects : Cardinality(T) <= n + 1 => Adds(h, v, T)
    BY <2>4 DEF Adds
  <2> HIDE DEF h
  <2> QED
    BY <2>2, <2>5
<1> HIDE DEF UpTo
<1>3. \A n \in Nat : UpTo(n)
  <2> DEFINE missing == {n \in Nat : ~UpTo(n)}
  <2> SUFFICES ASSUME missing # {} PROVE FALSE
    OBVIOUS
  <2>1. PICK n \in missing : \A m \in missing : n <= m
    BY LeastNumber
  <2>2. n - 1 \in Nat /\ n - 1 \notin missing
    BY <1>1, <2>1
  <2>3. UpTo(n - 1 + 1) /\ n - 1 + 1 = n
    BY <1>2, <2>2
  <2> QED
    BY <2>1, <2>3
<1>4. PICK g \in [SUBSET Effects -> Nat] :
             \A T \in SUBSET Effects : Cardinality(T) <= Cardinality(Effects) => Adds(g, v, T)
  BY <1>0, <1>3 DEF UpTo
<1> QED
  BY <1>0, <1>4, FS_Subset

Sums(v) == CHOOSE g \in [SUBSET Effects -> Nat] : \A T \in SUBSET Effects : Adds(g, v, T)

\* The order in which a sum is formed does not matter.
LEMMA SumsAdd ==
  ASSUME NEW v \in [Effects -> Nat]
  PROVE  /\ Sums(v) \in [SUBSET Effects -> Nat] /\ Sums(v)[{}] = 0
         /\ \A T \in SUBSET Effects : \A e \in T : Sums(v)[T] = v[e] + Sums(v)[T \ {e}]
<1> DEFINE g == Sums(v)
<1>1. g \in [SUBSET Effects -> Nat] /\ \A T \in SUBSET Effects : Adds(g, v, T)
  BY SumsExist DEF Sums
<1> HIDE DEF g
<1>2. g[{}] = 0
  BY <1>1 DEF Adds
<1>3. \A T \in SUBSET Effects : \A e \in T : g[T] = v[e] + g[T \ {e}]
  <2> DEFINE wrong == {T \in SUBSET Effects : \E e \in T : g[T] # v[e] + g[T \ {e}]}
  <2> SUFFICES ASSUME wrong # {} PROVE FALSE
    OBVIOUS
  <2>1. PICK T \in wrong : \A e \in T : T \ {e} \notin wrong
    BY SmallestSet
  <2>2. PICK e \in T : g[T] # v[e] + g[T \ {e}]
    BY <2>1
  <2> DEFINE c == Some(T)
             rest == (T \ {e}) \ {c}
  <2>3. c \in T /\ g[T] = v[c] + g[T \ {c}]
    BY <1>1, <2>2 DEF Some, Adds
  <2>4. c # e
    BY <2>2, <2>3
  <2>5. rest = (T \ {c}) \ {e}
    OBVIOUS
  <2>6. g[T \ {c}] = v[e] + g[rest]
    BY <2>1, <2>3, <2>4, <2>5
  <2>7. g[T \ {e}] = v[c] + g[rest]
    BY <2>1, <2>3, <2>4
  <2>8. v[c] \in Nat /\ v[e] \in Nat /\ g[rest] \in Nat
    BY <1>1, <2>3
  <2> HIDE DEF c, rest
  <2> QED
    BY <2>2, <2>3, <2>6, <2>7, <2>8
<1> QED
  BY <1>1, <1>2, <1>3 DEF g

\* A part of a set costs no more.
LEMMA SumsMonotone ==
  ASSUME NEW v \in [Effects -> Nat], NEW S \in SUBSET Effects, NEW T \in SUBSET S
  PROVE  Sums(v)[T] <= Sums(v)[S]
<1> DEFINE g == Sums(v)
<1>1. /\ g \in [SUBSET Effects -> Nat]
      /\ \A U \in SUBSET Effects : \A e \in U : g[U] = v[e] + g[U \ {e}]
  BY SumsAdd
<1> HIDE DEF g
<1> DEFINE above == {U \in SUBSET Effects : T \subseteq U /\ ~(g[T] <= g[U])}
<1> SUFFICES ASSUME above # {} PROVE FALSE
  BY DEF g
<1>2. PICK U \in above : \A e \in U : U \ {e} \notin above
  BY SmallestSet
<1>3. g[T] \in Nat /\ g[U] \in Nat
  BY <1>1
<1>4. PICK e \in U : e \notin T
  <2>1. T # U
    BY <1>2, <1>3
  <2> QED
    BY <1>2, <2>1
<1>5. g[U] = v[e] + g[U \ {e}] /\ v[e] \in Nat /\ g[U \ {e}] \in Nat
  BY <1>1
<1>6. g[T] <= g[U \ {e}]
  BY <1>2, <1>4
<1> QED
  BY <1>2, <1>3, <1>5, <1>6

\* Weights that agree on a set have the same sum over it.
LEMMA SumsAgree ==
  ASSUME NEW v \in [Effects -> Nat], NEW w \in [Effects -> Nat], NEW S \in SUBSET Effects,
         \A e \in S : v[e] = w[e]
  PROVE  Sums(v)[S] = Sums(w)[S]
<1> DEFINE g == Sums(v)
           h == Sums(w)
<1>1. /\ g[{}] = 0 /\ \A U \in SUBSET Effects : \A e \in U : g[U] = v[e] + g[U \ {e}]
      /\ h[{}] = 0 /\ \A U \in SUBSET Effects : \A e \in U : h[U] = w[e] + h[U \ {e}]
  BY SumsAdd
<1> HIDE DEF g, h
<1> DEFINE wrong == {U \in SUBSET S : g[U] # h[U]}
<1> SUFFICES ASSUME wrong # {} PROVE FALSE
  BY DEF g, h
<1>2. PICK U \in wrong : \A e \in U : U \ {e} \notin wrong
  BY SmallestSet
<1>3. PICK e \in U : TRUE
  BY <1>1, <1>2
<1>4. g[U \ {e}] = h[U \ {e}]
  BY <1>2
<1> QED
  BY <1>1, <1>2, <1>3, <1>4

\* What every effect may cost.
Cost == [e \in Effects |-> Micros(eff[e].limit)]

LEMMA CostType ==
  ASSUME TypeOK
  PROVE  Cost \in [Effects -> Nat]
<1> SUFFICES ASSUME NEW e \in Effects PROVE Micros(eff[e].limit) \in Nat
  BY DEF Cost
<1>1. eff[e].limit \in Limits \cup {None}
  BY DEF TypeOK, Records, Unknown
<1> QED
  BY <1>1, DelegationAssumption DEF Micros, Limits

\* CostOf is the sum of the costs.
LEMMA CostIsTheSum ==
  ASSUME NEW S \in SUBSET Effects, TypeOK
  PROVE  CostOf(S) = Sums(Cost)[S]
<1> DEFINE Body(f) == [T \in SUBSET S |->
             IF T = {} THEN 0 ELSE LET x == CHOOSE e \in T : TRUE
                                   IN  Micros(eff[x].limit) + f[T \ {x}]]
           g == Sums(Cost)
           h == [T \in SUBSET S |-> g[T]]
<1>1. CostOf(S) = (CHOOSE f : f = Body(f))[S]
  BY Zenon DEF CostOf, MapThenSumSet, MapThenFoldSet
<1>2. /\ g[{}] = 0 /\ \A T \in SUBSET Effects : \A e \in T : g[T] = Cost[e] + g[T \ {e}]
  BY SumsAdd, CostType
<1>3. \A e \in Effects : Cost[e] = Micros(eff[e].limit)
  BY DEF Cost
<1> HIDE DEF g
<1>4. h = Body(h)
  <2> SUFFICES ASSUME NEW T \in SUBSET S PROVE h[T] = Body(h)[T]
    OBVIOUS
  <2> QED
    BY <1>2, <1>3
<1>5. ASSUME NEW f, f = Body(f) PROVE f[S] = g[S]
  <2>1. \A T \in SUBSET S : f[T] = IF T = {} THEN 0 ELSE
                              Micros(eff[Some(T)].limit) + f[T \ {Some(T)}]
    BY <1>5 DEF Some
  <2> HIDE DEF Body
  <2> DEFINE wrong == {T \in SUBSET S : f[T] # g[T]}
  <2> SUFFICES ASSUME wrong # {} PROVE FALSE
    OBVIOUS
  <2>2. PICK T \in wrong : \A e \in T : T \ {e} \notin wrong
    BY SmallestSet
  <2>3. CASE T = {}
    BY <1>2, <2>1, <2>2, <2>3
  <2>4. CASE T # {}
    <3>1. Some(T) \in T
      BY <2>4 DEF Some
    <3>2. f[T \ {Some(T)}] = g[T \ {Some(T)}]
      BY <2>2, <3>1
    <3> QED
      BY <1>2, <1>3, <2>1, <2>2, <2>4, <3>1, <3>2
  <2> QED
    BY <2>3, <2>4
<1>6. PICK f : f = (CHOOSE y : y = Body(y)) /\ f = Body(f)
  <2> HIDE DEF Body
  <2> QED
    BY Zenon, <1>4
<1> HIDE DEF Body, h
<1> QED
  BY <1>1, <1>5, <1>6 DEF g

-------------------------------------------------------------------------------
(* What the gate reckons *)

\* The tightest ceiling is one of those that govern a delegation.
LEMMA TightestCeiling ==
  ASSUME IInv, NEW d \in Minted
  PROVE  /\ Tightest(d) \in Nat
         /\ \A b \in Ceilings(d) : b.cost \in Nat /\ Tightest(d) <= b.cost
<1> DEFINE costs == {b.cost : b \in Ceilings(d)}
<1>1. \A b \in Ceilings(d) : b \in Budgets
  <2>1. \A a \in deleg[d].above : deleg[a].budget \in Budgets
    BY MintedNodes DEF IInv, ChainsClosed
  <2>2. deleg[d].run \in Runs
    BY MintedNodes DEF IInv
  <2> QED
    BY <2>1, <2>2, DelegationAssumption DEF Ceilings
<1>2. \A b \in Budgets : b.cost \in Nat
  BY DelegationAssumption DEF Budgets
<1>3. deleg[d].budget \in Ceilings(d)
  BY DEF IInv, ChainsClosed, Ceilings
<1>4. costs \in SUBSET Nat /\ costs # {}
  BY <1>1, <1>2, <1>3
<1>5. Tightest(d) = CHOOSE x \in costs : \A y \in costs : x <= y
  BY Zenon DEF Tightest, Min
<1>6. \A b \in Ceilings(d) : b.cost \in costs
  OBVIOUS
<1> HIDE DEF costs
<1>7. Tightest(d) \in costs /\ \A y \in costs : Tightest(d) <= y
  BY <1>4, <1>5, LeastNumber
<1> QED
  BY <1>4, <1>6, <1>7

\* Saturation loses nothing below the ceiling: what the gate takes for spent is the sum,
\* cut off at the tightest ceiling.
LEMMA SpentIsCapped ==
  ASSUME IInv, NEW d \in Minted
  PROVE  Spent(d) = IF Sums(Cost)[Counted(d)] >= Tightest(d) THEN Tightest(d)
                                                             ELSE Sums(Cost)[Counted(d)]
<1> DEFINE c == Tightest(d)
           S == Counted(d)
           Body(f) == [T \in SUBSET S |->
             IF T = {} THEN 0 ELSE LET x == CHOOSE e \in T : TRUE
                                   IN  AddSaturating(Micros(eff[x].limit), f[T \ {x}], c)]
           g == Sums(Cost)
           Capped(T) == IF g[T] >= c THEN c ELSE g[T]
           h == [T \in SUBSET S |-> Capped(T)]
<1>1. Spent(d) = (CHOOSE f : f = Body(f))[S]
  BY Zenon DEF Spent, MapThenFoldSet
<1>2. /\ g \in [SUBSET Effects -> Nat]
      /\ g[{}] = 0 /\ \A T \in SUBSET Effects : \A e \in T : g[T] = Cost[e] + g[T \ {e}]
  BY SumsAdd, CostType DEF IInv
<1>3. \A e \in Effects : Cost[e] = Micros(eff[e].limit) /\ Cost[e] \in Nat
  BY CostType DEF Cost, IInv
<1>4. S \in SUBSET Effects /\ c \in Nat
  BY TightestCeiling DEF Counted, Permitted
<1> HIDE DEF g, c, S
<1>5. Capped({}) = 0
  BY <1>2, <1>4
<1>6. ASSUME NEW T \in SUBSET S, NEW e \in T
      PROVE  Capped(T) = AddSaturating(Micros(eff[e].limit), Capped(T \ {e}), c)
  <2>1. /\ g[T] = Cost[e] + g[T \ {e}] /\ g[T \ {e}] \in Nat
        /\ Cost[e] = Micros(eff[e].limit) /\ Cost[e] \in Nat
    BY <1>2, <1>3, <1>4
  <2> QED
    BY <1>4, <2>1 DEF AddSaturating
<1> HIDE DEF Capped
<1>7. h = Body(h)
  <2> SUFFICES ASSUME NEW T \in SUBSET S PROVE h[T] = Body(h)[T]
    OBVIOUS
  <2>1. CASE T = {}
    BY <1>5, <2>1
  <2>2. CASE T # {}
    <3>1. Some(T) \in T
      BY <2>2 DEF Some
    <3>2. h[T] = AddSaturating(Micros(eff[Some(T)].limit), h[T \ {Some(T)}], c)
      BY <1>6, <3>1
    <3> QED
      BY <2>2, <3>2 DEF Some
  <2> QED
    BY <2>1, <2>2
<1>8. ASSUME NEW f, f = Body(f) PROVE f[S] = Capped(S)
  <2>1. \A T \in SUBSET S : f[T] = IF T = {} THEN 0 ELSE
                   AddSaturating(Micros(eff[Some(T)].limit), f[T \ {Some(T)}], c)
    BY <1>8 DEF Some
  <2> HIDE DEF Body
  <2> DEFINE wrong == {T \in SUBSET S : f[T] # Capped(T)}
  <2> SUFFICES ASSUME wrong # {} PROVE FALSE
    OBVIOUS
  <2>2. PICK T \in wrong : \A e \in T : T \ {e} \notin wrong
    BY <1>4, SmallestSet
  <2>3. CASE T = {}
    BY <1>5, <2>1, <2>2, <2>3
  <2>4. CASE T # {}
    <3>1. Some(T) \in T
      BY <2>4 DEF Some
    <3>2. f[T \ {Some(T)}] = Capped(T \ {Some(T)})
      BY <2>2, <3>1
    <3> QED
      BY <1>6, <2>1, <2>2, <2>4, <3>1, <3>2
  <2> QED
    BY <2>3, <2>4
<1>9. PICK f : f = (CHOOSE y : y = Body(y)) /\ f = Body(f)
  <2> HIDE DEF Body
  <2> QED
    BY Zenon, <1>7
<1> HIDE DEF Body, h
<1> QED
  BY <1>1, <1>8, <1>9 DEF g, c, S, Capped

\* A limit that passes fits under every ceiling, on top of all that counts; unless it
\* costs nothing.
LEMMA PassedCostFits ==
  ASSUME IInv, NEW d \in Minted, NEW limit \in Limits \cup {None}, ~OverCost(d, limit),
         Micros(limit) # 0, NEW b \in Ceilings(d)
  PROVE  Sums(Cost)[Counted(d)] + Micros(limit) <= b.cost
<1>1. Micros(limit) \in Nat
  BY DelegationAssumption DEF Micros, Limits
<1>2. Sums(Cost)[Counted(d)] \in Nat
  BY SumsAdd, CostType DEF IInv, Counted, Permitted
<1>3. Tightest(d) \in Nat /\ b.cost \in Nat /\ Tightest(d) <= b.cost
  BY TightestCeiling
<1>4. Spent(d) <= Tightest(d) - Micros(limit)
  BY <1>1, <1>2, <1>3, SpentIsCapped DEF OverCost
<1> QED
  BY <1>1, <1>2, <1>3, <1>4, SpentIsCapped

-------------------------------------------------------------------------------
(* The shared budget of money *)

\* The budgets, in terms of the sums.
SumsBudgeted ==
  /\ \A a \in Minted : Sums(Cost)[PermittedUnder(Group(a))] <= deleg[a].budget.cost
  /\ \A r \in Runs : RootBudget[r] # None =>
       Sums(Cost)[{e \in PermittedUnder(Delegations) : eff[e].p.run = r}] <= RootBudget[r].cost

LEMMA BudgetsAreSums ==
  ASSUME IInv
  PROVE  SumsBudgeted <=> CostBudgetHolds
<1>1. TypeOK
  BY DEF IInv
<1>2. \A a \in Minted :
        CostOf(PermittedUnder(Group(a))) = Sums(Cost)[PermittedUnder(Group(a))]
  BY <1>1, CostIsTheSum DEF PermittedUnder, Permitted
<1>3. \A r \in Runs : CostOf({e \in PermittedUnder(Delegations) : eff[e].p.run = r})
                      = Sums(Cost)[{e \in PermittedUnder(Delegations) : eff[e].p.run = r}]
  <2> TAKE r \in Runs
  <2> DEFINE S == {e \in PermittedUnder(Delegations) : eff[e].p.run = r}
  <2>1. S \in SUBSET Effects
    BY DEF PermittedUnder, Permitted
  <2> HIDE DEF S
  <2>2. CostOf(S) = Sums(Cost)[S]
    BY <1>1, <2>1, CostIsTheSum
  <2> QED
    BY <2>2 DEF S
<1> QED
  BY <1>2, <1>3 DEF SumsBudgeted, CostBudgetHolds

\* One effect is added to what is counted, or none.
LEMMA CostGrows ==
  ASSUME NEW v \in [Effects -> Nat], NEW w \in [Effects -> Nat], NEW e \in Effects,
         \A f \in Effects : f # e => w[f] = v[f],
         NEW S \in SUBSET Effects, NEW T \in SUBSET (S \cup {e}), NEW n \in Nat,
         Sums(v)[S] <= n,
         e \in T => \/ e \in S /\ w[e] = v[e]
                    \/ w[e] = 0
                    \/ \E C \in SUBSET Effects : S \subseteq C /\ Sums(v)[C] + w[e] <= n
  PROVE  Sums(w)[T] <= n
<1> DEFINE R == T \ {e}
<1>1. R \in SUBSET S /\ R \in SUBSET Effects /\ T \in SUBSET Effects
  OBVIOUS
<1>2. Sums(w)[R] = Sums(v)[R] /\ Sums(v)[R] <= Sums(v)[S]
  <2>1. \A f \in R : w[f] = v[f]
    OBVIOUS
  <2> HIDE DEF R
  <2> QED
    BY <1>1, <2>1, SumsAgree, SumsMonotone
<1>3. /\ \A X \in SUBSET Effects : Sums(w)[X] \in Nat /\ Sums(v)[X] \in Nat
      /\ e \in T => Sums(w)[T] = w[e] + Sums(w)[R]
      /\ e \notin T => R = T
  BY <1>1, SumsAdd
<1>4. w[e] \in Nat /\ Sums(w)[R] \in Nat /\ Sums(v)[R] \in Nat /\ Sums(v)[S] \in Nat
  BY <1>1, <1>3
<1> HIDE DEF R
<1>5. CASE e \notin T
  BY <1>2, <1>3, <1>4, <1>5
<1>6. CASE e \in T /\ w[e] = 0
  BY <1>2, <1>3, <1>4, <1>6
<1>7. CASE e \in T /\ e \in S /\ w[e] = v[e]
  <2>1. T \in SUBSET S
    BY <1>7
  <2>2. \A f \in T : w[f] = v[f]
    BY <1>1, <1>7
  <2>3. Sums(w)[T] = Sums(v)[T] /\ Sums(v)[T] <= Sums(v)[S]
    BY <1>1, <2>1, <2>2, SumsAgree, SumsMonotone
  <2> QED
    BY <1>1, <1>3, <1>4, <2>3
<1>8. CASE e \in T /\ \E C \in SUBSET Effects : S \subseteq C /\ Sums(v)[C] + w[e] <= n
  <2>1. PICK C \in SUBSET Effects : S \subseteq C /\ Sums(v)[C] + w[e] <= n
    BY <1>8
  <2>2. Sums(v)[S] <= Sums(v)[C] /\ Sums(v)[C] \in Nat
    BY <1>3, <2>1, SumsMonotone
  <2> QED
    BY <1>2, <1>3, <1>4, <1>8, <2>1, <2>2
<1> QED
  BY <1>5, <1>6, <1>7, <1>8

\* What a group or a run with a root budget holds counts for every delegation in it.
LEMMA CountedEverywhere ==
  ASSUME IInv, NEW d \in Minted
  PROVE  /\ \A a \in deleg[d].above : PermittedUnder(Group(a)) \subseteq Counted(d)
         /\ RootBudget[deleg[d].run] # None =>
              {e \in PermittedUnder(Delegations) : eff[e].p.run = deleg[d].run} \subseteq Counted(d)
<1>1. ASSUME NEW a \in deleg[d].above, NEW f \in PermittedUnder(Group(a)) PROVE f \in Counted(d)
  <2>1. /\ eff[f].p.delegation \in Minted /\ a \in deleg[eff[f].p.delegation].above
        /\ f \in Permitted /\ eff[f].p.delegation # None
    BY DelegationAssumption DEF PermittedUnder, Group, Minted
  <2>2. eff[f].p.run = deleg[a].run /\ deleg[a].run = deleg[d].run
    BY <2>1 DEF IInv, ChainsClosed, PermitFitsChain
  <2>3. eff[f].p.delegation \in Tree(d)
    BY <2>1 DEF Tree
  <2> QED
    BY <2>1, <2>2, <2>3 DEF Counted, Permitted
<1>2. ASSUME RootBudget[deleg[d].run] # None, NEW f \in PermittedUnder(Delegations),
             eff[f].p.run = deleg[d].run
      PROVE  f \in Counted(d)
  BY <1>2, DelegationAssumption DEF PermittedUnder, Counted, Permitted
<1> QED
  BY <1>1, <1>2

\* One effect's record changes; a new permit fits what is left.
LEMMA EffectKeepsBudget ==
  ASSUME IInv, IInv', SumsBudgeted, NEW e \in Effects, NEW x \in Records,
         eff' = [eff EXCEPT ![e] = x], UNCHANGED <<deleg, stopped>>,
         x.state \in PermitStates =>
           \/ e \in Permitted /\ x.p = eff[e].p /\ x.limit = eff[e].limit
           \/ x.p.delegation # None =>
                /\ x.p.delegation \in Minted /\ deleg[x.p.delegation].run = x.p.run
                /\ ~OverCost(x.p.delegation, x.limit)
  PROVE  SumsBudgeted'
<1> DEFINE v == Cost
           w == Cost'
           m == Micros(x.limit)
           d == x.p.delegation
<1>1. eff'[e] = x /\ \A f \in Effects : f # e => eff'[f] = eff[f]
  BY DEF IInv, TypeOK
<1>2. /\ v \in [Effects -> Nat] /\ w \in [Effects -> Nat] /\ w[e] = m
      /\ \A f \in Effects : f # e => w[f] = v[f]
  <2>1. v \in [Effects -> Nat]
    BY CostType DEF IInv
  <2>2. TypeOK' /\ w = [f \in Effects |-> Micros(eff'[f].limit)]
    BY DEF IInv, Cost
  <2>3. \A f \in Effects : Micros(eff'[f].limit) \in Nat
    BY <2>2, DelegationAssumption DEF TypeOK, Records, Unknown, Micros, Limits
  <2>4. \A f \in Effects : v[f] = Micros(eff[f].limit)
    BY DEF Cost
  <2> HIDE DEF v, w
  <2> QED
    BY <1>1, <2>1, <2>2, <2>3, <2>4
<1>3. /\ \A f \in Permitted' : f \in Effects /\ (f # e => f \in Permitted)
      /\ e \in Permitted' => x.state \in PermitStates
  BY <1>1 DEF Permitted, PermitStates
<1>4. e \in Permitted /\ x.limit = eff[e].limit => w[e] = v[e]
  BY <1>2 DEF Cost, Permitted
<1>5. ASSUME d \in Minted, ~OverCost(d, x.limit), m # 0, NEW b \in Ceilings(d)
      PROVE  Sums(v)[Counted(d)] + w[e] <= b.cost
  <2>1. x.limit \in Limits \cup {None}
    BY DEF Records
  <2> QED
    BY <1>2, <1>5, <2>1, PassedCostFits
<1>6. Counted(d) \in SUBSET Effects
  BY DEF Counted, Permitted
<1> HIDE DEF PermitStates, m, v, w
<1>7. ASSUME NEW a \in Minted
      PROVE  Sums(w)[{f \in Permitted' : eff'[f].p.delegation \in Group(a)}] <= deleg[a].budget.cost
  <2> DEFINE S == PermittedUnder(Group(a))
             T == {f \in Permitted' : eff'[f].p.delegation \in Group(a)}
             n == deleg[a].budget.cost
  <2>1. S \in SUBSET Effects /\ T \in SUBSET (S \cup {e})
    BY <1>1, <1>3 DEF PermittedUnder, Permitted
  <2>2. n \in Nat /\ Sums(v)[S] <= n
    BY MintedNodes, DelegationAssumption DEF IInv, SumsBudgeted, Budgets, v
  <2>3. ASSUME e \in T
        PROVE  \/ e \in S /\ w[e] = v[e]
               \/ w[e] = 0
               \/ \E C \in SUBSET Effects : S \subseteq C /\ Sums(v)[C] + w[e] <= n
    <3>1. d \in Group(a) /\ d # None /\ d \in Minted /\ a \in deleg[d].above
      BY <1>1, <2>3, DelegationAssumption DEF Group, Minted
    <3>2. CASE e \in Permitted /\ x.p = eff[e].p /\ x.limit = eff[e].limit
      BY <1>4, <3>1, <3>2 DEF PermittedUnder
    <3>3. CASE ~OverCost(d, x.limit)
      <4>1. deleg[a].budget \in Ceilings(d) /\ S \subseteq Counted(d)
        BY <3>1, CountedEverywhere DEF Ceilings
      <4> QED
        BY <1>2, <1>5, <1>6, <3>1, <3>3, <4>1
    <3> QED
      BY <1>3, <2>3, <3>1, <3>2, <3>3
  <2> HIDE DEF S, T, n
  <2>4. Sums(w)[T] <= n
    BY <1>2, <2>1, <2>2, <2>3, CostGrows
  <2> QED
    BY <2>4 DEF T, n
<1>8. ASSUME NEW r \in Runs, RootBudget[r] # None
      PROVE  Sums(w)[{f \in Permitted' : eff'[f].p.delegation \in Delegations /\ eff'[f].p.run = r}]
               <= RootBudget[r].cost
  <2> DEFINE S == {f \in PermittedUnder(Delegations) : eff[f].p.run = r}
             T == {f \in Permitted' : eff'[f].p.delegation \in Delegations /\ eff'[f].p.run = r}
             n == RootBudget[r].cost
  <2>1. S \in SUBSET Effects /\ T \in SUBSET (S \cup {e})
    BY <1>1, <1>3 DEF PermittedUnder, Permitted
  <2>2. n \in Nat /\ Sums(v)[S] <= n
    <3>1. RootBudget[r] \in Budgets
      BY <1>8, DelegationAssumption
    <3>2. n \in Nat
      <4>1. \A b \in Budgets : b.cost \in Nat
        BY DelegationAssumption DEF Budgets
      <4> QED BY <3>1, <4>1
    <3>3. Sums(Cost)[{f \in PermittedUnder(Delegations) : eff[f].p.run = r}] <= RootBudget[r].cost
      BY ONLY <1>8, SumsBudgeted, Zenon DEF SumsBudgeted
    <3> QED BY <3>2, <3>3 DEF v
  <2>3. ASSUME e \in T
        PROVE  \/ e \in S /\ w[e] = v[e]
               \/ w[e] = 0
               \/ \E C \in SUBSET Effects : S \subseteq C /\ Sums(v)[C] + w[e] <= n
    <3>1. d \in Delegations /\ d # None /\ x.p.run = r
      BY <1>1, <2>3, DelegationAssumption
    <3>2. CASE e \in Permitted /\ x.p = eff[e].p /\ x.limit = eff[e].limit
      BY <1>4, <3>1, <3>2 DEF PermittedUnder
    <3>3. CASE d \in Minted /\ deleg[d].run = x.p.run /\ ~OverCost(d, x.limit)
      <4>1. RootBudget[r] \in Ceilings(d) /\ S \subseteq Counted(d)
        BY <1>8, <3>1, <3>3, CountedEverywhere DEF Ceilings
      <4> QED
        BY <1>2, <1>5, <1>6, <3>1, <3>3, <4>1
    <3> QED
      BY <1>3, <2>3, <3>1, <3>2, <3>3
  <2> HIDE DEF S, T, n
  <2>4. Sums(w)[T] <= n
    BY <1>2, <2>1, <2>2, <2>3, CostGrows
  <2> QED
    BY <2>4 DEF T, n
<1>9. /\ \A a \in Minted : PermittedUnder(Group(a))'
                           = {f \in Permitted' : eff'[f].p.delegation \in Group(a)}
      /\ \A r \in Runs : {f \in Permitted' : eff'[f].p.delegation \in Delegations /\ eff'[f].p.run = r}
                         = {f \in PermittedUnder(Delegations)' : eff'[f].p.run = r}
  BY DEF PermittedUnder, Group, Minted
<1> QED
  BY <1>7, <1>8, <1>9 DEF SumsBudgeted, Minted, w

\* Minting and revoking change neither what was permitted nor a ceiling; a new
\* delegation has no permits.
LEMMA TreeKeepsBudget ==
  ASSUME IInv, IInv', SumsBudgeted, UNCHANGED eff,
         \A d \in Minted : deleg'[d].above = deleg[d].above /\ deleg'[d].budget = deleg[d].budget
  PROVE  SumsBudgeted'
<1>1. Permitted' = Permitted /\ Cost' = Cost
  BY DEF Permitted, Cost
<1>2. ASSUME NEW a \in Minted'
      PROVE  Sums(Cost)[PermittedUnder(Group(a))'] <= deleg'[a].budget.cost
  <2> DEFINE T == PermittedUnder(Group(a))'
             S == PermittedUnder(Group(a))
  <2>1. ASSUME NEW f \in T PROVE a \in Minted /\ f \in S
    <3>1. /\ f \in Permitted /\ eff[f].p.delegation \in Minted' /\ eff[f].p.delegation # None
          /\ a \in deleg'[eff[f].p.delegation].above
      BY <1>1, DelegationAssumption DEF PermittedUnder, Group, Minted
    <3>2. eff[f].p.delegation \in Minted
      BY <3>1 DEF IInv, PermitFitsChain
    <3>3. a \in deleg[eff[f].p.delegation].above
      BY <3>1, <3>2
    <3> QED
      BY <3>1, <3>2, <3>3 DEF PermittedUnder, Group, IInv, ChainsClosed
  <2>2. S \in SUBSET Effects /\ T \in SUBSET S
    BY <2>1 DEF PermittedUnder, Permitted
  <2>3. Cost \in [Effects -> Nat]
    BY CostType DEF IInv
  <2>4. deleg'[a].budget.cost \in Nat
    BY DelegationAssumption DEF IInv, TypeOK, Minted, Nodes, Budgets
  <2>5. CASE T = {}
    BY <2>3, <2>4, <2>5, SumsAdd
  <2>6. CASE a \in Minted
    <3>1. Sums(Cost)[S] <= deleg'[a].budget.cost
      BY <2>6 DEF SumsBudgeted
    <3>2. T \in SUBSET Effects /\ Sums(Cost)[S] \in Nat /\ Sums(Cost)[T] \in Nat
      BY <2>2, <2>3, SumsAdd
    <3>3. Sums(Cost)[T] <= Sums(Cost)[S]
      BY <2>2, <2>3, SumsMonotone
    <3> HIDE DEF S, T
    <3>4. Sums(Cost)[T] <= deleg'[a].budget.cost
      BY <2>4, <3>1, <3>2, <3>3
    <3> QED
      BY <3>4 DEF T
  <2> QED
    BY <2>1, <2>5, <2>6
<1>3. PermittedUnder(Delegations)' = PermittedUnder(Delegations)
  BY <1>1 DEF PermittedUnder
<1> QED
  BY <1>1, <1>2, <1>3 DEF SumsBudgeted

\* A decision is a denial, a hold or a permit that passed the checks.
LEMMA DecideKeepsBudget ==
  ASSUME IInv, IInv', SumsBudgeted, NEW e \in Effects, NEW p \in Proposals,
         Decide(e, p), UNCHANGED <<deleg, stopped>>
  PROVE  SumsBudgeted'
<1>1. PICK st \in {"denied", "held", "permitted"}, limit \in Limits \cup {None} :
        /\ eff' = [eff EXCEPT ![e] = [p |-> p, state |-> st, limit |-> limit]]
        /\ st = "permitted" => Passes(p, limit)
  BY DEF Decide
<1> DEFINE x == [p |-> p, state |-> st, limit |-> limit]
<1>2. x \in Records /\ x.p = p /\ x.state = st /\ x.limit = limit
  BY DEF Records
<1>3. eff' = [eff EXCEPT ![e] = x]
  BY <1>1
<1> HIDE DEF x
<1>4. ASSUME st = "permitted", p.delegation # None
      PROVE  /\ p.delegation \in Minted /\ deleg[p.delegation].run = p.run
             /\ ~OverCost(p.delegation, limit)
  BY <1>1, <1>4 DEF Passes, InScope, OverBudget
<1> QED
  BY <1>2, <1>3, <1>4, EffectKeepsBudget DEF PermitStates

LEMMA NextKeepsBudget == IInv /\ IInv' /\ SumsBudgeted /\ [Next]_vars => SumsBudgeted'
<1> SUFFICES ASSUME IInv, IInv', SumsBudgeted, [Next]_vars PROVE SumsBudgeted'
  OBVIOUS
<1>1. ASSUME NEW m \in Mints, Delegate(m) PROVE SumsBudgeted'
  <2>1. m.id \notin Minted /\ UNCHANGED eff
    BY <1>1 DEF Delegate, Open
  <2>2. \A d \in Minted : deleg'[d] = deleg[d]
    BY <1>1, <2>1 DEF Delegate, Minted, IInv, TypeOK
  <2> QED
    BY <2>1, <2>2, TreeKeepsBudget
<1>2. ASSUME NEW c \in Delegations, RevokeDelegation(c) PROVE SumsBudgeted'
  <2>1. \A d \in Minted : deleg[d] \in Nodes /\ d \in Delegations
    BY MintedNodes DEF IInv
  <2>2. \A d \in Minted : deleg'[d].above = deleg[d].above /\ deleg'[d].budget = deleg[d].budget
    BY <1>2, <2>1 DEF RevokeDelegation, IInv, TypeOK, Nodes
  <2> QED
    BY <1>2, <2>2, TreeKeepsBudget DEF RevokeDelegation
<1>3. ASSUME NEW r \in Runs, Stop(r) PROVE SumsBudgeted'
  <2>1. \A d \in Minted : deleg[d] \in Nodes /\ d \in Delegations
    BY MintedNodes DEF IInv
  <2>2. \A d \in Minted : deleg'[d].above = deleg[d].above /\ deleg'[d].budget = deleg[d].budget
    BY <1>3, <2>1 DEF Stop, Nodes
  <2> QED
    BY <1>3, <2>2, TreeKeepsBudget DEF Stop
<1>4. ASSUME NEW e \in Effects, NEW p \in Proposals, Authorize(e, p) PROVE SumsBudgeted'
  BY <1>4, DecideKeepsBudget DEF Authorize
<1>5. ASSUME NEW e \in Effects, AttachReview(e) PROVE SumsBudgeted'
  <2>1. eff[e].p \in Proposals
    BY <1>5 DEF AttachReview, IInv, TypeOK, Records, Unknown
  <2> QED
    BY <1>5, <2>1, DecideKeepsBudget DEF AttachReview
<1>6. ASSUME NEW e \in Effects, Commit(e) \/ Lapse(e) PROVE SumsBudgeted'
  <2>1. PICK st \in {"released", "lapsed"} : eff' = [eff EXCEPT ![e].state = st]
    BY <1>6 DEF Commit, Lapse
  <2>2. e \in Permitted /\ UNCHANGED <<deleg, stopped>>
    BY <1>6 DEF Commit, Lapse, Permitted
  <2> DEFINE x == [eff[e] EXCEPT !.state = st]
  <2>3. x \in Records /\ x.p = eff[e].p /\ x.limit = eff[e].limit
    BY <2>2, PermittedRecords DEF IInv, Records
  <2>4. eff' = [eff EXCEPT ![e] = x]
    BY <2>1
  <2> HIDE DEF x
  <2> QED
    BY <2>2, <2>3, <2>4, EffectKeepsBudget
<1>7. CASE UNCHANGED vars
  BY <1>7, TreeKeepsBudget DEF vars
<1> QED
  BY <1>1, <1>2, <1>3, <1>4, <1>5, <1>6, <1>7 DEF Next

\* No group's permits cost more than its ceiling, and no run's more than its root's:
\* neither saturation nor the subtraction form of the comparison lets one through.
THEOREM CostBounded == Spec => []CostBudgetHolds
<1>1. Init => SumsBudgeted
  <2> SUFFICES ASSUME Init PROVE SumsBudgeted
    OBVIOUS
  <2>1. IInv /\ Minted = {} /\ Permitted = {}
    BY InitInv DEF Init, Minted, Permitted, Unknown
  <2>2. Sums(Cost)[{}] = 0
    BY <2>1, SumsAdd, CostType DEF IInv
  <2>3. \A r \in Runs : {e \in PermittedUnder(Delegations) : eff[e].p.run = r} = {}
    BY <2>1 DEF PermittedUnder
  <2>4. \A r \in Runs : RootBudget[r] # None => RootBudget[r].cost \in Nat
    BY DelegationAssumption DEF Budgets
  <2>5. \A r \in Runs : RootBudget[r] # None =>
          Sums(Cost)[{e \in PermittedUnder(Delegations) : eff[e].p.run = r}] <= RootBudget[r].cost
    <3> TAKE r \in Runs
    <3> DEFINE S == {e \in PermittedUnder(Delegations) : eff[e].p.run = r}
    <3>1. S = {}
      BY <2>3
    <3> HIDE DEF S
    <3>2. Sums(Cost)[S] = 0
      BY <2>2, <3>1
    <3>3. RootBudget[r] # None => Sums(Cost)[S] <= RootBudget[r].cost
      BY <2>4, <3>2
    <3> QED
      BY <3>3 DEF S
  <2> QED
    BY <2>1, <2>5 DEF SumsBudgeted
<1>2. IInv /\ SumsBudgeted => CostBudgetHolds
  BY BudgetsAreSums
<1> QED
  BY <1>1, <1>2, NextKeepsBudget, TreeInvariance, PTL DEF Spec
===============================================================================
