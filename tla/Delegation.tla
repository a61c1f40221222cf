------------------------------ MODULE Delegation ------------------------------
(***************************************************************************)
(* The broker's delegation tree (broker/delegation.go): children narrow    *)
(* what their parent may do, the permits of a tree share its budget, and a *)
(* revocation or a stop fences a whole group.  What the broker's gate      *)
(* decides besides is left open here; module Broker has it.  Every action  *)
(* is one critical section of b.mu, and one tenant is modelled.  Where the *)
(* code walks parent links, a delegation here has the set of its ancestors *)
(* from its mint on: links never change and ids are never reused.          *)
(***************************************************************************)
EXTENDS Integers, FiniteSets, FiniteSetsExt, Folds

CONSTANTS
  Runs, Delegations, Effects, Actors, Currencies, None,
  Entries,         \* what capability lists hold: classes, destination prefixes, resources
  Targets,         \* what a proposal names of each kind
  Covers,          \* [Entries -> SUBSET Targets]: the targets an entry matches
  AllowedClasses,  \* [Runs -> SUBSET Entries]: the run's permitted action classes
  RootCaps,        \* [Runs -> Capabilities]: an unrestricted list is all of Entries
  RootBudget,      \* [Runs -> Budgets \cup {None}]
  Mints,           \* the delegation requests of this model
  Proposals,       \* the effects proposed in this model
  MaxMoney,        \* the largest amount of micros an int64 holds
  MaxDepth         \* MaxDelegationDepth

Kinds == {"class", "destination", "resource"}

Capabilities == [Kinds -> SUBSET Entries]

Budgets == [effects : Nat, tokens : Nat, cost : 0..MaxMoney, currency : Currencies]

\* A rule's amount limit; rules without one limit the size and cost nothing.
Limits == [micros : 0..MaxMoney, currency : Currencies]

MintShapes == [id : Delegations, run : Runs, parent : Delegations \cup {None},
               by : Actors, to : Actors, caps : Capabilities, budget : Budgets]

ProposalShapes == [run : Runs, actor : Actors, delegation : Delegations \cup {None},
                   target : [Kinds -> Targets], compensates : BOOLEAN]

ASSUME DelegationAssumption ==
  /\ IsFiniteSet(Effects)
  /\ Covers \in [Entries -> SUBSET Targets]
  /\ AllowedClasses \in [Runs -> SUBSET Entries]
  /\ RootCaps \in [Runs -> Capabilities]
  /\ RootBudget \in [Runs -> Budgets \cup {None}]
  /\ Mints \subseteq MintShapes
  /\ Proposals \subseteq ProposalShapes
  /\ MaxMoney \in Nat
  /\ MaxDepth \in Nat \ {0}
  /\ None \notin Budgets /\ None \notin Limits
  /\ None \notin Delegations /\ None \notin Runs

VARIABLES
  deleg,    \* b.delegations
  eff,      \* b.effects: the proposal, what became of it, the limit of its permit
  stopped   \* runs a stop order was accepted for

vars == <<deleg, eff, stopped>>

\* above: the chain from the tree's root down to the delegation, itself included.
Nodes == [run : Runs, holder : Actors, depth : 1..MaxDepth, caps : Capabilities,
          budget : Budgets, active : BOOLEAN, above : SUBSET Delegations]

\* "released" is a permit that passed Commit's recheck of the fences; "lapsed" one
\* that was cancelled or expired before.
Records == [p : Proposals, limit : Limits \cup {None},
            state : {"held", "denied", "permitted", "released", "lapsed"}]

Unminted == [run |-> None, above |-> {}]

Unknown == [p |-> None, limit |-> None, state |-> "unknown"]

TypeOK ==
  /\ deleg \in [Delegations -> Nodes \cup {Unminted}]
  /\ eff \in [Effects -> Records \cup {Unknown}]
  /\ stopped \subseteq Runs

Init ==
  /\ deleg = [d \in Delegations |-> Unminted]
  /\ eff = [e \in Effects |-> Unknown]
  /\ stopped = {}

-------------------------------------------------------------------------------
(* Chains, groups and trees *)

Minted == {d \in Delegations : deleg[d] # Unminted}

\* Mutation: only the delegation itself is looked at.
OwnActive(d) == deleg[d].active

ChainActive(d) == \A a \in deleg[d].above : deleg[a].active

\* A delegation and its descendants.
Group(a) == {d \in Minted : a \in deleg[d].above}

\* All delegations under the same root.
Tree(d) == {x \in Minted : deleg[x].above \cap deleg[d].above # {}}

\* Effects that carry a permit count, whatever became of them.
Permitted == {e \in Effects : eff[e].state \in {"permitted", "released", "lapsed"}}

PermittedUnder(ds) == {e \in Permitted : eff[e].p.delegation \in ds}

-------------------------------------------------------------------------------
(* Minting *)

\* Mutation: an empty list restricts nothing.
NarrowerOrEmpty(caps, from) == \A k \in Kinds : from[k] = {} \/ caps[k] \subseteq from[k]

Narrower(caps, from) == \A k \in Kinds : caps[k] \subseteq from[k]

NotRaised(budget, from) ==
  /\ budget.cost <= from.cost /\ budget.currency = from.currency
  /\ budget.tokens <= from.tokens
  /\ budget.effects <= from.effects

DepthOk(depth) == depth <= MaxDepth

\* resolveParentLocked: what the child narrows from.
ParentScope(m) ==
  IF m.parent = None
  THEN [caps |-> RootCaps[m.run], budget |-> RootBudget[m.run], depth |-> 0, above |-> {}]
  ELSE [caps |-> deleg[m.parent].caps, budget |-> deleg[m.parent].budget,
        depth |-> deleg[m.parent].depth, above |-> deleg[m.parent].above]

ParentFit(m) ==
  IF m.parent = None
  THEN RootCaps[m.run]["class"] \subseteq AllowedClasses[m.run]
  ELSE /\ m.parent \in Minted
       /\ deleg[m.parent].run = m.run
       /\ ChainActive(m.parent)
       /\ deleg[m.parent].holder = m.by

\* Mutation: a stop only fences the delegations it finds.
OpenWhenStopped(m) == m.id \notin Minted

Open(m) == m.run \notin stopped /\ m.id \notin Minted

Delegate(m) ==
  LET scope == ParentScope(m) IN
  /\ Open(m)
  /\ ParentFit(m)
  /\ Narrower(m.caps, scope.caps)
  /\ scope.budget # None => NotRaised(m.budget, scope.budget)
  /\ DepthOk(scope.depth + 1)
  /\ deleg' = [deleg EXCEPT ![m.id] =
       [run |-> m.run, holder |-> m.to, depth |-> scope.depth + 1, caps |-> m.caps,
        budget |-> m.budget, active |-> TRUE, above |-> scope.above \cup {m.id}]]
  /\ UNCHANGED <<eff, stopped>>

RevokeDelegation(d) ==
  /\ d \in Minted
  /\ deleg' = [deleg EXCEPT ![d].active = FALSE]
  /\ UNCHANGED <<eff, stopped>>

\* The first critical section of Stop: the order, and step 3 over the whole run.
Stop(r) ==
  /\ r \notin stopped
  /\ stopped' = stopped \cup {r}
  /\ deleg' = [d \in Delegations |-> IF deleg[d].run = r THEN [deleg[d] EXCEPT !.active = FALSE]
                                                         ELSE deleg[d]]
  /\ UNCHANGED eff

-------------------------------------------------------------------------------
(* The shared budget *)

\* Every ceiling that governs an effect under d; the tightest one decides.
Ceilings(d) == {deleg[a].budget : a \in deleg[d].above} \cup ({RootBudget[deleg[d].run]} \ {None})

Tightest(d) == Min({b.cost : b \in Ceilings(d)})

\* Mutation: a run-wide budget is charged for the tree only.
CountedInTree(d) == {e \in PermittedUnder(Tree(d)) : eff[e].p.run = deleg[d].run}

\* A run's root budget is charged for every delegated effect of the run.
Counted(d) ==
  {e \in Permitted : /\ eff[e].p.run = deleg[d].run
                     /\ eff[e].p.delegation # None
                     /\ \/ RootBudget[deleg[d].run] # None
                        \/ eff[e].p.delegation \in Tree(d)}

Micros(limit) == IF limit = None THEN 0 ELSE limit.micros

AddSaturating(a, b, ceiling) ==
  IF a >= ceiling \/ b >= ceiling \/ a > ceiling - b THEN ceiling ELSE a + b

Spent(d) ==
  MapThenFoldSet(LAMBDA a, b : AddSaturating(a, b, Tightest(d)), 0,
                 LAMBDA e : Micros(eff[e].limit), LAMBDA S : CHOOSE e \in S : TRUE, Counted(d))

\* Mutation: the sum is formed in 64 bits and compared.
OverCostWrapped(d, limit) ==
  LET sum == Spent(d) + Micros(limit) IN
  (IF sum > MaxMoney THEN sum - 2 * (MaxMoney + 1) ELSE sum) > Tightest(d)

OverCost(d, limit) ==
  \/ Micros(limit) > Tightest(d)
  \/ Spent(d) > Tightest(d)
  \/ Spent(d) > Tightest(d) - Micros(limit)

OverBudget(d, limit) ==
  \/ \E b \in Ceilings(d) : Cardinality(Counted(d)) + 1 > b.effects
  \/ limit # None /\ limit.currency # deleg[d].budget.currency
  \/ OverCost(d, limit)

-------------------------------------------------------------------------------
(* Deciding and committing effects *)

\* Mutation: any actor may propose under a delegation.
InScopeOfAnyActor(p) ==
  LET d == p.delegation IN
  /\ d \in Minted /\ deleg[d].run = p.run
  /\ ChainActive(d)
  /\ \A k \in Kinds : \E x \in deleg[d].caps[k] : p.target[k] \in Covers[x]

\* delegationReason
InScope(p) ==
  LET d == p.delegation IN
  /\ d \in Minted /\ deleg[d].run = p.run
  /\ deleg[d].holder = p.actor
  /\ ChainActive(d)
  /\ \A k \in Kinds : \E x \in deleg[d].caps[k] : p.target[k] \in Covers[x]

Fenced(p) == p.run \in stopped /\ ~p.compensates

\* What decideLocked asks of stop and delegation before it holds or permits.
Passes(p, limit) ==
  /\ ~Fenced(p)
  /\ p.delegation # None => InScope(p) /\ ~OverBudget(p.delegation, limit)

\* The rest of the gate may deny any proposal, hold it for review or let it pass;
\* the limit is the one of the live policy's rule.
Decide(e, p) ==
  \/ eff' = [eff EXCEPT ![e] = [p |-> p, state |-> "denied", limit |-> None]]
  \/ \E limit \in Limits \cup {None} :
       /\ Passes(p, limit)
       /\ eff' = [eff EXCEPT ![e] = [p |-> p, state |-> "permitted", limit |-> limit]]
  \/ /\ \E limit \in Limits \cup {None} : Passes(p, limit)
     /\ eff' = [eff EXCEPT ![e] = [p |-> p, state |-> "held", limit |-> None]]

Authorize(e, p) ==
  /\ eff[e] = Unknown
  /\ Decide(e, p)
  /\ UNCHANGED <<deleg, stopped>>

\* An ALLOW decides again; a DENY denies; WATCH and ABSTAIN change nothing.
AttachReview(e) ==
  /\ eff[e].state = "held"
  /\ Decide(e, eff[e].p)
  /\ UNCHANGED <<deleg, stopped>>

\* Commit's recheck, before any sink is called.
CommitFenced(p) ==
  \/ Fenced(p)
  \/ p.delegation # None /\ ~(/\ p.delegation \in Minted
                             /\ deleg[p.delegation].run = p.run
                             /\ ChainActive(p.delegation))

Commit(e) ==
  /\ eff[e].state = "permitted"
  /\ eff' = [eff EXCEPT ![e].state = IF CommitFenced(eff[e].p) THEN "lapsed" ELSE "released"]
  /\ UNCHANGED <<deleg, stopped>>

\* The permit expires, its policy is replaced, or the stop sweeps it.
Lapse(e) ==
  /\ eff[e].state = "permitted"
  /\ eff' = [eff EXCEPT ![e].state = "lapsed"]
  /\ UNCHANGED <<deleg, stopped>>

Next ==
  \/ \E m \in Mints : Delegate(m)
  \/ \E d \in Delegations : RevokeDelegation(d)
  \/ \E r \in Runs : Stop(r)
  \/ \E e \in Effects : AttachReview(e) \/ Commit(e) \/ Lapse(e)
  \/ \E e \in Effects, p \in Proposals : Authorize(e, p)

Spec == Init /\ [][Next]_vars

-------------------------------------------------------------------------------
(* What makes the properties below inductive *)

\* Chains are closed, stay in their run, and hold only minted delegations.
ChainsClosed ==
  \A d \in Minted :
    /\ d \in deleg[d].above /\ deleg[d].above \subseteq Minted
    /\ \A a \in deleg[d].above : /\ deleg[a].run = deleg[d].run
                                 /\ deleg[a].above \subseteq deleg[d].above

-------------------------------------------------------------------------------
(* What must hold *)

\* However deep the tree, no delegation can do more or has a higher ceiling than
\* any of its ancestors, or than the run's root.
OnlyNarrows ==
  \A d \in Minted :
    /\ \A k \in Kinds : deleg[d].caps[k] \subseteq RootCaps[deleg[d].run][k]
    /\ RootBudget[deleg[d].run] # None => NotRaised(deleg[d].budget, RootBudget[deleg[d].run])
    /\ \A a \in deleg[d].above :
         /\ \A k \in Kinds : deleg[d].caps[k] \subseteq deleg[a].caps[k]
         /\ NotRaised(deleg[d].budget, deleg[a].budget)

\* What was permitted is within the capabilities of the whole chain above it, and
\* was proposed by the holder of a delegation of its run.
PermitFitsChain ==
  \A e \in Permitted : eff[e].p.delegation # None =>
    LET d == eff[e].p.delegation IN
    /\ d \in Minted /\ deleg[d].run = eff[e].p.run /\ deleg[d].holder = eff[e].p.actor
    /\ \A a \in deleg[d].above, k \in Kinds :
         \E x \in deleg[a].caps[k] : eff[e].p.target[k] \in Covers[x]

\* A group never holds more permits than its delegation's ceiling, nor a run's
\* delegations together more than the root's.
EffectBudgetHolds ==
  /\ \A a \in Minted : Cardinality(PermittedUnder(Group(a))) <= deleg[a].budget.effects
  /\ \A r \in Runs : RootBudget[r] # None =>
       Cardinality({e \in PermittedUnder(Delegations) : eff[e].p.run = r}) <= RootBudget[r].effects

\* The exact sum of what a set of effects may cost.
CostOf(es) ==
  MapThenSumSet(LAMBDA e : Micros(eff[e].limit), es)

\* The same of money: saturation and the subtraction form lose nothing.
CostBudgetHolds ==
  /\ \A a \in Minted : CostOf(PermittedUnder(Group(a))) <= deleg[a].budget.cost
  /\ \A r \in Runs : RootBudget[r] # None =>
       CostOf({e \in PermittedUnder(Delegations) : eff[e].p.run = r}) <= RootBudget[r].cost

\* Nothing in the group of a revoked delegation is minted, permitted, held or
\* released any more.
GroupSilent ==
  \A a \in Minted : ~deleg[a].active =>
    /\ \A d \in Delegations \ Minted : a \notin deleg'[d].above
    /\ \A e \in Effects : eff'[e] # eff[e] /\ eff'[e].p.delegation \in Group(a) =>
         eff'[e].state \in {"denied", "lapsed"}

RevokedGroupSilent == [][GroupSilent]_vars

\* After a stop no delegation of the run is active, also none minted later.
StoppedRunFenced == \A d \in Minted : deleg[d].run \in stopped => ~deleg[d].active
=============================================================================
