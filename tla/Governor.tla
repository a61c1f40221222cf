------------------------------- MODULE Governor -------------------------------
(***************************************************************************)
(* The run governor (governor/governor.go, governor/handoff.go): safety    *)
(* envelopes, short grant leases renewed by heartbeats, trip conditions    *)
(* and the actions stop rules map them to, the emergency stop and the      *)
(* sweep.  Every handler holds g.mu from beginning to end, so one action   *)
(* is one handler.  Tenants never share a key: one tenant is modelled.     *)
(***************************************************************************)
EXTENDS Integers, FiniteSets, Functions

CONSTANTS
  Experiments, RunIds, Sessions, Targets,
  Offered,    \* [Experiments -> SUBSET Envelopes]: what may be registered
  Beats,      \* what a heartbeat may claim and report
  Incidents,  \* the conditions observers report in this model
  LeaseTTL,   \* GrantLeaseTTL in ticks
  MaxGen,     \* bound on the renewals of one grant
  MaxTime,    \* bound on the modelled clock
  None        \* "not registered"

Conditions == {"unauthorized_effect", "containment_coverage_loss",
               "evidence_persistence_failure", "unexpected_target_expansion",
               "grant_expiry", "budget_exhaustion", "service_health_threshold",
               "operator_request"}

Actions == {"stop_injection", "fence_effects", "terminate"}

Selectors == [targets : SUBSET Targets, exclusions : SUBSET Targets]

\* Stop rules are a list of which the first match counts: a partial map.
Envelopes == [selectors  : SUBSET Selectors,
              duration   : Nat \ {0},
              concurrent : Nat \ {0},
              perSession : Nat,
              aggregate  : Nat,
              rules      : [Conditions -> Actions \cup {"none"}]]

\* claims: what each session is claimed to have cost (0: no claim); foreign: a
\* claim in another currency follows the ones listed.
BeatShapes == [claims : [Sessions -> Nat], foreign : BOOLEAN, observed : SUBSET Targets]

ASSUME GovernorAssumption ==
  /\ IsFiniteSet(RunIds)
  /\ SumFunction([s \in Sessions |-> 0]) = 0   \* what a run costs before any claim
  /\ Offered \in [Experiments -> SUBSET Envelopes]
  /\ Beats \subseteq BeatShapes
  /\ Incidents \subseteq Conditions
  /\ LeaseTTL \in Nat \ {0}
  /\ MaxGen \in Nat
  /\ MaxTime \in Nat
  /\ None \notin Envelopes
  /\ None \notin Experiments

VARIABLES
  now,           \* the governor's clock, the only one a grant trusts
  envelope,      \* [Experiments -> the registered envelope or None]
  fenced,        \* experiments under an emergency stop (Envelope.Fenced)
  tenantFenced,  \* the tenant is under an emergency stop
  run            \* [RunIds -> GovernedRun]

vars == <<now, envelope, fenced, tenantFenced, run>>
registry == <<envelope, fenced, tenantFenced>>

\* handoffs holds the cause of every stop handoff emitted for the run.  The
\* reported total (AggregateSpend) is the sum of spend at the last renewal.
GovernedRuns ==
  [state     : {"none", "active", "fenced", "stopped"},
   of        : Experiments \cup {None},
   injecting : BOOLEAN,
   gen       : Nat,
   expires   : Nat,
   deadline  : Nat,
   spend     : [Sessions -> Nat],
   observed  : SUBSET Targets,
   tripped   : SUBSET Conditions,
   handoffs  : SUBSET Conditions,
   cleanup   : {"none", "CLEAN", "DIRTY_QUARANTINED", "UNKNOWN"}]

NoRun == [state |-> "none", of |-> None, injecting |-> FALSE, gen |-> 0, expires |-> 0,
          deadline |-> 0, spend |-> [s \in Sessions |-> 0], observed |-> {},
          tripped |-> {}, handoffs |-> {}, cleanup |-> "none"]

TypeOK ==
  /\ now \in Nat
  /\ envelope \in [Experiments -> Envelopes \cup {None}]
  /\ fenced \subseteq Experiments
  /\ tenantFenced \in BOOLEAN
  /\ run \in [RunIds -> GovernedRuns]

Init ==
  /\ now = 0
  /\ envelope = [e \in Experiments |-> None]
  /\ fenced = {}
  /\ tenantFenced = FALSE
  /\ run = [r \in RunIds |-> NoRun]

-------------------------------------------------------------------------------
(* Reading an envelope and a run *)

Env(r) == envelope[run[r].of]

\* Mutation: an exclusion counts only in the selector that names it.
EligiblePerSelector(env) == UNION {s.targets \ s.exclusions : s \in env.selectors}

Excluded(env) == UNION {s.exclusions : s \in env.selectors}

Eligible(env) == (UNION {s.targets : s \in env.selectors}) \ Excluded(env)

LeaseEnd(deadline) == IF deadline <= now + LeaseTTL THEN deadline ELSE now + LeaseTTL

\* Mutation: a lease that expires now still renews.
LapsedLater(x) == x.state = "active" /\ now > x.expires

\* Expiry equal to now authorizes nothing.
Lapsed(x) == x.state = "active" /\ now >= x.expires

\* The runs that hold one of the experiment's concurrency slots.
Granted(e) == {r \in RunIds : run[r].of = e /\ run[r].state = "active" /\ now < run[r].expires}

\* Claims are lower bounds: a recorded total only rises.
Raised(spend, claims) ==
  [s \in Sessions |-> IF claims[s] > spend[s] THEN claims[s] ELSE spend[s]]

\* Mutation: only the per-session ceiling is enforced.
OverBudgetPerSession(env, spend) == \E s \in Sessions : spend[s] > env.perSession

OverBudget(env, spend) ==
  \/ \E s \in Sessions : spend[s] > env.perSession
  \/ SumFunction(spend) > env.aggregate

-------------------------------------------------------------------------------
(* Tripping *)

\* Mutation: a condition without a rule has no action.
ActionForRuledOnly(env, c) == env.rules[c]

\* A condition with no matching rule fences.
ActionFor(env, c) == IF env.rules[c] = "none" THEN "fence_effects" ELSE env.rules[c]

\* Mutation: every action emits a handoff.
AppliedHandingOff(x, c, action) ==
  [x EXCEPT !.tripped = @ \cup {c}, !.injecting = FALSE, !.handoffs = @ \cup {c},
            !.state = CASE action = "fence_effects" -> "fenced"
                        [] action = "terminate" -> "stopped"
                        [] OTHER -> @]

Applied(x, c, action) ==
  [x EXCEPT !.tripped = @ \cup {c},
            !.injecting = IF action \in Actions THEN FALSE ELSE @,
            !.state = CASE action = "fence_effects" -> "fenced"
                        [] action = "terminate" -> "stopped"
                        [] OTHER -> @,
            !.handoffs = IF action \in {"fence_effects", "terminate"} THEN @ \cup {c} ELSE @]

\* tripLocked: a condition trips a run once; a later raise is only logged.
Tripped(x, c, action) == IF c \in x.tripped THEN x ELSE Applied(x, c, action)

Trip(r, x, c) ==
  /\ run' = [run EXCEPT ![r] = Tripped(x, c, ActionFor(Env(r), c))]
  /\ UNCHANGED <<now, registry>>

-------------------------------------------------------------------------------
(* Envelopes and grants *)

RegisterEnvelope(e, env) ==
  /\ envelope[e] = None
  /\ envelope' = [envelope EXCEPT ![e] = env]
  /\ UNCHANGED <<now, fenced, tenantFenced, run>>

\* Mutation: the fence of a single experiment is forgotten.
OpenToTenant(e) == ~tenantFenced /\ envelope[e] # None

Open(e) == ~tenantFenced /\ envelope[e] # None /\ e \notin fenced

StartRun(r, e) ==
  /\ run[r].state = "none"
  /\ Open(e)
  /\ Cardinality(Granted(e)) < envelope[e].concurrent
  /\ LET deadline == now + envelope[e].duration IN
     run' = [run EXCEPT ![r] =
       [NoRun EXCEPT !.state = "active", !.of = e, !.injecting = TRUE, !.gen = 1,
                     !.expires = LeaseEnd(deadline), !.deadline = deadline]]
  /\ UNCHANGED <<now, registry>>

\* A beat after the lease trips, whatever generation it names.
LateBeat(r) ==
  /\ Lapsed(run[r])
  /\ Trip(r, run[r], "grant_expiry")

\* A beat in time: unnumbered, or naming the current generation.  One that names
\* an older generation changes nothing.
Timely(r, g) == run[r].state = "active" /\ ~Lapsed(run[r]) /\ g \in {0, run[r].gen}

ExpandingBeat(r, g, b) ==
  /\ Timely(r, g)
  /\ ~(b.observed \subseteq Eligible(Env(r)))
  /\ Trip(r, run[r], "unexpected_target_expansion")

\* The claims are recorded before the ceilings are compared.
Claimed(r, b) == [run[r] EXCEPT !.spend = Raised(run[r].spend, b.claims)]

CostlyBeat(r, g, b) ==
  /\ Timely(r, g)
  /\ b.observed \subseteq Eligible(Env(r))
  /\ b.foreign \/ OverBudget(Env(r), Claimed(r, b).spend)
  /\ Trip(r, Claimed(r, b), "budget_exhaustion")

\* The duration check that stands between these and the renewal never fires: a
\* lease that is live has not reached its deadline (LeaseBounded).
RenewingBeat(r, g, b) ==
  /\ Timely(r, g)
  /\ run[r].gen < MaxGen
  /\ b.observed \subseteq Eligible(Env(r))
  /\ ~b.foreign
  /\ ~OverBudget(Env(r), Claimed(r, b).spend)
  /\ run' = [run EXCEPT ![r] =
       [Claimed(r, b) EXCEPT !.gen = @ + 1,
                             !.expires = LeaseEnd(run[r].deadline),
                             !.observed = b.observed]]
  /\ UNCHANGED <<now, registry>>

Heartbeat(r, g, b) ==
  \/ LateBeat(r)
  \/ ExpandingBeat(r, g, b)
  \/ CostlyBeat(r, g, b)
  \/ RenewingBeat(r, g, b)

\* A service-health value below the declared threshold changes nothing.
ReportIncident(r, c) ==
  /\ run[r].state = "active"
  /\ Trip(r, run[r], c)

-------------------------------------------------------------------------------
(* Stops *)

\* Mutation: the stop reaches the runs that are already fenced.
ReachedEnded(x, scope) == x.state \in {"active", "fenced"} /\ (scope = None \/ x.of = scope)

Reached(x, scope) == x.state = "active" /\ (scope = None \/ x.of = scope)

\* EmergencyStop of one experiment, or of the tenant (scope None).  The forced
\* action overrides the rules, and like any trip it applies once per condition.
EmergencyStop(scope) ==
  /\ scope \in {e \in Experiments : envelope[e] # None} \cup {None}
  /\ run' = [r \in RunIds |->
       IF Reached(run[r], scope) THEN Tripped(run[r], "operator_request", "terminate")
                                 ELSE run[r]]
  /\ tenantFenced' = (tenantFenced \/ scope = None)
  /\ fenced' = IF scope = None THEN fenced ELSE fenced \cup {scope}
  /\ UNCHANGED <<now, envelope>>

\* Its other branch, a live lease past the deadline, never fires (LeaseBounded).
Sweep ==
  /\ \E r \in RunIds : Lapsed(run[r])
  /\ run' = [r \in RunIds |->
       IF Lapsed(run[r])
       THEN Tripped(run[r], "grant_expiry", ActionFor(Env(r), "grant_expiry"))
       ELSE run[r]]
  /\ UNCHANGED <<now, registry>>

ReportCleanupState(r, t) ==
  /\ run[r].state \in {"fenced", "stopped"}
  /\ run[r].cleanup = "none"
  /\ run' = [run EXCEPT ![r].cleanup = t]
  /\ UNCHANGED <<now, registry>>

Tick ==
  /\ now < MaxTime
  /\ now' = now + 1
  /\ UNCHANGED <<registry, run>>

Next ==
  \/ \E e \in Experiments : \E env \in Offered[e] : RegisterEnvelope(e, env)
  \/ \E r \in RunIds, e \in Experiments : StartRun(r, e)
  \/ \E r \in RunIds, g \in 0..MaxGen, b \in Beats : Heartbeat(r, g, b)
  \/ \E r \in RunIds, c \in Incidents : ReportIncident(r, c)
  \/ \E scope \in Experiments \cup {None} : EmergencyStop(scope)
  \/ Sweep
  \/ \E r \in RunIds, t \in {"CLEAN", "DIRTY_QUARANTINED", "UNKNOWN"} : ReportCleanupState(r, t)
  \/ Tick

Spec == Init /\ [][Next]_vars

\* governord sweeps on a ticker; nothing else is assumed, not even that time
\* passes or that a runner beats.
FairSpec == Spec /\ WF_vars(Sweep)

-------------------------------------------------------------------------------
(* What makes the properties below inductive *)

\* What the record of one run and the registry say of each other: authority
\* names a registered envelope, a lease fits its bounds, only an untripped run
\* within its budget and outside every stop injects, and the handoff is the
\* mark of a run that has ended.
Sound(r) ==
  LET x == run[r] IN
  /\ x.state = "none" => x = NoRun
  /\ x.state # "none" => /\ x.of \in Experiments /\ envelope[x.of] # None
                         /\ x.expires <= now + LeaseTTL /\ x.expires <= x.deadline
  /\ x.injecting => /\ x.state = "active" /\ x.tripped = {}
                    /\ ~tenantFenced /\ x.of \notin fenced
                    /\ ~OverBudget(envelope[x.of], x.spend)
  /\ IF x.state \in {"fenced", "stopped"} THEN \E c \in Conditions : x.handoffs = {c}
                                           ELSE x.handoffs = {}

-------------------------------------------------------------------------------
(* What must hold *)

\* However leases lapse and runs start in their place, no experiment ever holds
\* more live leases than its budget of concurrent sessions.
ConcurrencyHolds ==
  \A e \in Experiments : envelope[e] # None =>
     Cardinality(Granted(e)) <= envelope[e].concurrent

\* A runner that falls silent is out of authority within one lease, and no
\* lease outlives the duration budget.
LeaseBounded ==
  \A r \in RunIds : run[r].state # "none" =>
     run[r].expires <= now + LeaseTTL /\ run[r].expires <= run[r].deadline

\* A run whose recorded spend is over a ceiling of its envelope does not inject.
OverspentNeverInjects ==
  \A r \in RunIds : run[r].injecting =>
     /\ ~\E s \in Sessions : run[r].spend[s] > Env(r).perSession
     /\ ~(SumFunction(run[r].spend) > Env(r).aggregate)

\* What a run was renewed with contains no target any selector excludes.
ExcludedNeverObserved ==
  \A r \in RunIds : run[r].state # "none" => run[r].observed \cap Excluded(Env(r)) = {}

\* In the scope of an emergency stop nothing injects, whichever run started,
\* renewed or tripped around it.
StopSilences ==
  \A r \in RunIds : tenantFenced \/ run[r].of \in fenced => ~run[r].injecting

\* A run's authority ends with exactly one handoff to the stop protocol, and
\* while it lasts there is none.
OneHandoff ==
  \A r \in RunIds :
     Cardinality(run[r].handoffs) = (IF run[r].state \in {"fenced", "stopped"} THEN 1 ELSE 0)

\* A run only moves towards its end: recorded spend never falls, however late or
\* often beats are delivered, and an ended run stays as it ended, with no renewal,
\* no second ending and no new claims, and its first cleanup report
\* (governor.go:282-300, 540-600).
RunOnlyAdvances ==
  [][\A r \in RunIds :
       /\ \A s \in Sessions : run'[r].spend[s] >= run[r].spend[s]
       /\ run[r].state \in {"fenced", "stopped"} =>
            /\ [run'[r] EXCEPT !.cleanup = run[r].cleanup] = run[r]
            /\ run[r].cleanup # "none" => run'[r].cleanup = run[r].cleanup]_vars

\* A lease that lapses ends the run's injection, whatever the runner does.
LapseEndsInjection ==
  \A r \in RunIds : Lapsed(run[r]) ~> ~run[r].injecting

\* README: the emergency stop "terminates every active run in scope"; "an
\* envelope's stop rules cannot weaken the emergency control".
EmergencyTerminates ==
  \A r \in RunIds : tenantFenced \/ run[r].of \in fenced => run[r].state # "active"
=============================================================================
