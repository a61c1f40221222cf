# A TLA+ verification of agentchaos

agentchaos runs fault-injection experiments on software agents. The agents act on
the outside world only through an *effect broker*, experiments run only under
leases of a *run governor*, and what happened is recorded by an *evidence plane*.
A control plane promotes profiles and tracks assurance, a supervisor
reviews. This directory models the parts that decide what may happen, when it must stop and
what is on record, checks them with TLC on small instances and proves their central invariants with
TLAPS for every instance.

Paths are relative to `src/`; a definition's exact lines are in `PROJECT.json`
under `map`.

## 1. Inventory

| Component | State it keeps | Operations | Hard behaviour | What makes it correct |
|---|---|---|---|---|
| Effect broker (`broker/broker.go`, `contract.go`, `policy.go`, `fence.go`) | effect records by id, installed policy, quarantined artifacts, evidence fence, one dispatch gate per effect | Authorize, AttachReview, Commit (dispatch or reconcile), ReplacePolicy, engage/release fence | `b.mu` is released around every sink call: verify, prepare, dispatch, reconcile; records change meanwhile; timeouts and retries | one send at most, COMMITTED only if performed, nothing refused is sent, final states are final |
| Stop protocol (`broker/stop.go`) | one stop report per run: known effects, unresolved ones, verdict, reopened flag | Stop: fence, cancel, move to UNKNOWN, reconcile, compensate, inventory, verify, record | interleaves with commits in flight; one hung call must not hang the stop; late outcomes arrive after the verdict | no authority after the sweep, the verdict agrees with the records or is marked stale, the protocol ends |
| Delegation tree (`broker/delegation.go`) | delegations, their narrowed capabilities and budgets | Delegate, RevokeDelegation, the chain and budget checks of a decision | revocation against dispatch in flight; shared budgets; saturating sums | narrowing down the chain, shared ceilings, a revoked group stays fenced |
| Idempotency ledger of broker and recorder (`broker/broker.go`, `evidence-plane/recorder.go` Reserve/Complete/Release) | reservations, digests, stored replies, waiters | Reserve, Complete, Release around each HTTP mutation | concurrent retries, failure while others wait | one execution per key, replies replayed |
| Run governor (`governor/governor.go`, `handoff.go`) | envelopes, governed runs with grant, spend and trips, fences, handoffs | RegisterEnvelope, StartRun, Heartbeat, ReportIncident, EmergencyStop, Sweep, ReportCleanupState | leases against a clock; late, repeated and stale beats; once-per-condition trips against an emergency stop | slots and leases bounded, no injection after a stop or over budget, one handoff |
| Evidence recorder (`evidence-plane/recorder.go`) | hash-chained events, claimed sequences per source, checkpoints, collector health | Ingest, Verify, CheckCollectorLiveness, Reserve | partial storage of a batch, sealing failure after the sequence was advanced | the chain is unbroken and verifies, gaps are declared |
| Retention and legal holds (`evidence-plane/retention.go`) | retention classes, holds, tombstones | SetLegalHold, ApplyRetention, ApplyRetentionPolicy | two deletion paths, only one of which reads the holds | held evidence survives |
| Outcome verifier (`evidence-plane/verifier.go`) | none; it reads the recorder's receipts | Verify: gather and combine evidence items | receipts that arrive meanwhile, conflicting items, errors | the strongest evidence that answers decides |
| Supervisor (`supervisor/`) | a panel goroutine per consultation, degradation flags | detector, panel, adjudication, deadline reviewer, session review, sentinel sampling | an answer that races its deadline; members that fail, panic or never return | no ALLOW without the votes, every routed proposal is answered, a review called complete is |
| Promotion (`control-plane/promotion.go`) | the binding of a tenant to a profile, promotion records, audit trail | Promote, Active, Rollback | expiry noticed lazily; chains of replaced profiles | the hard boundary survives every chain, a promotion ends |
| Freshness (`control-plane/freshness.go`, `api/claims.go`) | assurance claims, audit rows, re-evaluation suites | Put, Get, Invalidate | expiry noticed by reads, claims assessed over | a stale claim reads as stale and is owed a suite |
| Key custody (`keycustody/`) | keys with usage and retirement | Create, Sign, Rotate | the lock covers the map only; rotations overlap each other and signers | a retired key has a successor, and does not sign for a call that begins later |
| Public API (`api/`) | experiments, runs, claimed envelopes, idempotency ledger | create, validate, start | check-then-act between lock scopes, records changed without the lock, a refused registration | a failed start does not bar the next one, a key executes once |
| Execution plane (`execution-plane/`, Python) | scenario and runner progress, canary and production gates | run, canary steps, lifecycle | abort paths | cleanup runs on every path |
| Analysis, UI, CLI, schemas, tests, packaging | none of the running system's | reports, rendering, validation | none that needs a model checker | - |

How they interact: the API calls the governor for envelopes and runs; a runner
beats to the governor and proposes effects to the broker, which asks the
supervisor for reviews and journals into the evidence plane; collectors engage
the broker's evidence fence when the recorder cannot persist; a governor trip
emits a handoff whose steps are the broker's stop protocol; its cleanup verdict
goes back as the run's cleanup state.

`PROJECT.json` lists the same components with what is modelled of each, and under
`hazards` the places in the code that a test hardly reaches.

## 2. Plan

Order: the most important behaviour first.

1. **EffectRecords, Broker**: effects and the stop protocol, with their
   interleavings. *BrokerProofs, BrokerStopProofs*.
2. **Governor**: leases, trips, emergency stop. *GovernorProofs*.
3. **Delegation**: mint, narrowing, shared budgets with saturating sums,
   revocation and stop. *DelegationProofs*. `Broker` leaves the answer of a
   delegation's scope and budget open (`Narrowing`) and `Delegation` the rest of the
   gate's.
4. **ReplyLedger**: the idempotency ledgers. *ReplyLedgerProofs*.
5. **SendOnce**: what the broker promises about an effect, whatever its protocol;
   `Broker` implements it. *BrokerSendProofs*.
6. **Recorder** with retention: chain, frontiers, checkpoints, findings, both
   deletion paths, legal holds; **Verifier** over its receipts; **KeyCustody**.
   *EvidenceProofs*.
7. **Promotion**, **Freshness**, **ApiRuns**: the control plane and the API in front
   of it.
8. **Detector**, **SessionReview**, **Supervision**, **Sentinel**: the supervisor.
   *PlanesProofs*, of 7 and 8.
9. **MCPlanes** puts 4 and 6 to 8 side by side for one run.

All of these exist. What is left is listed in section 6: the Python execution plane and
the numeric parts of the control plane. Every invariant and action property that a passing
run checks is proved; the liveness properties stay with TLC (section 5).

Recursion is written as sets computed at creation (an ancestor set per delegation), as
folds, or as positions picked in their order (`Nth` in `Recorder`, `Trusted` in `Verifier`), so
that the modules can be proved about.

## 3. What is modelled

### EffectRecords and Broker

`EffectRecords` holds the effect record and `allowedTransitions` (`Allowed`,
`TransitionTo`): a transition the table lacks is silently skipped, as `transitionTo`
does, and several results below depend on that.

`Broker` takes one action per critical section of `b.mu`. Sink calls run outside
the lock, so `call[e]` records which call is outstanding and for whom; it also is
the dispatch gate, which `Commit` holds from its start to its end.

| State | In the code |
|---|---|
| `eff` | `b.effects`, one record per id; ids of the stop's own compensations are disjoint from the callers' |
| `call` | the dispatch gate and the position inside `dispatchLocked` / `reconcileLocked` |
| `stop` | `b.stops[run]`, with the protocol's local variables |
| `policy`, `fence`, `revoked`, `quarantine`, `now` | `b.policy`, `b.evidenceFence`, delegation states, quarantined artifacts, the clock |
| `sends`, `landed` | not in the code: how often `sink.Dispatch` was invoked and whether the destination performed the effect |

| Action | Function |
|---|---|
| `Authorize`, `AttachReview` | the same, with `decideLocked` |
| `Commit`, `VerifyReturns`, `PrepareReturns`, `SendReturns`, `ReadReturns` | `Commit`, `dispatchLocked`, `reconcileLocked`, cut at each release of the lock |
| `StopOrder` ... `StopRecord` | the ten numbered steps of `Stop`, cut the same way |
| `ToggleFence`, `ReplacePolicy`, `RevokeDelegation`, `Tick` | the same; time |

The destination (outside `src/`) is truthful: an acknowledgement means performed, a
refusal means not performed, a timeout means either, and nothing lands after the
call has returned. The `RecordsVerifier` floor and an injected verifier's verdict
are merged as in `Stop`; the injected one may say anything.

Abstractions: authentication, tenants, document validation and journal entries are
left out; an operation's policy rule is what `Policy.Evaluate` answers for it;
whether a delegation's capabilities or budget refuse a proposal is left open.
The branch of the stop that cancels a `PREPARED` effect through `CancellingSink`
(`stop.go:380-385, 534-581`) is unreachable: `PREPARED` is left in the critical
section that enters it (part of the proved invariant), so it has no action.

### Governor

Every handler of the governor holds `g.mu` throughout: one action per handler.
A heartbeat is four actions, one per way it ends (`LateBeat`, `ExpandingBeat`,
`CostlyBeat`, `RenewingBeat`), with the guards in the code's order; spend claims are
recorded before the ceilings are compared, so a beat that trips still raises the
totals. A beat that names an older generation changes nothing and has no action.

`run[r]` is the `GovernedRun`: `injecting` is the negation of `InjectionStopped`,
`tripped` is `g.tripped`, `handoffs` the causes of the emitted handoffs. The sum of
claims is exact here; the code's subtraction form (`spendTotalLocked`) computes the
same comparison without overflow. Two branches have no action because the
proved lease bound makes them dead: the duration checks of `Heartbeat` and of
`Sweep` on a lease that is still live (a live lease never passes the deadline).
One tenant is modelled: every key is scoped by tenant and no handler reads across.

### Delegation

One critical section of `b.mu` is one action; sink calls do not appear.

| State | In the code |
|---|---|
| `deleg` | `b.delegations`. `above` is not a field: it is the chain that `delegationChainLocked` walks, computed at the mint, since links never change and ids are never reused |
| `eff` | `b.effects`, reduced to the proposal, the permit's amount limit and how far the effect came; `released` is a permit that passed the recheck of `Commit` |
| `stopped` | the runs with an entry in `b.stops` |

| Action | Function |
|---|---|
| `Delegate` | `delegateLocked` with `resolveParentLocked` and all its refusals |
| `RevokeDelegation`, `Stop` | `RevokeDelegation`; the first critical section of `Stop`, which revokes the run's delegations |
| `Authorize`, `AttachReview` | `decideLocked`, with `delegationReason` and `budgetReasonLocked` in full and everything else the gate asks left open |
| `Commit`, `Lapse` | the checks at the start of `dispatchLocked`; a permit that expires, is superseded or is swept |

The three capability lists of a delegation are `caps`, one set per kind; `Covers` says
what an entry matches, which is itself for classes and resources and every name with
that prefix for destinations. A `nil` list at a run's root restricts nothing and is the
set of all entries; an empty list is the empty set, which is how the code's
normalisation treats both below the root. Permits are never uncounted:
`budgetReasonLocked` counts whatever has an `Authorization`, lapsed permits included.
Saturating sums are a fold of `addSaturating` over the counted effects. The ceiling on
tokens is compared at the mint and nowhere else in the code, and no property is about
it. A held effect that a stop cancels stays `held` here: it has no permit, and
no review can release it, because its run is stopped.

### ReplyLedger

One tenant and key, any number of requests. `front` says which code is modelled: the
broker's ledger (the recorder's is the same code) or the API's. `entry` is the map's
value for the key; a reservation has no identity in the code but its ready
channel, so it is named by the request that made it, and `closed` holds those whose
channel is closed. `Claim`, `Conflict` and `Join` are the first critical section of
`Reserve`, `Wake` the second, `GiveUp` the time-out between them; `Finish` is `Complete`
or `Release`, chosen as `broker/server.go` and `api/server.go` choose. `Complete` and
`Release` look the reservation up by key and digest, so an executor may settle or
release one that another request made: this is modelled, and it is what makes the
properties of this module hard.

The API's waiters hold a channel each; all of an entry are closed together, so one
`closed` member stands for them. `api/server.go:369-374` settles every reply a handler
writes, failures included, and every handler writes one: the API's `release`, and with
it `outcomeConcurrent`, is never reached, although the comment at
`api/idempotency.go:46-48` says that a body that fails validation frees its key.

### SendOnce

An abstract specification of one effect's life: held or granted or dropped, dispatching,
sent, then performed or failed; what its record says for good; whether its delegation is
gone. `Broker` maps onto it (`Phase`, `Told`, `Gone`): an effect is *dispatching* while
its version check or staging call is outstanding, *sent* while the send is, and
*performed* or *failed* after it by what the destination did, not by what the record
says. Every step of the broker is a step of each effect or a stutter; a stop's sweep
moves several at once, which is why the abstract next-state relation quantifies over
effects.

### Recorder and Verifier

`Recorder` is one tenant's store; every handler holds `r.mu` to its return and is one
action. `log` and `head` are the chain, with a hash modelled as the sequence hashed;
`seen`, `last`, `beat` the per-source state, `checkpoints` the ranges signed, `findings`
and `silences` what the recorder derives itself, `live` the copy that readers see,
`holds` the legal holds. `Ingest` is the loop over a batch: `End` is the position at which it
returns, `Stored` the positions whose event went in, `Claimed` those that moved a frontier
(one more than `Stored` when sealing failed, because the sequence is claimed first).
`ApplyRetention`, `ApplyRetentionPolicy`, `SetLegalHold`, `ReleaseLegalHold` and
`CheckCollectorLiveness` are the functions of those names. `unsealed` and `halved` are
not in the code: they remember what a sealing failure dropped and that a batch was refused
midway. Events are records the contract's validation admits; the validation of their
fields is left out, and so are readers, which change nothing.

`Verifier` gathers the evidence items of one expectation in the code's order
(`Evidence`) and combines them (`Combined`); receipts arrive while it runs. A report's
expectations are independent, so one is modelled.

### Promotion, Freshness, KeyCustody, ApiRuns

`Promotion`: `Promote` with all its gates, the rehearsed rollback and the bound on expiry;
`Active`, which answers with the replaced profile once the time is up and audits the
lapse; `Rollback`. `a.mu` is held throughout. A profile is its own digest, a signature is
left out, and the audit trail's wall-clock stamps are `day`.

`Freshness`: `Put`, the read that expires a claim first (`ReadClaim`), and `Invalidate`
with the suites it schedules. The scope rule (`ScopeAffected`) and the component a
change implies (`DefaultComponent`) are in full; `told` is the last answer of a read.

`KeyCustody`: the service's lock covers the map only, so `Sign` is a lookup, a check of
the retirement and the signature, and `Rotate` a lookup, a check, the successor's
creation, and the retirement: one action each, freely interleaved.

`ApiRuns`: one experiment id. A handler keeps a pointer to the record that it found
(`rec`), writes its fields without the lock, and calls the governor between two lock
scopes; each access is an action. The claim and its release go through the id, hence to
whatever record is stored by then. The governor is reduced to one immutable envelope and
one grant per run id, and may refuse for reasons of its own.

### Detector, SessionReview, Supervision, Sentinel

`Detector` and `SessionReview` are pure functions of a record of events: the detector's rules
over its window, and the structural checks, segments and outcome of a session review.
`Supervision` grows a record and considers proposals: `Consider` starts the panel's
goroutine, `MemberAnswers` and `MemberPanics` are its steps, `DeadlinePasses` the timer,
`TakeResult` and `TakeDeadline` the two arms of the caller's `select`. The goroutine may
outlive the caller. A member may answer with a verdict, nothing, a word outside the
contract, or an error, or never; the reference member is deterministic
(`ReferenceVerdict`). `Sentinel` draws units or clusters, batch after batch; the keyed hash is
an arbitrary function fixed at the start.

### MCPlanes

The stores of `Recorder`, `Promotion`, `Freshness`, `KeyCustody`, `Supervision`,
`Sentinel`, `ApiRuns`, `Verifier` and `ReplyLedger` share no variable and call each other only
with values that the modules already take as inputs, so a property of one store is decided by
the behaviours in which the others stand still. `MCPlanes` therefore chooses, in the
initial state, the one store that moves (`focus`), and checks all properties in one run.
This loses no behaviour of any single store, and it would be unsound for a property
of two stores; none is checked there.

### MCBrokerScenarios, MCGovernorScenarios

Each of the two checks one component in two scenarios, chosen in the initial state and kept:
what the properties are about needs different operations, experiments and bounds, and the full
product of the two would only make the state space larger. A scenario's steps are the
steps of the component whose outcome stays in it; it adds none.

## 4. What is checked

TLC, all properties of a run over its full state space:

| Run | Question | Properties |
|---|---|---|
| `broker` | does a stop, racing with commits, timeouts, reads, compensations, late reviews and the fence, leave no authority behind, end, and record a verdict the records support? Can reviews, expiry, policy replacement, revocation, a stop and retries, in any order, send twice, send what was refused, begin a dispatch after the revocation, or reopen a closed record? | `CompensationFollowsCommit`, `SweptRunHoldsNoAuthority`, `LandedIsAccountedFor`, `VerdictMatchesRecords`, `AtMostOneSend`, `PermitNeedsReview`, `LateChangeReopens`, `StopCompletes`, `EffectsSendOnce` (the refinement) |
| `delegation_tree` | over chains and sibling trees in a run with a root budget and one without: can any depth widen what the root gave, can a group or a run outspend its ceiling, does anything below a revoked delegation move again? | `OnlyNarrows`, `PermitFitsChain`, `EffectBudgetHolds`, `CostBudgetHolds`, `StoppedRunFenced`, `RevokedGroupSilent` |
| `governor` | do two runs competing for slots, lapsing, starting and stopped, keep every bound on authority, and is a silent runner always cut off? What do claims, target expansions, incidents and stops under different rules make of one run? | `ConcurrencyHolds`, `StopSilences`, `OverspentNeverInjects`, `ExcludedNeverObserved`, `OneHandoff`, `RunOnlyAdvances`, `LapseEndsInjection` |
| `planes` | does each of the stores around broker and governor keep its promises? | see below |
| `broker_cancelled`, `broker_fence`, `governor_emergency`, `ledger_once`, `recorder_coverage`, `panel_contract`, `api_claim`, `promotion_bound` | eight disagreements, see below | one each, violated |

`planes` checks, of

- the recorder: `ChainVerifies` (the chain verifies and holds exactly what is stored,
  through duplicates, reuses and sealing failures), `CheckpointsHonest` (each sequence of a
  signed range was claimed by one event, which is stored unless sealing it failed),
  `FindingsExact` (every
  missing sequence is named by a gap finding unless a batch was refused midway, and a
  silence is reported once);
- promotion: `HardControlsKept`, `LapsedOnce`; freshness: `StaleIsOwed`; key custody:
  `SuccessorFirst`; the API: `ClaimIsSettled` (a claim without an envelope is still being
  registered or rolled back);
- the idempotency ledgers, under racing retries of one body and a reuse of the key with
  another, through failures and releases: `ReplayFitsBody`, `NoLostWakeup`, `ClosedOnce`,
  `FirstReplyKept`, `ApiExecutesOnce`;
- supervision: `AllowIsUnanimous` (every member answered, with an allow or a word outside the
  contract, which the panel takes for one), `ReviewedIsComplete`, `ConsultationEnds`; sampling:
  `DrawIsStable`; the verifier: `StrongestDecides`.

Bounds. `broker`, scenario "stop": one run with two callers' effects and the two
compensations the stop may mint; two effects are enough for every relation the properties
state (an original and its compensation, one effect settled while another is
unknown), and the second may be a caller's own compensation of the first.
Scenario "authority": one effect, because what is asked there speaks of one effect's
history, with every kind of authority over it: two policies that disagree, a
delegation and its parent, review, a version check and a staging call; the clock
passes the permit's and the grant's expiry, and a stop may list a held effect that a review
decides before the sweep. One run: stops, grants and the effects they concern are a run's own.
`governor`, scenario "lease": two experiments with
one slot each and two runs, so that a lapsed run's slot is taken by the other;
five instants, a lease of two and a duration of three, so that leases are
renewed, clamped to the deadline and lapse; renewals are capped at generation 3.
Scenario "budget": one run of two sessions with claims below, at and above a ceiling of two
under an aggregate of three; two selectors, one of which excludes what the other
lists; rules that stop injection, fence, terminate or are missing; four instants. `MaxTime` and
`MaxGen` are bounds of the model, not of the code. Deadlock is not checked for the
governor, where all runs may have ended and the modelled clock has run out.
`delegation_tree`: requests that build a chain of three, or two trees, and others that
widen a list, raise a ceiling, delegate what another actor holds or go deeper; a
fourth delegation exists only to meet the depth bound (`MaxDepth` is three here, eight
in the code). Two effects are enough to exceed a ceiling of one, and with `MaxMoney` 2
two limits of two overflow. The two runs differ in the root budget, which switches
between counting a tree and counting a run. Effects are interchangeable, hence the
symmetry set. Everything may end stopped, so deadlock is not checked.
`planes`: one source with a heartbeat, a reused sequence, a skipped one and inline content
whose sealing may fail, delivered in seven batches, in any order and repeatedly, which
includes a refusal in the middle of a batch and a redelivery after it; four instants,
two after a hold ends or a heartbeat goes quiet. Four profiles, one of them without the hard
boundary and preapproved all the same, a definition that drifted under its key, and
three audit events, enough for a promotion over a promotion that lapses or is rolled back;
`promotion_bound` allows four. Two claims, one assessed twice under other suites and policies, two audit
rows, three hours. Two rotations and a signer over three keys: two overlapping rotations and
one more key. Panels with and without a reference member and with each kind of view, one
consultation (consultations share nothing but the record), and records with and without
the decision, receipt, reply and heartbeat, with events that name no effect, one of them longer than the review budget. Three units, two
of them in one cluster, in three batches. Two handlers and two records of one
experiment id: a creation that races another, and a start that holds a replaced
record. One external-state query, two receipts, every answer of fixture and grader.
Three requests of one body, the fewest with which two waiters of one failed attempt meet a
newly made reservation, and a fourth with another body. The runs of the disagreements take the
values of `planes` where they do not say otherwise.
`MaxTrail`, `MaxRecords`, `MaxKeys`, `MaxCreated`, `MaxReceipts`, `MaxNow`,
`MaxPromotionTime` and `MaxHour` are bounds of the model; the stores stop when they are
reached, so deadlock is not checked.

Fairness. `Broker`: weak fairness of each run's `StopStep` only, which is the
goroutine that runs `Stop` and the returns of the sink calls it makes itself. Other
callers' sink calls may hang for ever, and `StopCompletes` holds all the same
because the protocol uses `TryLock` on a busy gate (`stop.go:606`). `Governor`: weak
fairness of `Sweep`, which `governord` runs on a ticker (`governor/cmd/governord/main.go:30-34`).
No clock tick, heartbeat or client call is assumed to happen. `Supervision`
(`CallerFairness`): the deadline's timer fires, and the caller's `select`, with one arm
ready, is scheduled (`supervisor/reviewer.go`). The panel's goroutine and its members owe
nothing, so `ConsultationEnds` holds with a member that never returns.

Every property of a passing run has a mutant of the code (listed in `PROJECT.json`,
with the mutated form beside the definition it changes) that violates it.

### Where code and documentation disagree

- `CancelledNeverLanded`: `broker.go:848` says CANCELLED means no effect happened. A
  stop's sweep takes the lock but not the dispatch gate: it cancels an effect whose
  staging call is outstanding, the dispatch goes on when that call returns, and
  an acknowledged send leaves the record CANCELLED. What does hold is
  `LandedIsAccountedFor`: this happens only to runs that were stopped.
- `FenceIsAbsolute`: `fence.go` says permits do not dispatch while the fence is engaged.
  The fence is read once at the start of a commit; one that engages during the
  version check or the staging call does not stop the send that follows. A revocation
  has the same window, although the broker's README says that a permit minted before it
  can no longer dispatch; it has no run of its own. `RevokedGroupSilent` holds because it
  speaks of the recheck, not of the send.
- `EmergencyTerminates`: the emergency stop "terminates every active run in scope".
  A condition acts once per run, so a run whose `operator_request` has already
  tripped under a rule that only stops injection stays active, without a handoff.
  What does hold is `StopSilences`: it does not inject.
- `ExecutesOnce`: the broker's README says that concurrent requests sharing a key execute
  the mutation once. Waiters of a released reservation are told to execute without
  reserving the key, so several may. The broker's mutations are guarded once more by
  the effect's record (`AtMostOneSend`), so what is sent is still sent once. What does
  hold of the ledger: `FirstReplyKept` and `ReplayFitsBody`; of the API's,
  `ApiExecutesOnce`.
- `CheckpointsCoverStored`: `recorder.go:482-484` says that a checkpoint never claims coverage
  over a gap. A sequence is claimed before the event's payload is sealed; when sealing fails
  the batch is refused, the claim stays, and the next checkpoint signs a range over a
  sequence that is not stored (the event itself is refused when it is delivered again). What does
  hold is `CheckpointsHonest`: each sequence of the range was claimed by one event, so no
  range reaches over a sequence the recorder never saw; and `ChainVerifies`.
- `OnlyAllowsAllow`: `panel_test.go:244` says "All allow is the only path to allow", and
  `reviewer.go:60-62` that what violates the review contract never reaches a record. A
  member's error or empty verdict becomes an abstention; any other word outside the contract
  has no rank and counts like an allow, also when every member answers so. What does hold is
  `AllowIsUnanimous`: no failure, silence, stricter verdict, panic, deadline or fallback ever adds up
  to an allow.
- `RegisteringIsClaimed`: `experiments.go:64-66` says that a claim marks an envelope as being
  registered and is rolled back when that registration fails. Two creations of one id that
  overlap both succeed, and the second record replaces the first; the refused start of the
  first then rolls back, by id, the claim of the second, in the middle of its registration.
  When that succeeds, the record stays unclaimed, and every later start claims, is refused by
  the governor, which already holds the envelope, and releases again. What does hold is
  `ClaimIsSettled`: no refusal leaves a claim behind.
- `RunsWithinBound`: `promotion.go:17-19` says that every promotion expires, and that the expiry
  lapses the binding back. `Active` resolves the profile that the expired promotion
  replaced by its key alone: when that one was itself promoted, or is the candidate itself, it runs
  on although every promotion of it has expired. What does hold is `HardControlsKept`: it
  still has the hard boundary.

Others were met while modelling and have no run of their own; the modules contain the
behaviour.

- *Recorder.* A batch refused in the middle keeps its earlier events, although
  `recorder.go:264-265`, `279-282` and `evidence-plane/server.go:109` speak of all or
  nothing; the gap findings of the part that was stored are lost, and a redelivery finds
  duplicates and derives none (hence `halved` in `GapsDeclared`). `ApplyRetention` does not read the legal holds
  (`retention.go:42-43`). An older heartbeat that arrives late replaces the newest one.
- *Promotion.* Which floor a tenant without a promotion lands on is the order in which a map is
  walked. The lapse of a promotion that is superseded or rolled back before it is read is
  never audited.
- *Freshness.* An assessment under the id of a stale claim replaces it, and the suite that
  was scheduled for it stays; suites never close.
- *Key custody.* Two rotations of one key that overlap make two successors, and the later
  one overwrites the time of retirement. `Sign` does not compare the key's usage, although
  `service.go:24-26` says that a key signs for one.
- *API.* The record that a second creation replaces takes its runs with it, and when its
  envelope is registered no run starts under the new record either. Validation
  writes the record without the lock; a validation after the registration leaves a plan that is not
  the envelope's. A second start, while the first is registering, is refused because the
  envelope is not there yet.
- *Supervision.* The union of the
  ballots' references is cut at sixteen and may lose the suspicions' (`panel.go:276-279`; the cut is
  not modelled). `detector.go:113-114` reads "deny" and "allow" from the start of the payload,
  whereas the broker's own journal entries are JSON and begin otherwise, so a journal of
  the broker alone never matches. A denied retry is found by comparing the sequences of
  different sources.
- *Verifier.* A comment at `combine` says that an errored check leaves the outcome unknown;
  an errored check beside an authoritative answer leaves that answer to decide. Of
  two state queries that disagree the first decides. A receipt is read as a refusal by
  the text `"ack":"refused"`, which the broker's receipts do not carry.

## 5. What is proved

For every set of runs, effects, operations, policies, delegations, envelopes and
beats, under the named assumptions of the modules (`RecordsAssumption`,
`BrokerAssumption`, `GovernorAssumption`, `LedgerAssumption`, `DelegationAssumption`,
`KeyAssumption`, `PromotionAssumption`, `FreshnessAssumption`, `ApiAssumption`,
`RecorderAssumption`, `VerifierAssumption`, `SupervisionAssumption` and those of the modules
it extends, `SentinelAssumption`: types of the
constants, `None` and `NoPlan` outside the sets they are added to, finitely many runs,
positive lifetimes, and what the constructors refuse otherwise).

**BrokerProofs.** `IInv` is `TypeOK`, `WellFormed` and `DispatchInv`. `AtMostOneSend` is
not inductive by itself: that a second commit cannot send needs to know how
far the record, the outstanding call, the send count and the landing can be apart,
which is `Consistent`: a record in flight has a send outstanding, an effect that is
still waiting for verify or prepare was never sent, a state read is made only of an
UNKNOWN effect, a COMMITTED one landed and has a receipt. `Invariance` proves it
preserved by every action; `TypeCorrect`, `SentOnce`, `CommittedIsTrue` and
`RefusedIsUnsent` follow. `Progress` then says what one step may do to one record: after
its decision a record keeps its identity, review and permit and leaves only open states
(`Evolves`), and a decision makes a permit only when gate, review, original and stop allow
it (`DecidedFrom`). With `DecisionInv` it gives `PermitsReviewed` and
`CompensationsFollow`: that an original which was committed when its compensation was
decided still is when the compensation goes out needs that no step leaves COMMITTED.

**BrokerStopProofs.** `SweptStaysSwept`: after the sweep the run has no ordinary effect
that is authorized or in flight by its record. The strengthening covers the window
between the order and the sweep: whatever then holds authority is in the
order's snapshot, because a stopped run is granted no new permit. Three more theorems stand on
`Progress`. `ReportsReopen` needs `ReportInv`: a report ends its protocol, and what the protocol
sweeps or commits is of its own run, so none of its steps can change an effect of a run that has
a report. `LandedAccounted` needs `AccountInv`: a record is CANCELLED under an outstanding call
only by its run's stop. `VerdictsHold` needs `VerdictInv`, which carries the floor from the
inventory to the report: once nothing of a stopped run is unresolved, nothing of it can commit
any more (`SettledStays`), so sink calls returning between the two change nothing the verdict
speaks of. A report that is reopened by a late change therefore still says nothing false: it
was UNKNOWN, or the change was of a compensation.

**BrokerSendProofs.** `ImplementsSendOnce`: the broker implements `SendOnce`. The proof
stands on `BrokerProofs`' invariant, which decides the phase of each effect: without
`Consistent` a record that is AUTHORIZED might already have been sent. For each action it is
shown that each effect either moves as `SendOnce` allows or keeps its phase, and that no
record is told twice; that a revocation cannot be taken back follows from chains that never
change.

**GovernorProofs.** `Sound(r)` says what one run's record and the registry say of each
other: authority names a registered envelope, the lease fits its bounds, only an
untripped run within budget and outside every stop injects, and the handoff marks
exactly the ended runs. With `TypeOK` and `ConcurrencyHolds` it is inductive.
`TripEffect` states once what a trip does to an active run and serves the four
handlers that trip; `StopKeeps` covers the two that trip several runs at once.
`ConcurrencyHolds` needs the cardinality lemmas: a start adds at most one lease to a
set that was smaller than the budget, everything else only removes leases. The
theorems are `GovernorTypes`, `SlotsHold`, `LeasesBounded`, `StopsSilence`,
`OverspentSilenced` and `HandedOffOnce`. `Moves` says what one step may do to one run (start
it, trip it, renew it inside its eligible targets, or settle its cleanup), which gives
`RunsAdvance` and `ExcludedUnobserved`. What a sum over no claims is (zero) is an
assumption on the constants that TLC evaluates: the fold behind it is recursive, and
the proof needs no other fact of it.

**ReplyLedgerProofs.** `IInv` is `LedgerTypeOK`, `ReplayFitsBody`, `NoLostWakeup`, `ClosedOnce` and
`Ordered`, which adds what they need of each other: a stored reply was made by a
request with the reservation's digest, a reservation and a closed channel belong to a
request that has started, and behind the API only the reservation's request
executes. `MoveKeeps` states once what an action that moves one request and leaves the
key alone preserves, and serves `Conflict`, `Join`, `Wake`, `GiveUp` and a failed
`Mutate`. The theorems are `RepliesFit`, `WaitersWoken`, `NeverClosedTwice`,
`RepliesStay` and `ApiOnce`: every property of the ledgers that `planes` checks; type correctness is a
conjunct of `LedgerInvariance`.

**DelegationProofs.** `IInv` is `TypeOK`, `OnlyNarrows`, `PermitFitsChain`,
`EffectBudgetHolds`, `StoppedRunFenced` and `ChainsClosed`: a delegation's ancestors are
minted, are of its run, and have their own ancestors among its own. Without the last
one a child that narrows from its parent need not narrow from its grandparent, and the
effects of a group need not be among those counted for a member. `MintKeeps` is the
step that extends a chain, `RevokingKeeps` serves revocation and stop, and `EffectKeeps`
every change of one effect: a new permit is one more than what was counted, and what
was counted contains every permit of every group above it. The theorems are
`DelegationTypes`, `Narrowing`, `PermitsFit`, `EffectsBounded`, `StoppedStaysFenced`,
`RevokedSilent` and `CostBounded`.

`CostBounded` is about sums over sets, which TLA+ defines by recursion. Instead of an induction
the proof argues from a smallest counterexample (`SmallestSet`, from the least cardinality):
`SumsExist` shows that a function which adds up every subset one member at a time exists, and
`Sums` names it; that sums are monotone (`SumsMonotone`), agree when the summands do
(`SumsAgree`), grow by what is added (`SumsAdd`), and are what the model's fold computes
(`CostIsTheSum`) follow in the same way. The gate does not
compute that sum but `Spent`, which saturates at `MaxMoney`: `SpentIsCapped` shows that it
is the exact sum or the cap, hence never below a ceiling that the exact sum exceeds, and
`PassedCostFits` that a passed comparison `limit <= ceiling - spent` bounds the exact sum.
`CountedEverywhere` says that what was counted contains every permit of every group above.

**EvidenceProofs.** Key custody: `KeyInv` adds to `SuccessorFirst` that a rotation about to
retire a key has already made a newer one of its usage (`RotationPrepared`), and to
`LateSignRefused` that a call which began after the retirement is stopped at its check
(`LateCallsStop`). `NewKeyKeeps` serves creation and rotation.

The recorder: `RecorderInv` is the chain, the gap findings and what ties the stores together.
An event *claims* its sequence when it is stored or dropped by a sealing failure;
`ClaimsExact` says that no two claiming events share a slot and that `seen` is exactly what they
claim, `FrontiersExact` that a frontier is the greatest sequence seen, `SignedSeen` that signed
ranges lie in what was seen, `SilenceOpen` that a heartbeat whose silence may still be
reported is cited by no finding. None of the checked properties is inductive without them: an
honest checkpoint needs that the sequences it spans come from distinct events, and a silence
finding that the beat which reopens a source is new. A batch is a loop with an early return, so
the lemmas are about its positions: `BatchClaims` (where it ends, and what is claimed
before), `SeenAt`, `SeenFirst` and `FrontierMoves` (what a source's state is at each position),
`BatchGaps` (a sequence that is missing after the batch was missing before or is named by a gap
finding of the batch), and for the chain `EnumerationCovers`, `KeptCovers`, `JoinedPrefix` and
`ChainGrows`. The theorems are `RecorderTyped`, `ChainAlwaysVerifies`, `SlotsAreUnique`,
`CheckpointsAreHonest` and `FindingsAreExact`, for any batches, sources and roles.

The verifier: `VerifierInv` says that the evidence of a report is ranked by strength, so that
the first authoritative answer, which decides, is one of the strongest. `RankedConcat` carries
that through the four lists of evidence that a report joins; the theorem is
`StrongestEvidenceDecides`.

**PlanesProofs.** Five independent inductive invariants. `ApiInv`: besides types, a
claim of the stored record has an envelope or a handler that is registering or rolling back,
and records not yet stored are unclaimed, because a creation makes the next one the
stored one. `FreshInv` is `StaleIsOwed` with `ReadsAreFresh` and types;
`StalingKeeps` states once what marking a set of claims does, and serves reads and
invalidations. `PromotionInv`: keys that were ever bound resolve to profiles with the hard
boundary (`FloorsSound`, `KeyResolves`), and `TrailOrdered`, with the binding's own note, says
which audit events a promotion may still get. The theorems are `ApiTypes`,
`ClaimsSettle`, `StaleClaimsOwed`, `ReadsFresh`, `BoundaryKept` and `LapsesOnce`.

`SupervisionInv`: `ConsultSound` follows an allow from the ballots to the caller: a
running panel asked its members in order and not yet the last one, a panel that sends an allow
has heard all of them without a vote against, and only a sent allow becomes the caller's.
`Ranks` and the lemmas on the strictest vote say what an adjudication to ALLOW takes. `AllowsAreUnanimous` and
`SupervisionTyped` follow. `ReviewsAreComplete` needs no more of the state than that the
record is a sequence of observations: it is about the review as a function, for a record of any
length. That nothing is missing follows from the structural checks being empty
(`NothingMissing`), and that every event lies in one segment from the segments' bounds, by
division. `SentinelInv` (`SelectedAsDrawn`) says that each selection is what the draw, fixed at
the start, says of its unit; `DrawsAreStable` follows.

`ReviewedIsComplete` speaks of the effects that events name, and has to: `session.go:310, 329,
340` skip proposals and decisions that name none, so such a proposal stays undecided in a
session called reviewed. The proof attempt of the unrestricted property failed there; the run's
records contain both kinds of event, and TLC violates the property without either restriction.

TLC has also checked the inductive invariants on the bounds of section 4, except for two parts it
cannot evaluate: that the sequences of a source have some bound (`Bounded`), and `SumsBudgeted`,
which restates `CostBudgetHolds` with `Sums`.

Only model-checked: the liveness properties (`StopCompletes`, `LapseEndsInjection`,
`ConsultationEnds`), because fairness and ENABLED are out of the prover's reach. Every other
property of a passing run is the statement of a theorem. The eight disagreements of
section 4 are counterexamples, which TLC finds.

## 6. Not modelled

- The Python execution plane (scenarios, runner, canary and production gates, adapters): it is
  sequential (no thread, no event loop) and keeps its progress in local variables of one run,
  so that a unit test reaches what a model checker would.
- The numeric parts of the control plane (assurance assessment, sampling designs,
  classification statistics) and the analysis reports: interval estimates and report
  assembly, without shared state.
- The gauntlet compiler: a batch translation, no state survives a call.
- The degradation tracker of the supervisor: one health flag per dependency and a list of
  transitions; it decides nothing itself (`supervisor/degradation.go`), and no other
  modelled component reads it.
- The sealer: a cipher bound to a context, no state. Signatures and hashes stand for what they
  bind.
- The cancellation of a `PREPARED` effect by a stop, unreachable as said in section 3.
- HTTP decoding and routing, authentication, roles and tenants, journal and log
  formatting, schemas, the user interface, the command line and build tooling, which keep no
  state that any of the properties is about.
- Restarts: every store is in memory and starts empty; the code recovers nothing, so there is
  no recovery to model.
