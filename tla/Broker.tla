-------------------------------- MODULE Broker --------------------------------
(***************************************************************************)
(* The effect broker (broker/broker.go, broker/stop.go, broker/fence.go):  *)
(* authorization, machine review, two-phase dispatch through a sink,       *)
(* reconciliation of unknown outcomes, the evidence fence, delegation      *)
(* revocation, policy replacement and the stop protocol.                   *)
(*                                                                         *)
(* One action is one critical section of b.mu.  A sink call runs with b.mu *)
(* released, so the lock window around each call is a state: call[e] says  *)
(* which sink call on e is outstanding and who made it, and the effect's   *)
(* dispatch gate is held exactly while a call is outstanding.              *)
(***************************************************************************)
EXTENDS EffectRecords

CONSTANTS
  Offered,       \* [Proposals -> SUBSET Shapes]: what callers may propose
  Gate,          \* [Policies -> [Ops -> {"deny", "review", "allow"}]]
  ArtifactOf,    \* [Ops -> Artifacts]
  A2Ops,         \* operations of the mutating class A2
  VersionedOps,  \* permit pins a resource version and the sink can verify it
  StagedOps,     \* sink implements PreparingSink
  ReadableOps,   \* sink implements ReconcilingSink
  DelRun,        \* [Delegations -> Runs]
  Chain,         \* [Delegations -> SUBSET Delegations]: itself and its ancestors
  GrantEnd,      \* [Runs -> Nat]: when the run's grant expires
  PermitTTL,     \* permit lifetime, in ticks
  MaxTime        \* bound on the modelled clock

ASSUME BrokerAssumption ==
  /\ Offered \in [Proposals -> SUBSET Shapes]
  /\ Gate \in [Policies -> [Ops -> {"deny", "review", "allow"}]]
  /\ ArtifactOf \in [Ops -> Artifacts]
  /\ DelRun \in [Delegations -> Runs]
  /\ Chain \in [Delegations -> SUBSET Delegations]
  /\ GrantEnd \in [Runs -> Nat]
  /\ PermitTTL \in Nat \ {0}
  /\ MaxTime \in Nat

VARIABLES
  now,         \* the broker clock
  policy,      \* the installed policy document
  fence,       \* the evidence fence is engaged
  revoked,     \* revoked delegations
  quarantine,  \* artifacts no experiment may touch
  eff,         \* [Ids -> Effects]
  call,        \* [Ids -> outstanding sink call and its caller]
  stop,        \* [Runs -> the run's stop report and the protocol's progress]
  sends,       \* [Ids -> how often sink.Dispatch was invoked]
  landed       \* [Ids -> the destination performed the effect]

vars == <<now, policy, fence, revoked, quarantine, eff, call, stop, sends, landed>>
settings == <<now, policy, fence, revoked>>

Verdicts == {"CLEAN", "DIRTY_QUARANTINED", "UNKNOWN"}

Idle == [pc |-> "idle", by |-> "none"]

NotStopped == [pc |-> "none", snapshot |-> {}, todo |-> {}, plans |-> {},
               cur |-> None, paid |-> {}, floor |-> "none", dirty |-> {},
               terminal |-> "none", reopened |-> FALSE]

Calls == [pc : {"idle", "verify", "prepare", "send", "read"},
          by : {"none", "client", "stop"}]

Stops == [pc       : {"none", "ordered", "swept", "working", "await", "verify", "done"},
          snapshot : SUBSET Ids,       \* the effects the order found
          todo     : SUBSET Ids,       \* unknown effects still to read
          plans    : SUBSET Proposals, \* targets still to compensate
          cur      : Ids \cup {None},  \* the compensation being committed
          paid     : SUBSET Proposals, \* targets with a COMMITTED compensation
          floor    : Verdicts \cup {"none"},
          dirty    : SUBSET Artifacts,
          terminal : Verdicts \cup {"none"},
          reopened : BOOLEAN]

TypeOK ==
  /\ now \in Nat
  /\ policy \in Policies
  /\ fence \in BOOLEAN
  /\ revoked \subseteq Delegations
  /\ quarantine \subseteq Artifacts
  /\ eff \in [Ids -> Effects]
  /\ call \in [Ids -> Calls]
  /\ stop \in [Runs -> Stops]
  /\ sends \in [Ids -> Nat]
  /\ landed \in [Ids -> BOOLEAN]

Init ==
  /\ now = 0
  /\ policy \in Policies
  /\ fence = FALSE
  /\ revoked = {}
  /\ quarantine = {}
  /\ eff = [e \in Ids |-> NoEffect]
  /\ call = [e \in Ids |-> Idle]
  /\ stop = [r \in Runs |-> NotStopped]
  /\ sends = [e \in Ids |-> 0]
  /\ landed = [e \in Ids |-> FALSE]

-------------------------------------------------------------------------------
(* Deciding a proposal *)

\* The stop record's presence is the fence.
Stopped(r) == stop[r].pc # "none"

ChainActive(d) == Chain[d] \cap revoked = {}

\* A stop's compensations run under its own window, not the experiment grant.
WindowEnd(r) == IF Stopped(r) THEN now + PermitTTL ELSE GrantEnd[r]

\* Mutation: a compensation may name an original that is still in flight.
TargetMissing(x) == x.of # None /\ eff[x.of].st \in {"NONE", "PROPOSED", "DENIED"}

TargetUnfit(x) == x.of # None /\ eff[x.of].st # "COMMITTED"

\* Policy.Evaluate: a hard deny, an operation without a rule or out of scope,
\* and a grant that expires now or earlier.
GateDenies(x) == Gate[policy][x.op] = "deny" \/ WindowEnd(x.run) <= now

Denied(x) ==
  \/ fence
  \/ Stopped(x.run) /\ x.of = None
  \/ GateDenies(x)
  \/ ArtifactOf[x.op] \in quarantine
  \/ TargetUnfit(x)
  \/ x.del # None /\ (DelRun[x.del] # x.run \/ ~ChainActive(x.del))

\* permitExpiry: the lifetime, clamped to the window.
PermitExpiry(r) ==
  IF now + PermitTTL <= WindowEnd(r) THEN now + PermitTTL ELSE WindowEnd(r)

\* narrowed: the delegation's capabilities or budget refuse the proposal
\* (module Delegation decides which; here either answer is possible).
Decide(x, narrowed) ==
  CASE Denied(x) \/ narrowed -> [x EXCEPT !.st = "DENIED"]
    [] ~(Denied(x) \/ narrowed) /\ Gate[policy][x.op] = "review" /\ x.review = "none"
         -> x
    [] OTHER -> [x EXCEPT !.st = "AUTHORIZED",
                          !.permit = [exp |-> PermitExpiry(x.run), pol |-> policy]]

Narrowing(x) == IF x.del = None THEN {FALSE} ELSE BOOLEAN

\* Authorize: a fresh id, the decision and the store in one critical section.
Authorize(e, s) ==
  /\ eff[e].st = "NONE"
  /\ \E n \in Narrowing(s) : eff' = [eff EXCEPT ![e] = Decide(Proposed(s), n)]
  /\ UNCHANGED <<settings, quarantine, call, stop, sends, landed>>

\* Mutation: any attached review re-runs the gate, not only ALLOW.
ReviewedAny(x, v, n) == IF v = "DENY" THEN [x EXCEPT !.st = "DENIED", !.review = v]
                                      ELSE Decide([x EXCEPT !.review = v], n)

Reviewed(x, v, n) ==
  CASE v = "DENY"  -> [x EXCEPT !.st = "DENIED", !.review = v]
    [] v = "ALLOW" -> Decide([x EXCEPT !.review = v], n)
    [] v = "WATCH" -> [x EXCEPT !.review = v]

Reviewable(x) == x.st = "PROPOSED"

\* A stop's own compensations become known to callers with its inventory.
Known(e) == e \in Proposals \/ stop[eff[e].run].pc \in {"verify", "done"}

\* AttachReview; "WATCH" stands for WATCH and ABSTAIN, which both keep the hold.
AttachReview(e, v) ==
  /\ Reviewable(eff[e])
  /\ Known(e)
  /\ \E n \in Narrowing(eff[e]) : eff' = [eff EXCEPT ![e] = Reviewed(eff[e], v, n)]
  /\ UNCHANGED <<settings, quarantine, call, stop, sends, landed>>

-------------------------------------------------------------------------------
(* Dispatch: the steps between two releases of b.mu *)

\* Mutation: a late change of an effect no longer marks the recorded report stale.
LateChangeDropped(e) == UNCHANGED stop

\* reopenIfStoppedLocked, called by every transition that happens.
LateChange(e) ==
  LET r == eff[e].run IN
  stop' = IF eff'[e].st # eff[e].st /\ stop[r].terminal # "none"
          THEN [stop EXCEPT ![r].reopened = TRUE] ELSE stop

Wait(e, pc, who) ==
  /\ call' = [call EXCEPT ![e] = [pc |-> pc, by |-> who]]
  /\ UNCHANGED <<eff, sends>>

\* x is the record with whatever staging did to it; from here the sink has it.
Send(e, x, who) ==
  /\ eff' = [eff EXCEPT ![e] =
       TransitionTo(x, IF x.of = None THEN "COMMITTING" ELSE "COMPENSATING")]
  /\ call' = [call EXCEPT ![e] = [pc |-> "send", by |-> who]]
  /\ sends' = [sends EXCEPT ![e] = @ + 1]

AfterVerify(e, who) ==
  IF eff[e].op \in StagedOps /\ eff[e].st = "AUTHORIZED"
  THEN Wait(e, "prepare", who)
  ELSE Send(e, eff[e], who)

AfterChecks(e, who) ==
  IF eff[e].op \in VersionedOps THEN Wait(e, "verify", who) ELSE AfterVerify(e, who)

\* Mutation: the chain of delegations is not read again at commit.
FateUnrechecked(x) ==
  IF x.permit.exp <= now \/ x.permit.pol # policy THEN "EXPIRED"
  ELSE IF Stopped(x.run) /\ x.of = None THEN "CANCELLED" ELSE "DISPATCH"

\* What the checks before the first sink call make of the permit.
Fate(x) ==
  CASE x.permit.exp <= now \/ x.permit.pol # policy -> "EXPIRED"
    [] ~(x.permit.exp <= now \/ x.permit.pol # policy)
       /\ \/ Stopped(x.run) /\ x.of = None
          \/ x.del # None /\ ~ChainActive(x.del) -> "CANCELLED"
    [] OTHER -> "DISPATCH"

\* Mutation: an unknown outcome is retried by sending again instead of reading.
StartCommitRetrying(e, who) ==
  /\ call[e] = Idle
  /\ eff[e].st \in {"AUTHORIZED", "UNKNOWN"}
  /\ ~fence
  /\ AfterChecks(e, who)

\* Commit from taking the gate to the first release of b.mu.
StartCommit(e, who) ==
  /\ call[e] = Idle
  /\ \/ /\ eff[e].st = "AUTHORIZED"
        /\ ~fence
        /\ Fate(eff[e]) = "DISPATCH"
        /\ AfterChecks(e, who)
     \/ /\ eff[e].st = "AUTHORIZED"
        /\ ~fence
        /\ Fate(eff[e]) # "DISPATCH"
        /\ eff' = [eff EXCEPT ![e] = TransitionTo(eff[e], Fate(eff[e]))]
        /\ UNCHANGED <<call, sends>>
     \/ /\ eff[e].st = "UNKNOWN"
        /\ eff[e].op \in ReadableOps
        /\ Wait(e, "read", who)

Commit(e) ==
  /\ eff[e].st \in {"AUTHORIZED", "UNKNOWN"}
  /\ Known(e)
  /\ StartCommit(e, "client")
  /\ LateChange(e)
  /\ UNCHANGED <<settings, quarantine, landed>>

Finish(e, x) ==
  /\ eff' = [eff EXCEPT ![e] = x]
  /\ call' = [call EXCEPT ![e] = Idle]
  /\ UNCHANGED sends

\* VerifyResourceVersion returns; a mismatch or an error cancels.
VerifyReturns(e) ==
  /\ call[e].pc = "verify"
  /\ \/ AfterVerify(e, call[e].by)
     \/ Finish(e, TransitionTo(eff[e], "CANCELLED"))
  /\ LateChange(e)
  /\ UNCHANGED <<settings, quarantine, landed>>

\* Prepare returns: staged, refused, or with an unknown outcome.  PREPARED is
\* passed inside the critical section and is never a resting state.
PrepareReturns(e) ==
  /\ call[e].pc = "prepare"
  /\ \/ Send(e, TransitionTo(eff[e], "PREPARED"), call[e].by)
     \/ Finish(e, TransitionTo(eff[e], "CANCELLED"))
     \/ Finish(e, TransitionTo(eff[e], "UNKNOWN"))
  /\ LateChange(e)
  /\ UNCHANGED <<settings, quarantine, landed>>

\* The record of a send the destination acknowledged or a state read found.
Receipted(x) == [TransitionTo(x, "COMMITTED") EXCEPT !.receipt = TRUE]

\* Mutation: a timeout is taken for a refusal.
TimedOutCancels(x) == TransitionTo(x, "CANCELLED")

TimedOut(x) == TransitionTo(x, "UNKNOWN")

\* Sink.Dispatch returns.  The destination's reports are truthful: it
\* acknowledges only what it performed and refuses only what it did not; after
\* a timeout the send has landed or never will.
SendReturns(e, l) ==
  /\ call[e].pc = "send"
  /\ landed' = [landed EXCEPT ![e] = l]
  /\ \/ l  /\ Finish(e, Receipted(eff[e]))
     \/ ~l /\ Finish(e, TransitionTo(eff[e], "CANCELLED"))
     \/ Finish(e, TimedOut(eff[e]))
  /\ LateChange(e)
  /\ UNCHANGED <<settings, quarantine>>

\* Reconciling.Reconcile returns what the destination's own state shows.
ReadReturns(e) ==
  /\ call[e].pc = "read"
  /\ \/ landed[e]  /\ Finish(e, Receipted(eff[e]))
     \/ ~landed[e] /\ Finish(e, TransitionTo(eff[e], "CANCELLED"))
     \/ Finish(e, eff[e])
  /\ LateChange(e)
  /\ UNCHANGED <<settings, quarantine, landed>>

CallReturns(e) ==
  \/ VerifyReturns(e)
  \/ PrepareReturns(e)
  \/ \E l \in BOOLEAN : SendReturns(e, l)
  \/ ReadReturns(e)

-------------------------------------------------------------------------------
(* The stop protocol, one critical section per action *)

OfRun(r) == {e \in Ids : eff[e].run = r}
Ordinary(r) == {e \in OfRun(r) : eff[e].of = None}

\* No sink call of the protocol itself is outstanding.
StopIdle(r) == \A e \in OfRun(r) : call[e].by # "stop"

\* Steps 1-3: record the stop, revoke the run's delegations, list its effects.
\* The list holds pointers; a review replaces the record of a held effect, so
\* the sweep never sees what becomes of one that is PROPOSED now.
StopOrder(r, plans) ==
  /\ stop[r].pc = "none"
  /\ stop' = [stop EXCEPT ![r].pc = "ordered", ![r].plans = plans,
                          ![r].snapshot = {e \in OfRun(r) : eff[e].st # "PROPOSED"}]
  /\ revoked' = revoked \cup {d \in Delegations : DelRun[d] = r}
  /\ UNCHANGED <<now, policy, fence, quarantine, eff, call, sends, landed>>

\* Mutation: pending permits cancelled, in-flight dispatches left alone.
SweptPendingOnly(x) == IF x.st = "AUTHORIZED" THEN TransitionTo(x, "CANCELLED") ELSE x

Swept(x) ==
  CASE x.st = "AUTHORIZED" -> TransitionTo(x, "CANCELLED")
    [] x.st \in {"COMMITTING", "COMPENSATING"} -> TransitionTo(x, "UNKNOWN")
    [] OTHER -> x

\* Steps 4-5: cancel pending effects, move in-flight ones to UNKNOWN.
StopSweep(r) ==
  /\ stop[r].pc = "ordered"
  /\ eff' = [e \in Ids |-> IF e \in stop[r].snapshot THEN Swept(eff[e]) ELSE eff[e]]
  /\ stop' = [stop EXCEPT ![r].pc = "swept", ![r].snapshot = {}]
  /\ UNCHANGED <<settings, quarantine, call, sends, landed>>

\* Step 6: list the run's unknown effects ...
StopCollect(r) ==
  /\ stop[r].pc = "swept"
  /\ stop' = [stop EXCEPT ![r].pc = "working",
                          ![r].todo = {e \in OfRun(r) : eff[e].st = "UNKNOWN"}]
  /\ UNCHANGED <<settings, quarantine, eff, call, sends, landed>>

\* Mutation: gate.Lock() in place of gate.TryLock(): wait for the holder.
GateBusyWaits(e) == FALSE

GateBusy(e) == call[e] # Idle

\* ... and read each once.  A busy gate counts as unresolved, never waits.
StopRead(r, e) ==
  /\ stop[r].pc = "working"
  /\ StopIdle(r)
  /\ e \in stop[r].todo
  /\ stop' = [stop EXCEPT ![r].todo = @ \ {e}]
  /\ \/ /\ call[e] = Idle
        /\ eff[e].st = "UNKNOWN"
        /\ eff[e].op \in ReadableOps
        /\ Wait(e, "read", "stop")
     \/ /\ GateBusy(e) \/ (call[e] = Idle /\ (eff[e].st # "UNKNOWN" \/ eff[e].op \notin ReadableOps))
        /\ UNCHANGED <<eff, call, sends>>
  /\ UNCHANGED <<settings, quarantine, landed>>

CompensationShape(r, op, e) == [run |-> r, op |-> op, of |-> e, del |-> None]

\* Step 7: propose the compensation of one planned target, then ...
StopCompensate(r, e, op) ==
  /\ stop[r].pc = "working"
  /\ StopIdle(r)
  /\ stop[r].todo = {}
  /\ stop[r].cur = None
  /\ e \in stop[r].plans
  /\ LET target == eff[e].run = r /\ eff[e].st = "COMMITTED" /\ eff[StopId(e)].st = "NONE"
         y == Decide(Proposed(CompensationShape(r, op, e)), FALSE)
     IN /\ eff' = IF target THEN [eff EXCEPT ![StopId(e)] = y] ELSE eff
        /\ stop' = [stop EXCEPT ![r].plans = @ \ {e},
             ![r].cur = IF target /\ y.st = "AUTHORIZED" THEN StopId(e) ELSE None]
  /\ UNCHANGED <<settings, quarantine, call, sends, landed>>

\* ... commit it; the fence refuses this commit like any other.
StopCommit(r) ==
  /\ stop[r].pc = "working"
  /\ stop[r].cur # None
  /\ \/ StartCommit(stop[r].cur, "stop")
     \/ fence /\ UNCHANGED <<eff, call, sends>>
  /\ stop' = [stop EXCEPT ![r].pc = "await"]
  /\ UNCHANGED <<settings, quarantine, landed>>

\* The commit returned: only a COMMITTED compensation pays for its target.
StopOutcome(r) ==
  /\ stop[r].pc = "await"
  /\ StopIdle(r)
  /\ LET c == eff[stop[r].cur] IN
     stop' = [stop EXCEPT ![r].pc = "working", ![r].cur = None,
                ![r].paid = IF c.st = "COMMITTED" THEN @ \cup {c.of} ELSE @]
  /\ UNCHANGED <<settings, quarantine, eff, call, sends, landed>>

\* inventoryLocked files compensating effects in a bucket of their own, which
\* the verifier does not read.
Unresolved(r) == {e \in Ordinary(r) :
                    eff[e].st \in {"UNKNOWN", "COMMITTING", "AUTHORIZED", "PREPARED"}}

Unpaid(r) == {e \in Ordinary(r) : eff[e].st = "COMMITTED" /\ eff[e].op \in A2Ops
                                  /\ e \notin stop[r].paid}

\* RecordsVerifier.Verify over the inventory taken in this critical section.
Floor(r) == CASE Unresolved(r) # {} -> "UNKNOWN"
              [] Unresolved(r) = {} /\ Unpaid(r) # {} -> "DIRTY_QUARANTINED"
              [] OTHER -> "CLEAN"

\* Step 9: take the inventory.
StopInventory(r) ==
  /\ stop[r].pc = "working"
  /\ StopIdle(r)
  /\ stop[r].todo = {} /\ stop[r].plans = {} /\ stop[r].cur = None
  /\ stop' = [stop EXCEPT ![r].pc = "verify", ![r].floor = Floor(r),
                ![r].dirty = IF Floor(r) = "DIRTY_QUARANTINED"
                             THEN {ArtifactOf[eff[e].op] : e \in Unpaid(r)} ELSE {}]
  /\ UNCHANGED <<settings, quarantine, eff, call, sends, landed>>

Severity(v) == CASE v = "CLEAN" -> 0 [] v = "DIRTY_QUARANTINED" -> 1 [] v = "UNKNOWN" -> 2

\* Mutation: the injected verifier's word stands alone.
VerifierWins(v, floor) == v

Worse(v, floor) == IF Severity(v) > Severity(floor) THEN v ELSE floor

\* Step 10: merge the (possibly injected) verifier's verdict with the records
\* floor, quarantine what either calls dirty, record the terminal state.
StopRecord(r, v, named) ==
  /\ stop[r].pc = "verify"
  /\ quarantine' = quarantine \cup stop[r].dirty \cup named
  /\ stop' = [stop EXCEPT ![r].pc = "done", ![r].terminal = Worse(v, stop[r].floor),
                          ![r].floor = "none", ![r].dirty = {}]
  /\ UNCHANGED <<settings, eff, call, sends, landed>>

\* Every step of the protocol of run r, the returns of its own sink calls included.
StopStep(r) ==
  \/ StopSweep(r)
  \/ StopCollect(r)
  \/ \E e \in Ids : StopRead(r, e)
  \/ \E e \in Proposals, op \in Ops : StopCompensate(r, e, op)
  \/ StopCommit(r)
  \/ StopOutcome(r)
  \/ StopInventory(r)
  \/ \E v \in Verdicts, named \in SUBSET Artifacts : StopRecord(r, v, named)
  \/ \E e \in Ids : eff[e].run = r /\ call[e].by = "stop" /\ CallReturns(e)

-------------------------------------------------------------------------------
(* Operators, the evidence plane and time *)

ToggleFence ==
  /\ fence' = ~fence
  /\ UNCHANGED <<now, policy, revoked, quarantine, eff, call, stop, sends, landed>>

ReplacePolicy(p) ==
  /\ p # policy
  /\ policy' = p
  /\ UNCHANGED <<now, fence, revoked, quarantine, eff, call, stop, sends, landed>>

RevokeDelegation(d) ==
  /\ d \notin revoked
  /\ revoked' = revoked \cup {d}
  /\ UNCHANGED <<now, policy, fence, quarantine, eff, call, stop, sends, landed>>

Tick ==
  /\ now < MaxTime
  /\ now' = now + 1
  /\ UNCHANGED <<policy, fence, revoked, quarantine, eff, call, stop, sends, landed>>

Next ==
  \/ \E e \in Proposals : \E s \in Offered[e] : Authorize(e, s)
  \/ \E e \in Ids, v \in {"ALLOW", "DENY", "WATCH"} : AttachReview(e, v)
  \/ \E e \in Ids : Commit(e)
  \/ \E e \in Ids : call[e].by = "client" /\ CallReturns(e)
  \/ \E r \in Runs, plans \in SUBSET Proposals : StopOrder(r, plans)
  \/ \E r \in Runs : StopStep(r)
  \/ ToggleFence
  \/ \E p \in Policies : ReplacePolicy(p)
  \/ \E d \in Delegations : RevokeDelegation(d)
  \/ Tick

Spec == Init /\ [][Next]_vars

\* The goroutine running the protocol is scheduled and its own sink calls
\* return.  Nothing is assumed of other callers' sink calls: they may hang.
FairSpec == Spec /\ \A r \in Runs : WF_vars(StopStep(r))

-------------------------------------------------------------------------------
(* What makes the properties below inductive *)

\* A record names its run and operation from the moment it exists; the stop
\* protocol waits only for a compensation it proposed itself.
WellFormed ==
  /\ \A e \in Ids : eff[e].st # "NONE" => eff[e].run \in Runs /\ eff[e].op \in Ops
  /\ \A e \in Ids : call[e].pc # "idle" => eff[e].st # "NONE"
  /\ \A r \in Runs : stop[r].pc = "await" => stop[r].cur # None
  /\ \A r \in Runs : stop[r].cur # None =>
        eff[stop[r].cur].st # "NONE" /\ eff[stop[r].cur].of \in Proposals

\* How far a record x, its outstanding call c, the sends n and the landing l can
\* be apart: nothing is sent before the send call, the record of a send in
\* flight is one the outcome can still settle (or a stop has settled), and only
\* a landed send is on record as committed.
Consistent(x, c, n, l) ==
  /\ n <= 1
  /\ l => n = 1
  /\ x.st \in {"NONE", "PROPOSED", "DENIED", "AUTHORIZED", "EXPIRED"} => n = 0
  /\ c.pc \in {"verify", "prepare"} => n = 0 /\ x.st \in {"AUTHORIZED", "CANCELLED"}
  /\ c.pc = "send" => /\ n = 1 /\ ~l
                      /\ x.st \in {"COMMITTING", "COMPENSATING", "UNKNOWN", "CANCELLED"}
  /\ c.pc = "read" => x.st = "UNKNOWN"
  /\ x.st \in {"COMMITTING", "COMPENSATING"} => c.pc = "send"
  /\ x.st = "COMMITTED" => l /\ x.receipt
  /\ x.st # "PREPARED"

DispatchInv == \A e \in Ids : Consistent(eff[e], call[e], sends[e], landed[e])

-------------------------------------------------------------------------------
(* What must hold *)

\* A destination is asked to perform an effect at most once, whatever mix of
\* commits, timeouts, reconciliations and stops reaches the effect.
AtMostOneSend == \A e \in Ids : sends[e] <= 1

\* COMMITTED is said only of a send the destination performed, and the record
\* then carries a reconciled receipt.
CommittedMeansLanded ==
  \A e \in Ids : eff[e].st = "COMMITTED" =>
     landed[e] /\ sends[e] = 1 /\ eff[e].receipt

\* What the broker held, denied or let expire never reached a sink.
RefusedNeverSent ==
  \A e \in Ids : eff[e].st \in {"NONE", "PROPOSED", "DENIED", "EXPIRED"} =>
     sends[e] = 0 /\ ~landed[e]

\* A permit for an operation its policy puts under review was released by an
\* ALLOW; WATCH, ABSTAIN and DENY never release one.
PermitNeedsReview ==
  \A e \in Ids : eff[e].permit # None =>
     (Gate[eff[e].permit.pol][eff[e].op] = "review" => eff[e].review = "ALLOW")

\* A compensation goes out only against an original that really happened.
CompensationFollowsCommit ==
  \A e \in Ids : sends[e] > 0 /\ eff[e].of # None =>
     eff[eff[e].of].st = "COMMITTED" /\ landed[eff[e].of]

\* Once the stop has swept the run, no ordinary effect of it is authorized or
\* in flight by its record, and none becomes so again.
SweptRunHoldsNoAuthority ==
  \A r \in Runs : stop[r].pc \notin {"none", "ordered"} =>
     \A e \in Ordinary(r) : eff[e].st \notin {"AUTHORIZED", "PREPARED", "COMMITTING"}

\* An effect that happened is on record as committed or unknown, or is one a
\* stop cancelled under its outstanding sink call.
LandedIsAccountedFor ==
  \A e \in Ids : landed[e] /\ call[e] = Idle =>
     \/ eff[e].st \in {"COMMITTED", "UNKNOWN"}
     \/ eff[e].st = "CANCELLED" /\ Stopped(eff[e].run)

\* A stop report agrees with the records when it is recorded, whatever returned
\* since the inventory, and ever after: CLEAN and DIRTY leave nothing unresolved,
\* CLEAN leaves no unpaid mutation, and unpaid mutations are quarantined unless
\* the outcome could not be verified at all.
VerdictMatchesRecords ==
  \A r \in Runs : stop[r].pc = "done" =>
     /\ stop[r].terminal = "CLEAN" => Unpaid(r) = {}
     /\ stop[r].terminal # "UNKNOWN" =>
          Unresolved(r) = {} /\ {ArtifactOf[eff[e].op] : e \in Unpaid(r)} \subseteq quarantine

\* A recorded report never survives unmarked a change of an effect that still
\* held authority or an open outcome.
LateChangeReopens ==
  [][\A e \in Ids :
       /\ eff[e].st \in {"AUTHORIZED", "COMMITTING", "COMPENSATING", "UNKNOWN"}
       /\ eff'[e].st # eff[e].st
       /\ stop[eff[e].run].terminal # "none"
       => stop'[eff[e].run].reopened]_vars

\* How far an effect got, read off its record, its outstanding sink call and what
\* the destination was asked for and did.
Phase(e) ==
  CASE eff[e].st = "NONE"      -> "absent"
    [] eff[e].st = "PROPOSED"  -> "held"
    [] sends[e] > 0 /\ call[e].pc = "send" -> "sent"
    [] sends[e] > 0 /\ call[e].pc # "send" -> IF landed[e] THEN "performed" ELSE "failed"
    [] sends[e] = 0 /\ call[e].pc \in {"verify", "prepare"} -> "dispatching"
    [] sends[e] = 0 /\ call[e].pc \notin {"verify", "prepare"}
       /\ eff[e].st \notin {"NONE", "PROPOSED"} ->
         IF eff[e].st = "AUTHORIZED" THEN "granted" ELSE "dropped"

Told(e) ==
  IF eff[e].st = "COMMITTED" THEN "committed" ELSE IF eff[e].st \in Final THEN "over" ELSE "open"

\* Its delegation, or one above it, has been revoked.
Gone(e) == eff[e].st # "NONE" /\ eff[e].del # None /\ ~ChainActive(eff[e].del)

Once == INSTANCE SendOnce WITH
  Effect <- Ids,
  phase <- [e \in Ids |-> Phase(e)],
  told <- [e \in Ids |-> Told(e)],
  withdrawn <- [e \in Ids |-> Gone(e)]

\* The broker implements SendOnce: an effect is granted while its delegation
\* stands, its dispatch begins while it still stands, it is sent once, and its
\* record is closed once, with "committed" only if it happened (broker.go:637-867,
\* delegation.go:290-335).
EffectsSendOnce == Once!SendOnceSpec

\* A stop order ends in a recorded terminal state although any other caller's
\* sink call may hang for ever.
StopCompletes == \A r \in Runs : stop[r].pc = "ordered" ~> stop[r].pc = "done"

\* broker.go: "the exceptional state that says "no effect happened" is CANCELLED".
CancelledNeverLanded == \A e \in Ids : eff[e].st = "CANCELLED" => ~landed[e]

\* fence.go: "While engaged, the fence is absolute: ... permits do not dispatch".
FenceIsAbsolute == [][fence => sends' = sends]_vars
=============================================================================
