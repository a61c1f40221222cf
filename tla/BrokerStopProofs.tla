--------------------------- MODULE BrokerStopProofs ---------------------------
(***************************************************************************)
(* Proofs about the stop protocol, for every number of effects, runs,      *)
(* operations, delegations and policies: a swept run never holds authority *)
(* again, a late change reopens a recorded report, what landed is          *)
(* accounted for, and verdicts match the records.                          *)
(***************************************************************************)
EXTENDS BrokerProofs

\* Why it stays swept: an effect that is live while its run is stopped can only
\* be one the stop order listed and its sweep has not reached yet.
SweepInv ==
  \A r \in Runs : \A e \in Ordinary(r) :
    eff[e].st \in Live =>
      \/ stop[r].pc = "none"
      \/ stop[r].pc = "ordered" /\ e \in stop[r].snapshot

\* No effect becomes live except in a run that is not stopped.
Enlivens ==
  \A e \in Ids : eff'[e].st \in Live /\ eff'[e].of = None =>
     \/ eff[e].st \in Live /\ eff[e].run = eff'[e].run /\ eff[e].of = None
     \/ stop'[eff'[e].run].pc = "none"

\* A stop before its sweep keeps its place and its list; a later one stays later.
KeepsPlace(r) ==
  IF stop[r].pc \in {"none", "ordered"}
  THEN stop'[r].pc = stop[r].pc /\ stop'[r].snapshot = stop[r].snapshot
  ELSE TRUE

\* The frame of every step that neither orders nor sweeps.
LEMMA SweepFrame ==
  ASSUME SweepInv, Enlivens, \A r \in Runs : KeepsPlace(r)
  PROVE  SweepInv'
<1> SUFFICES ASSUME NEW r \in Runs, NEW e \in Ids, eff'[e].run = r, eff'[e].of = None,
                    eff'[e].st \in Live
             PROVE  \/ stop'[r].pc = "none"
                    \/ stop'[r].pc = "ordered" /\ e \in stop'[r].snapshot
  BY DEF SweepInv, Ordinary, OfRun
<1>1. CASE stop'[r].pc = "none"
  BY <1>1
<1>2. CASE stop'[r].pc # "none"
  <2>1. e \in Ordinary(r) /\ eff[e].st \in Live
    BY <1>2 DEF Enlivens, Ordinary, OfRun
  <2>2. \/ stop[r].pc = "none"
        \/ stop[r].pc = "ordered" /\ e \in stop[r].snapshot
    BY <2>1 DEF SweepInv
  <2>3. QED
    BY <2>2 DEF KeepsPlace
<1>3. QED
  BY <1>1, <1>2

\* A step confined to one effect's dispatch enlivens nothing.
LEMMA TouchesEnlivens ==
  ASSUME IInv, NEW e \in Ids, Touches(e)
  PROVE  Enlivens
BY DEF Enlivens, Touches, Same

\* Marking a report reopened keeps every stop in its place.
LEMMA LateChangeKeeps ==
  ASSUME IInv, NEW e \in Ids, eff[e].run \in Runs, LateChange(e)
  PROVE  \A r \in Runs : KeepsPlace(r)
<1>1. CASE stop' = stop
  BY <1>1 DEF KeepsPlace
<1>2. CASE stop' = [stop EXCEPT ![eff[e].run].reopened = TRUE]
  BY <1>2 DEF KeepsPlace, IInv, TypeOK, Stops
<1>3. QED
  BY <1>1, <1>2 DEF LateChange

\* The dispatch steps end in LateChange and touch one effect.
LEMMA DispatchSwept ==
  ASSUME IInv, SweepInv, NEW e \in Ids, Touches(e), eff[e].st # "NONE", LateChange(e)
  PROVE  SweepInv'
BY TouchesEnlivens, LateChangeKeeps, SweepFrame DEF IInv, WellFormed

LEMMA CommitSwept ==
  ASSUME IInv, SweepInv, NEW e \in Ids, Commit(e)
  PROVE  SweepInv'
<1>1. Touches(e)
  BY StartCommitTouches DEF Commit
<1>2. QED
  BY <1>1, DispatchSwept DEF Commit

\* What every return of a sink call does to the effect it was made for.
LEMMA CallReturnsSwept ==
  ASSUME IInv, SweepInv, NEW e \in Ids, CallReturns(e)
  PROVE  SweepInv'
<1>1. Touches(e) /\ eff[e].st # "NONE"
  BY CallReturnsInv DEF CallReturns, VerifyReturns, PrepareReturns, SendReturns, ReadReturns, IInv,
     WellFormed
<1>2. LateChange(e)
  BY DEF CallReturns, VerifyReturns, PrepareReturns, SendReturns, ReadReturns
<1>3. QED
  BY <1>1, <1>2, DispatchSwept

\* A decision authorizes an ordinary effect only while its run is not stopped.
LEMMA DecidedSwept ==
  ASSUME IInv, SweepInv, NEW e \in Ids, NEW x,
         x.of = None /\ x.st \in Live => stop[x.run].pc = "none",
         eff' = [eff EXCEPT ![e] = x], stop' = stop
  PROVE  SweepInv'
<1>1. Enlivens
  BY DEF Enlivens, IInv, TypeOK
<1>2. \A r \in Runs : KeepsPlace(r)
  BY DEF KeepsPlace
<1>3. QED
  BY <1>1, <1>2, SweepFrame

LEMMA DecideRespectsStop ==
  ASSUME TypeOK, NEW x \in Effects, NEW n \in BOOLEAN,
         x.run \in Runs, x.op \in Ops, x.st = "PROPOSED"
  PROVE  LET y == Decide(x, n) IN y.of = None /\ y.st \in Live => stop[y.run].pc = "none"
BY DecideType DEF Denied, Stopped, Live

LEMMA AuthorizeSwept ==
  ASSUME IInv, SweepInv, NEW e \in Proposals, NEW s \in Shapes, Authorize(e, s)
  PROVE  SweepInv'
<1>0. e \in Ids /\ Proposals \subseteq Ids
  BY RecordsAssumption DEF Proposals, Ids
<1>1. /\ Proposed(s) \in Effects /\ Proposed(s).st = "PROPOSED"
      /\ Proposed(s).run \in Runs /\ Proposed(s).op \in Ops
  BY <1>0, ProposedType DEF Shapes
<1>2. PICK n \in BOOLEAN : eff' = [eff EXCEPT ![e] = Decide(Proposed(s), n)]
  BY DEF Authorize, Narrowing
<1> DEFINE x == Decide(Proposed(s), n)
<1>3. x.of = None /\ x.st \in Live => stop[x.run].pc = "none"
  BY <1>1, DecideRespectsStop DEF IInv
<1> HIDE DEF x
<1>4. eff' = [eff EXCEPT ![e] = x]
  BY <1>2 DEF x
<1>5. QED
  BY <1>0, <1>3, <1>4, DecidedSwept DEF Authorize

LEMMA AttachReviewSwept ==
  ASSUME IInv, SweepInv, NEW e \in Ids, NEW v \in {"ALLOW", "DENY", "WATCH"},
         AttachReview(e, v)
  PROVE  SweepInv'
<1>1. /\ eff[e] \in Effects /\ eff[e].st = "PROPOSED" /\ eff[e].run \in Runs /\ eff[e].op \in Ops
  BY DEF AttachReview, Reviewable, IInv, TypeOK, WellFormed
<1>2. PICK n \in BOOLEAN : eff' = [eff EXCEPT ![e] = Reviewed(eff[e], v, n)]
  BY DEF AttachReview, Narrowing
<1> DEFINE w == [eff[e] EXCEPT !.review = v]
           y == Reviewed(eff[e], v, n)
<1>3. w \in Effects /\ w.st = "PROPOSED" /\ w.run = eff[e].run /\ w.op = eff[e].op
  BY <1>1 DEF Effects
<1>4. y.of = None /\ y.st \in Live => stop[y.run].pc = "none"
  <2>1. CASE v = "ALLOW"
    <3>1. y = Decide(w, n)
      BY <2>1 DEF Reviewed
    <3> HIDE DEF w, y
    <3>2. QED
      BY <1>1, <1>3, <3>1, DecideRespectsStop DEF IInv
  <2>2. CASE v # "ALLOW"
    <3>1. y.st \in {"DENIED", "PROPOSED"}
      BY <1>1, <1>3, <2>2 DEF Reviewed, Effects
    <3>2. QED
      BY <3>1 DEF Live
  <2>3. QED
    BY <2>1, <2>2
<1> HIDE DEF y
<1>5. eff' = [eff EXCEPT ![e] = y]
  BY <1>2 DEF y
<1>6. QED
  BY <1>4, <1>5, DecidedSwept DEF AttachReview

\* The order lists every effect its run has at that moment, held ones excepted.
LEMMA StopOrderSwept ==
  ASSUME IInv, SweepInv, NEW r \in Runs, NEW plans \in SUBSET Proposals, StopOrder(r, plans)
  PROVE  SweepInv'
<1>1. /\ stop'[r].pc = "ordered" /\ stop'[r].snapshot = {e \in OfRun(r) : eff[e].st # "PROPOSED"}
      /\ \A q \in Runs \ {r} : stop'[q] = stop[q]
  BY DEF StopOrder, IInv, TypeOK, Stops
<1>2. QED
  BY <1>1 DEF SweepInv, StopOrder, Ordinary, OfRun, Live

\* The sweep leaves nothing live among the listed effects, and nothing outside
\* the list was.
LEMMA StopSweepSwept ==
  ASSUME IInv, SweepInv, NEW r \in Runs, StopSweep(r)
  PROVE  SweepInv'
<1>1. /\ stop'[r].pc = "swept"
      /\ \A q \in Runs \ {r} : stop'[q] = stop[q]
  BY DEF StopSweep, IInv, TypeOK, Stops
<1>2. \A e \in Ids : /\ eff'[e].run = eff[e].run /\ eff'[e].of = eff[e].of
                     /\ eff'[e].st \in Live => eff[e].st \in Live /\ e \notin stop[r].snapshot
  <2> SUFFICES ASSUME NEW e \in Ids
               PROVE  /\ eff'[e].run = eff[e].run /\ eff'[e].of = eff[e].of
                      /\ eff'[e].st \in Live => eff[e].st \in Live /\ e \notin stop[r].snapshot
    OBVIOUS
  <2>1. CASE e \notin stop[r].snapshot
    BY <2>1 DEF StopSweep
  <2>2. CASE e \in stop[r].snapshot
    <3>1. eff'[e] = Swept(eff[e]) /\ eff[e] \in Effects /\ eff[e].st # "PREPARED"
      BY <2>2 DEF StopSweep, IInv, TypeOK, DispatchInv, Consistent
    <3>2. Swept(eff[e]).st \notin Live
      BY <3>1, TransitionType, EdgeTable DEF Swept, Live, States
    <3>3. QED
      BY <3>1, <3>2, SweptConsistent
  <2>3. QED
    BY <2>1, <2>2
<1>3. SUFFICES ASSUME NEW q \in Runs, NEW e \in Ids, eff'[e].run = q, eff'[e].of = None,
                      eff'[e].st \in Live
               PROVE  \/ stop'[q].pc = "none"
                      \/ stop'[q].pc = "ordered" /\ e \in stop'[q].snapshot
  BY DEF SweepInv, Ordinary, OfRun
<1>4. /\ e \in Ordinary(q) /\ eff[e].st \in Live /\ e \notin stop[r].snapshot
  BY <1>2, <1>3 DEF Ordinary, OfRun
<1>5. q # r
  BY <1>4 DEF SweepInv, StopSweep
<1>6. QED
  BY <1>1, <1>4, <1>5 DEF SweepInv

\* Every later step of the protocol keeps the sweep's result.
LEMMA StopStepSwept ==
  ASSUME IInv, SweepInv, NEW r \in Runs, StopStep(r)
  PROVE  SweepInv'
<1> DEFINE Later == /\ stop[r].pc \notin {"none", "ordered"}
                    /\ \A q \in Runs \ {r} : stop'[q] = stop[q]
<1>1. ASSUME Later PROVE \A q \in Runs : KeepsPlace(q)
  BY <1>1 DEF KeepsPlace
<1>2. ASSUME Later, eff' = eff PROVE SweepInv'
  <2>1. Enlivens
    BY <1>2 DEF Enlivens
  <2>2. QED
    BY <1>1, <1>2, <2>1, SweepFrame
<1>3. ASSUME Later, NEW e \in Ids, Touches(e) PROVE SweepInv'
  BY <1>1, <1>3, TouchesEnlivens, SweepFrame
<1>4. CASE StopSweep(r)
  BY <1>4, StopSweepSwept
<1>5. CASE StopCollect(r) \/ StopOutcome(r) \/ StopInventory(r)
           \/ \E v \in Verdicts, named \in SUBSET Artifacts : StopRecord(r, v, named)
  <2>1. Later /\ eff' = eff
    BY <1>5 DEF StopCollect, StopOutcome, StopInventory, StopRecord, IInv, TypeOK, settings
  <2>2. QED
    BY <1>2, <2>1
<1>6. ASSUME NEW e \in Ids, StopRead(r, e) PROVE SweepInv'
  <2>1. Later
    BY <1>6 DEF StopRead, IInv, TypeOK
  <2>2. CASE eff' = eff
    BY <1>2, <2>1, <2>2
  <2>3. QED
    BY <1>6, <2>2 DEF StopRead, Wait
<1>7. ASSUME NEW e \in Proposals, NEW op \in Ops, StopCompensate(r, e, op) PROVE SweepInv'
  <2> DEFINE x == Decide(Proposed(CompensationShape(r, op, e)), FALSE)
  <2>0. StopId(e) \in Ids /\ e \in Ids /\ e # None
    BY RecordsAssumption DEF Proposals, Ids, StopId
  <2>1. Later
    BY <1>7 DEF StopCompensate, IInv, TypeOK
  <2>2. x.of = e
    <3> DEFINE p == Proposed(CompensationShape(r, op, e))
    <3>1. p \in Effects /\ p.st = "PROPOSED" /\ p.run = r /\ p.op = op /\ p.of = e
      BY <2>0, ProposedType DEF CompensationShape
    <3> HIDE DEF p
    <3>2. QED
      BY <3>1, DecideType DEF IInv, p
  <2>3. eff' = eff \/ eff' = [eff EXCEPT ![StopId(e)] = x]
    BY <1>7 DEF StopCompensate
  <2> HIDE DEF x
  <2>4. Enlivens
    BY <2>0, <2>2, <2>3 DEF Enlivens, IInv, TypeOK
  <2>5. QED
    BY <1>1, <2>1, <2>4, SweepFrame
<1>8. CASE StopCommit(r)
  <2>1. Later
    BY <1>8 DEF StopCommit, IInv, TypeOK
  <2>2. stop[r].cur \in Ids
    BY <1>8 DEF StopCommit, IInv, TypeOK, Stops
  <2>3. CASE StartCommit(stop[r].cur, "stop")
    BY <1>3, <2>1, <2>2, <2>3, StartCommitTouches
  <2>4. CASE eff' = eff
    BY <1>2, <2>1, <2>4
  <2>5. QED
    BY <1>8, <2>3, <2>4 DEF StopCommit
<1>9. ASSUME NEW e \in Ids, CallReturns(e) PROVE SweepInv'
  BY <1>9, CallReturnsSwept
<1>10. QED
  BY <1>4, <1>5, <1>6, <1>7, <1>8, <1>9 DEF StopStep

LEMMA UntouchedSwept ==
  ASSUME SweepInv, eff' = eff, stop' = stop
  PROVE  SweepInv'
BY DEF SweepInv, Ordinary, OfRun

LEMMA NextSwept == IInv /\ SweepInv /\ [Next]_vars => SweepInv'
<1> SUFFICES ASSUME IInv, SweepInv, [Next]_vars PROVE SweepInv'
  OBVIOUS
<1>1. ASSUME NEW e \in Proposals, NEW s \in Offered[e], Authorize(e, s) PROVE SweepInv'
  <2>1. s \in Shapes
    BY <1>1, BrokerAssumption
  <2>2. QED
    BY <1>1, <2>1, AuthorizeSwept
<1>2. ASSUME NEW e \in Ids, NEW v \in {"ALLOW", "DENY", "WATCH"}, AttachReview(e, v)
      PROVE  SweepInv'
  BY <1>2, AttachReviewSwept
<1>3. ASSUME NEW e \in Ids, Commit(e) PROVE SweepInv'
  BY <1>3, CommitSwept
<1>4. ASSUME NEW e \in Ids, CallReturns(e) PROVE SweepInv'
  BY <1>4, CallReturnsSwept
<1>5. ASSUME NEW r \in Runs, NEW plans \in SUBSET Proposals, StopOrder(r, plans) PROVE SweepInv'
  BY <1>5, StopOrderSwept
<1>6. ASSUME NEW r \in Runs, StopStep(r) PROVE SweepInv'
  BY <1>6, StopStepSwept
<1>7. ASSUME ToggleFence \/ (\E p \in Policies : ReplacePolicy(p))
             \/ (\E d \in Delegations : RevokeDelegation(d)) \/ Tick \/ UNCHANGED vars
      PROVE  SweepInv'
  BY <1>7, UntouchedSwept DEF ToggleFence, ReplacePolicy, RevokeDelegation, Tick, vars
<1>8. QED
  BY <1>1, <1>2, <1>3, <1>4, <1>5, <1>6, <1>7 DEF Next

\* Once its stop has swept a run, none of its ordinary effects is authorized or
\* in flight by its record, whatever reviews, commits and late answers follow.
THEOREM SweptStaysSwept == Spec => []SweptRunHoldsNoAuthority
<1>1. Init => SweepInv
  BY DEF Init, SweepInv, Ordinary, OfRun, NotStopped
<1>2. SweepInv => SweptRunHoldsNoAuthority
  BY DEF SweepInv, SweptRunHoldsNoAuthority, Live
<1>3. QED
  BY <1>1, <1>2, NextSwept, Invariance, PTL DEF Spec

-------------------------------------------------------------------------------
(* Late changes                                                              *)

\* A recorded report ends its protocol; the protocol's own compensation and the
\* effects its order listed are of its run, which no effect is of before it exists.
ReportInv ==
  /\ \A r \in Runs :
       /\ stop[r].terminal # "none" => stop[r].pc = "done"
       /\ stop[r].cur # None => eff[stop[r].cur].run = r
       /\ \A e \in stop[r].snapshot : eff[e].st # "NONE" /\ eff[e].run = r
  /\ \A e \in Ids : eff[e].st = "NONE" => eff[e].run = None

\* What a step may add to a stop.
ReportKeeps(r) ==
  /\ stop[r].pc # "none" => stop'[r].pc # "none"
  /\ stop'[r].terminal # "none" => stop'[r].pc = "done"
  /\ stop'[r].cur # None /\ stop'[r].cur # stop[r].cur => eff'[stop'[r].cur].run = r
  /\ \A e \in stop'[r].snapshot \ stop[r].snapshot : eff'[e].st # "NONE" /\ eff'[e].run = r

\* A record keeps its run from the moment it exists.
LEMMA RunStays ==
  ASSUME Progress, NEW e \in Ids, eff[e].st # "NONE"
  PROVE  eff'[e].st # "NONE" /\ eff'[e].run = eff[e].run
BY DEF Progress, Evolves, DecidedFrom, Onward

LEMMA ReportFrame ==
  ASSUME IInv, ReportInv, Progress, \A r \in Runs : ReportKeeps(r)
  PROVE  ReportInv'
<1>0. \A e \in Ids : eff'[e].st = "NONE" => eff'[e].run = None
  BY DEF ReportInv, Progress, Evolves, DecidedFrom, Onward
<1> SUFFICES ASSUME NEW r \in Runs
             PROVE  /\ stop'[r].terminal # "none" => stop'[r].pc = "done"
                    /\ stop'[r].cur # None => eff'[stop'[r].cur].run = r
                    /\ \A e \in stop'[r].snapshot : eff'[e].st # "NONE" /\ eff'[e].run = r
  BY <1>0 DEF ReportInv
<1>1. stop[r] \in Stops /\ ReportKeeps(r)
  BY DEF IInv, TypeOK
<1>2. stop[r].cur # None => eff'[stop[r].cur].run = r
  BY <1>1, RunStays DEF ReportInv, IInv, WellFormed, Stops
<1>3. \A e \in stop[r].snapshot : eff'[e].st # "NONE" /\ eff'[e].run = r
  BY <1>1, RunStays DEF ReportInv, Stops
<1>4. QED
  BY <1>1, <1>2, <1>3 DEF ReportKeeps

\* Marking a report reopened adds nothing else.
LEMMA LateChangeReport ==
  ASSUME IInv, ReportInv, NEW e \in Ids, LateChange(e) \/ stop' = stop
  PROVE  \A r \in Runs : ReportKeeps(r)
<1> SUFFICES ASSUME NEW r \in Runs PROVE ReportKeeps(r)
  OBVIOUS
<1>1. stop'[r].terminal = stop[r].terminal /\ stop'[r].pc = stop[r].pc /\ stop'[r].cur = stop[r].cur
      /\ stop'[r].snapshot = stop[r].snapshot
  BY DEF LateChange, IInv, TypeOK, Stops
<1>2. QED
  BY <1>1 DEF ReportKeeps, ReportInv

\* The protocol's own steps, which all belong to a stop without a report.
LEMMA StopStepReport ==
  ASSUME IInv, ReportInv, NEW r \in Runs, StopStep(r)
  PROVE  \A q \in Runs : ReportKeeps(q)
<1>0. stop[r] \in Stops /\ \A q \in Runs : stop[q] \in Stops
  BY DEF IInv, TypeOK
<1> DEFINE Only == \A q \in Runs \ {r} : stop'[q] = stop[q]
           Adds == /\ stop[r].pc # "done" /\ stop'[r].pc # "none" /\ Only
                   /\ stop'[r].terminal = stop[r].terminal
                   /\ stop'[r].cur \in {None, stop[r].cur}
                   /\ stop'[r].snapshot \subseteq stop[r].snapshot
<1>1. ASSUME Adds PROVE \A q \in Runs : ReportKeeps(q)
  BY <1>1 DEF ReportKeeps, ReportInv
<1>2. CASE StopSweep(r)
  BY <1>0, <1>1, <1>2 DEF StopSweep, Stops, IInv, TypeOK
<1>3. CASE StopCollect(r)
  BY <1>0, <1>1, <1>3 DEF StopCollect, Stops, IInv, TypeOK
<1>4. ASSUME NEW e \in Ids, StopRead(r, e) PROVE \A q \in Runs : ReportKeeps(q)
  BY <1>0, <1>1, <1>4 DEF StopRead, Stops, IInv, TypeOK
<1>5. ASSUME NEW e \in Proposals, NEW op \in Ops, StopCompensate(r, e, op)
      PROVE  \A q \in Runs : ReportKeeps(q)
  <2> DEFINE y == Decide(Proposed(CompensationShape(r, op, e)), FALSE)
             target == eff[e].run = r /\ eff[e].st = "COMMITTED" /\ eff[StopId(e)].st = "NONE"
  <2>1. StopId(e) \in Ids /\ e \in Ids
    BY RecordsAssumption DEF Proposals, Ids, StopId
  <2>2. y.run = r
    <3> DEFINE p == Proposed(CompensationShape(r, op, e))
    <3>1. p \in Effects /\ p.st = "PROPOSED" /\ p.run = r /\ p.op = op
      BY <2>1, ProposedType DEF CompensationShape
    <3> HIDE DEF p
    <3>2. QED
      BY <3>1, DecideType DEF IInv, p
  <2>3. /\ eff' = IF target THEN [eff EXCEPT ![StopId(e)] = y] ELSE eff
        /\ stop' = [stop EXCEPT ![r].plans = @ \ {e},
             ![r].cur = IF target /\ y.st = "AUTHORIZED" THEN StopId(e) ELSE None]
        /\ stop[r].pc = "working"
    BY <1>5 DEF StopCompensate
  <2> HIDE DEF y
  <2>4. /\ Only /\ stop'[r].pc = stop[r].pc /\ stop'[r].terminal = stop[r].terminal
        /\ stop'[r].snapshot = stop[r].snapshot
        /\ stop'[r].cur = None \/ (target /\ stop'[r].cur = StopId(e))
    BY <1>0, <2>3 DEF Stops, IInv, TypeOK
  <2>5. stop'[r].cur # None => eff'[stop'[r].cur].run = r
    BY <2>1, <2>2, <2>3, <2>4 DEF IInv, TypeOK
  <2>6. ReportKeeps(r)
    <3>1. stop'[r].terminal = "none" /\ stop'[r].snapshot = stop[r].snapshot
      BY <2>3, <2>4 DEF ReportInv
    <3>2. QED
      BY <2>3, <2>4, <2>5, <3>1 DEF ReportKeeps
  <2>7. \A q \in Runs \ {r} : ReportKeeps(q)
    BY <2>4 DEF ReportKeeps, ReportInv
  <2>8. QED
    BY <2>6, <2>7
<1>6. CASE StopCommit(r)
  BY <1>0, <1>1, <1>6 DEF StopCommit, Stops, IInv, TypeOK
<1>7. CASE StopOutcome(r)
  BY <1>0, <1>1, <1>7 DEF StopOutcome, Stops, IInv, TypeOK
<1>8. CASE StopInventory(r)
  BY <1>0, <1>1, <1>8 DEF StopInventory, Stops, IInv, TypeOK
<1>9. ASSUME NEW v \in Verdicts, NEW named \in SUBSET Artifacts, StopRecord(r, v, named)
      PROVE  \A q \in Runs : ReportKeeps(q)
  <2>1. /\ Only /\ stop'[r].pc = "done" /\ stop'[r].cur = stop[r].cur
        /\ stop'[r].snapshot = stop[r].snapshot
    BY <1>0, <1>9 DEF StopRecord, Stops, IInv, TypeOK
  <2>2. QED
    BY <2>1 DEF ReportKeeps, ReportInv
<1>10. ASSUME NEW e \in Ids, CallReturns(e) PROVE \A q \in Runs : ReportKeeps(q)
  BY <1>10, LateChangeReport
  DEF CallReturns, VerifyReturns, PrepareReturns, SendReturns, ReadReturns
<1>11. QED
  BY <1>2, <1>3, <1>4, <1>5, <1>6, <1>7, <1>8, <1>9, <1>10 DEF StopStep

LEMMA NextKeepsReports == IInv /\ ReportInv /\ [Next]_vars => \A q \in Runs : ReportKeeps(q)
<1> SUFFICES ASSUME IInv, ReportInv, [Next]_vars PROVE \A q \in Runs : ReportKeeps(q)
  OBVIOUS
<1>0. 1 \in Ids
  BY RecordsAssumption DEF Ids
<1>1. CASE stop' = stop
  BY <1>0, <1>1, LateChangeReport
<1>2. ASSUME NEW e \in Ids, Commit(e) \/ CallReturns(e) PROVE \A q \in Runs : ReportKeeps(q)
  BY <1>2, LateChangeReport
  DEF Commit, CallReturns, VerifyReturns, PrepareReturns, SendReturns, ReadReturns
<1>3. ASSUME NEW r \in Runs, NEW plans \in SUBSET Proposals, StopOrder(r, plans)
      PROVE  \A q \in Runs : ReportKeeps(q)
  <2>1. /\ \A q \in Runs \ {r} : stop'[q] = stop[q]
        /\ stop'[r].pc = "ordered" /\ stop'[r].terminal = stop[r].terminal
        /\ stop'[r].cur = stop[r].cur
        /\ stop'[r].snapshot = {e \in OfRun(r) : eff[e].st # "PROPOSED"}
        /\ stop[r].pc = "none" /\ eff' = eff
    BY <1>3 DEF StopOrder, Stops, IInv, TypeOK
  <2>2. \A e \in OfRun(r) : eff[e].st # "NONE" /\ eff[e].run = r
    BY RecordsAssumption DEF OfRun, ReportInv
  <2>3. QED
    BY <2>1, <2>2 DEF ReportKeeps, ReportInv
<1>4. ASSUME NEW r \in Runs, StopStep(r) PROVE \A q \in Runs : ReportKeeps(q)
  BY <1>4, StopStepReport
<1>5. QED
  BY <1>1, <1>2, <1>3, <1>4 DEF Next, Authorize, AttachReview, ToggleFence, ReplacePolicy,
     RevokeDelegation, Tick, vars

LEMMA NextReport == IInv /\ ReportInv /\ [Next]_vars => ReportInv'
BY NextKeepsReports, NextProgress, ReportFrame

\* A step that changes an open effect of a run with a report marks the report.
LEMMA NextReopens ==
  ASSUME IInv, ReportInv, [Next]_vars, NEW e \in Ids,
         eff[e].st \in {"AUTHORIZED", "COMMITTING", "COMPENSATING", "UNKNOWN"},
         eff'[e].st # eff[e].st, stop[eff[e].run].terminal # "none"
  PROVE  stop'[eff[e].run].reopened
<1>0. eff[e].run \in Runs /\ stop[eff[e].run] \in Stops /\ stop[eff[e].run].pc = "done"
  BY DEF IInv, TypeOK, WellFormed, ReportInv
<1>1. ASSUME NEW i \in Ids, Touches(i), LateChange(i) PROVE stop'[eff[e].run].reopened
  <2>1. i = e
    BY <1>1 DEF Touches
  <2>2. QED
    BY <1>0, <1>1, <2>1 DEF LateChange, IInv, TypeOK, Stops
<1>2. ASSUME NEW i \in Ids, Commit(i) \/ CallReturns(i) PROVE stop'[eff[e].run].reopened
  <2>1. CASE Commit(i)
    BY <1>1, <2>1, StartCommitTouches DEF Commit
  <2>2. CASE CallReturns(i)
    <3>1. Touches(i) /\ LateChange(i)
      BY <2>2, CallReturnsInv DEF CallReturns, VerifyReturns, PrepareReturns, SendReturns,
         ReadReturns, IInv, WellFormed
    <3>2. QED
      BY <1>1, <3>1
  <2>3. QED
    BY <1>2, <2>1, <2>2
<1>3. ASSUME NEW r \in Runs, StopStep(r), ~\E i \in Ids : CallReturns(i) PROVE FALSE
  <2>1. CASE StopSweep(r)
    BY <1>0, <2>1 DEF StopSweep, ReportInv
  <2>2. ASSUME NEW i \in Proposals, NEW op \in Ops, StopCompensate(r, i, op) PROVE FALSE
    BY <2>2 DEF StopCompensate, IInv, TypeOK
  <2>3. CASE StopCommit(r)
    <3>1. stop[r].cur \in Ids /\ eff[stop[r].cur].run = r /\ stop[r].pc = "working"
      BY <2>3 DEF StopCommit, IInv, TypeOK, Stops, ReportInv
    <3>2. StartCommit(stop[r].cur, "stop") \/ eff' = eff
      BY <2>3 DEF StopCommit
    <3>3. stop[r].cur = e
      BY <3>1, <3>2, StartCommitTouches DEF Touches
    <3>4. QED
      BY <1>0, <3>1, <3>3
  <2>4. QED
    BY <1>3, <2>1, <2>2, <2>3 DEF StopStep, StopCollect, StopRead, Wait, StopOutcome, StopInventory,
       StopRecord
<1>4. CASE \E i \in Proposals : \E s \in Offered[i] : Authorize(i, s)
  BY <1>4 DEF Authorize, IInv, TypeOK
<1>5. CASE \E i \in Ids, v \in {"ALLOW", "DENY", "WATCH"} : AttachReview(i, v)
  BY <1>5 DEF AttachReview, Reviewable, IInv, TypeOK
<1>6. eff' # eff
  OBVIOUS
<1>7. QED
  BY <1>2, <1>3, <1>4, <1>5, <1>6 DEF Next, StopOrder, ToggleFence, ReplacePolicy,
     RevokeDelegation, Tick, vars

\* Whenever an effect that still held authority or an open outcome changes after
\* its run's stop report was recorded, the report is marked reopened in the same
\* critical section (stop.go, reopenIfStoppedLocked).
THEOREM ReportsReopen == Spec => LateChangeReopens
<1>1. Init => ReportInv
  BY RecordsAssumption DEF Init, ReportInv, NotStopped, NoEffect
<1>2. IInv /\ ReportInv /\ [Next]_vars =>
        [\A e \in Ids :
           /\ eff[e].st \in {"AUTHORIZED", "COMMITTING", "COMPENSATING", "UNKNOWN"}
           /\ eff'[e].st # eff[e].st
           /\ stop[eff[e].run].terminal # "none"
           => stop'[eff[e].run].reopened]_vars
  BY NextReopens
<1>3. QED
  BY <1>1, <1>2, NextReport, Invariance, PTL DEF Spec, LateChangeReopens

-------------------------------------------------------------------------------
(* What landed                                                               *)

\* A record is cancelled under its outstanding call, or after the landing, only by
\* the stop of its run.
Accounted(e) ==
  /\ landed[e] => \/ eff[e].st \in {"COMMITTED", "UNKNOWN"}
                  \/ eff[e].st = "CANCELLED" /\ Stopped(eff[e].run)
  /\ call[e].pc # "idle" /\ eff[e].st = "CANCELLED" => Stopped(eff[e].run)

AccountInv == \A e \in Ids : Accounted(e)

\* A stopped run stays stopped, and an effect nothing happened to stays accounted for.
LEMMA UntouchedAccounted ==
  ASSUME IInv, \A r \in Runs : ReportKeeps(r), NEW e \in Ids, Accounted(e),
         eff'[e].run = eff[e].run, eff'[e].st = eff[e].st,
         landed'[e] = landed[e],
         call'[e].pc # "idle" => call[e].pc # "idle" \/ eff[e].st # "CANCELLED"
  PROVE  Accounted(e)'
<1>1. eff[e].st = "CANCELLED" /\ Stopped(eff[e].run) => Stopped(eff[e].run)'
  BY DEF ReportKeeps, Stopped, IInv, WellFormed
<1>2. QED
  BY <1>1 DEF Accounted, Stopped

LEMMA StartCommitAccounted ==
  ASSUME IInv, AccountInv, \A r \in Runs : ReportKeeps(r), landed' = landed,
         NEW e \in Ids, NEW who \in {"client", "stop"}, StartCommit(e, who)
  PROVE  Accounted(e)'
<1>0. Consistent(eff[e], call[e], sends[e], landed[e]) /\ Touches(e)
      /\ Consistent(eff'[e], call'[e], sends'[e], landed'[e])
  BY StartCommitTouches DEF IInv, DispatchInv
<1>1. CASE eff[e].st = "UNKNOWN" /\ Wait(e, "read", who)
  <2>1. eff'[e].st = "UNKNOWN"
    BY <1>1 DEF Wait
  <2>2. QED
    BY <2>1 DEF Accounted
<1>2. CASE eff[e].st = "AUTHORIZED"
  <2>1. ~landed'[e]
    BY <1>0, <1>2 DEF Consistent
  <2>2. CASE call' = call
    BY <2>1, <2>2 DEF Accounted, StartCommit, Idle
  <2>3. CASE eff' = eff
    BY <1>2, <2>1, <2>3 DEF Accounted
  <2>4. CASE Send(e, eff[e], who)
    <3>1. eff'[e] = TransitionTo(eff[e], IF eff[e].of = None THEN "COMMITTING" ELSE "COMPENSATING")
      BY <2>4 DEF Send, IInv, TypeOK
    <3>2. eff'[e].st # "CANCELLED"
      BY <1>2, <3>1, TransitionType, EdgeTable DEF IInv, TypeOK, States
    <3>3. QED
      BY <2>1, <3>2 DEF Accounted
  <2>5. QED
    BY <1>2, <2>2, <2>3, <2>4 DEF StartCommit, AfterChecks, AfterVerify, Wait
<1>3. QED
  BY <1>1, <1>2 DEF StartCommit

LEMMA CallReturnsAccounted ==
  ASSUME IInv, AccountInv, \A r \in Runs : ReportKeeps(r), NEW e \in Ids, CallReturns(e)
  PROVE  Accounted(e)'
<1>0. /\ eff[e] \in Effects /\ Consistent(eff[e], call[e], sends[e], landed[e]) /\ Accounted(e)
      /\ eff \in [Ids -> Effects] /\ call \in [Ids -> Calls] /\ landed \in [Ids -> BOOLEAN]
  BY DEF IInv, TypeOK, DispatchInv, AccountInv
<1>1. eff[e].st # "NONE" /\ eff[e].run \in Runs /\ Touches(e) /\ call[e].pc # "idle"
  BY CallReturnsInv DEF CallReturns, VerifyReturns, PrepareReturns, SendReturns, ReadReturns,
     IInv, WellFormed
<1>2. Stopped(eff[e].run) => Stopped(eff[e].run)'
  BY <1>1 DEF ReportKeeps, Stopped, Touches, Same
<1>3. eff[e].st = "CANCELLED" => Stopped(eff[e].run)'
  BY <1>0, <1>1, <1>2 DEF Accounted
<1>4. ASSUME call[e].pc \in {"verify", "prepare"} PROVE eff[e].st \in {"AUTHORIZED", "CANCELLED"} /\ ~landed[e]
  BY <1>0, <1>4 DEF Consistent
<1>5. CASE VerifyReturns(e)
  <2>1. ~landed'[e] /\ eff[e].st \in {"AUTHORIZED", "CANCELLED"}
    BY <1>4, <1>5 DEF VerifyReturns
  <2>2. CASE Send(e, eff[e], call[e].by)
    <3>1. eff'[e] = TransitionTo(eff[e], IF eff[e].of = None THEN "COMMITTING" ELSE "COMPENSATING")
      BY <1>0, <2>2 DEF Send
    <3>2. eff'[e].st = "CANCELLED" => eff[e].st = "CANCELLED"
      BY <1>0, <2>1, <3>1, TransitionType, EdgeTable DEF States
    <3>3. QED
      BY <1>3, <2>1, <3>2 DEF Accounted
  <2>3. CASE eff' = eff
    BY <1>3, <2>1, <2>3 DEF Accounted
  <2>4. CASE Finish(e, TransitionTo(eff[e], "CANCELLED"))
    BY <1>0, <2>1, <2>4, FinishType DEF Accounted, Finish, Idle
  <2>5. QED
    BY <1>5, <2>2, <2>3, <2>4 DEF VerifyReturns, AfterVerify, Wait
<1>6. CASE PrepareReturns(e)
  <2>1. ~landed'[e] /\ eff[e].st \in {"AUTHORIZED", "CANCELLED"}
    BY <1>4, <1>6 DEF PrepareReturns
  <2>2. CASE Send(e, TransitionTo(eff[e], "PREPARED"), call[e].by)
    <3> DEFINE x == TransitionTo(eff[e], "PREPARED")
    <3>1. x \in Effects /\ x.st \in {"PREPARED", "CANCELLED"}
          /\ (x.st = "CANCELLED" => eff[e].st = "CANCELLED")
      BY <1>0, <2>1, TransitionType, EdgeTable DEF States
    <3> HIDE DEF x
    <3>2. eff'[e] = TransitionTo(x, IF x.of = None THEN "COMMITTING" ELSE "COMPENSATING")
      BY <1>0, <2>2 DEF Send, x
    <3>3. eff'[e].st = "CANCELLED" => eff[e].st = "CANCELLED"
      BY <3>1, <3>2, TransitionType, EdgeTable DEF States
    <3>4. QED
      BY <1>3, <2>1, <3>3 DEF Accounted
  <2>3. ASSUME NEW x, Finish(e, x) PROVE Accounted(e)'
    BY <1>0, <2>1, <2>3 DEF Accounted, Finish, Idle
  <2>4. QED
    BY <1>6, <2>2, <2>3 DEF PrepareReturns
<1>7. ASSUME NEW l \in BOOLEAN, SendReturns(e, l) PROVE Accounted(e)'
  <2>1. /\ eff[e].st \in {"COMMITTING", "COMPENSATING", "UNKNOWN", "CANCELLED"}
        /\ landed'[e] = l /\ call'[e].pc = "idle"
    BY <1>0, <1>7 DEF SendReturns, Consistent, Finish, Idle
  <2>2. ASSUME l PROVE eff'[e].st \in {"COMMITTED", "UNKNOWN"} \/ eff[e].st = "CANCELLED"
    <3>1. CASE Finish(e, Receipted(eff[e]))
      <4> DEFINE x == TransitionTo(eff[e], "COMMITTED")
      <4>1. x \in Effects /\ (x.st = "COMMITTED" \/ eff[e].st = "CANCELLED")
        BY <1>0, <2>1, TransitionType, EdgeTable DEF States
      <4>2. eff'[e] = [x EXCEPT !.receipt = TRUE]
        BY <1>0, <3>1 DEF Finish, Receipted
      <4> HIDE DEF x
      <4>3. QED
        BY <4>1, <4>2 DEF Effects
    <3>2. CASE Finish(e, TimedOut(eff[e]))
      <4>1. eff'[e] = TransitionTo(eff[e], "UNKNOWN")
        BY <1>0, <3>2 DEF Finish, TimedOut
      <4>2. QED
        BY <1>0, <2>1, <4>1, TransitionType, EdgeTable DEF States
    <3>3. QED
      BY <1>7, <2>2, <3>1, <3>2 DEF SendReturns
  <2>3. eff[e].st = "CANCELLED" => eff'[e].st = "CANCELLED"
    BY CallReturnsEvolves DEF Evolves, Open
  <2>4. QED
    BY <1>3, <2>1, <2>2, <2>3 DEF Accounted
<1>8. CASE ReadReturns(e)
  <2>1. eff[e].st = "UNKNOWN" /\ landed'[e] = landed[e] /\ call'[e].pc = "idle"
    BY <1>0, <1>8 DEF ReadReturns, Consistent, Finish, Idle
  <2>2. ASSUME landed[e] PROVE eff'[e].st \in {"COMMITTED", "UNKNOWN"}
    <3>1. CASE Finish(e, Receipted(eff[e]))
      <4> DEFINE x == TransitionTo(eff[e], "COMMITTED")
      <4>1. x \in Effects /\ x.st = "COMMITTED"
        BY <1>0, <2>1, TransitionType, EdgeTable DEF States
      <4>2. eff'[e] = [x EXCEPT !.receipt = TRUE]
        BY <1>0, <3>1 DEF Finish, Receipted
      <4> HIDE DEF x
      <4>3. QED
        BY <4>1, <4>2 DEF Effects
    <3>2. CASE Finish(e, eff[e])
      BY <1>0, <2>1, <3>2 DEF Finish
    <3>3. QED
      BY <1>8, <2>2, <3>1, <3>2 DEF ReadReturns
  <2>3. QED
    BY <2>1, <2>2 DEF Accounted
<1>9. QED
  BY <1>5, <1>6, <1>7, <1>8 DEF CallReturns

LEMMA SweepAccounted ==
  ASSUME IInv, ReportInv, AccountInv, \A q \in Runs : ReportKeeps(q), NEW r \in Runs, StopSweep(r)
  PROVE  AccountInv'
<1> SUFFICES ASSUME NEW e \in Ids PROVE Accounted(e)'
  BY DEF AccountInv
<1>1. eff[e] \in Effects /\ Accounted(e) /\ landed' = landed /\ call' = call
      /\ Consistent(eff[e], call[e], sends[e], landed[e])
  BY DEF StopSweep, IInv, TypeOK, AccountInv, DispatchInv
<1>2. CASE eff'[e] = eff[e]
  BY <1>1, <1>2, UntouchedAccounted
<1>3. CASE eff'[e] # eff[e]
  <2>1. e \in stop[r].snapshot /\ eff'[e] = Swept(eff[e])
        /\ eff[e].st \in {"AUTHORIZED", "COMMITTING", "COMPENSATING"}
    BY <1>3 DEF StopSweep, Swept
  <2>2. ~landed[e]
    BY <1>1, <2>1 DEF Consistent
  <2>3. eff'[e].run = r
    BY <2>1, SweptConsistent DEF ReportInv
  <2>4. Stopped(eff[e].run)'
    BY <2>3 DEF Stopped, StopSweep, IInv, TypeOK, Stops
  <2>5. QED
    BY <1>1, <2>2, <2>4 DEF Accounted
<1>4. QED
  BY <1>2, <1>3

\* A decision cancels nothing and is made of effects that were never sent.
LEMMA DecidedAccounted ==
  ASSUME IInv, NEW e \in Ids, DecidedFrom(eff[e], eff'[e]), landed' = landed
  PROVE  Accounted(e)'
BY DEF DecidedFrom, Accounted, IInv, DispatchInv, Consistent

\* Every other effect of a step confined to one.
LEMMA OthersAccounted ==
  ASSUME IInv, AccountInv, \A r \in Runs : ReportKeeps(r), NEW e \in Ids, Touches(e),
         \A i \in Ids \ {e} : landed'[i] = landed[i], Accounted(e)'
  PROVE  AccountInv'
<1> SUFFICES ASSUME NEW i \in Ids \ {e} PROVE Accounted(i)'
  BY DEF AccountInv
<1>1. QED
  BY UntouchedAccounted DEF Touches, AccountInv

LEMMA NextAccount == IInv /\ ReportInv /\ AccountInv /\ [Next]_vars => AccountInv'
<1> SUFFICES ASSUME IInv, ReportInv, AccountInv, [Next]_vars PROVE AccountInv'
  OBVIOUS
<1>1. Progress /\ \A r \in Runs : ReportKeeps(r)
  BY NextProgress, NextKeepsReports
<1>2. ASSUME NEW e \in Ids, CallReturns(e) PROVE AccountInv'
  <2>1. Touches(e)
    BY <1>2, CallReturnsInv DEF CallReturns, VerifyReturns, PrepareReturns, SendReturns,
       ReadReturns, IInv, WellFormed
  <2>2. \A i \in Ids \ {e} : landed'[i] = landed[i]
    BY <1>2 DEF CallReturns, VerifyReturns, PrepareReturns, SendReturns, ReadReturns, IInv, TypeOK
  <2>3. QED
    BY <1>1, <1>2, <2>1, <2>2, CallReturnsAccounted, OthersAccounted
<1>3. ASSUME NEW e \in Ids, NEW who \in {"client", "stop"}, StartCommit(e, who), landed' = landed
      PROVE  AccountInv'
  BY <1>1, <1>3, StartCommitTouches, StartCommitAccounted, OthersAccounted
<1>4. ASSUME call' = call, landed' = landed,
             \A e \in Ids : eff'[e] = eff[e] \/ DecidedFrom(eff[e], eff'[e])
      PROVE  AccountInv'
  <2> SUFFICES ASSUME NEW e \in Ids PROVE Accounted(e)'
    BY DEF AccountInv
  <2>1. CASE eff'[e] = eff[e]
    BY <1>1, <1>4, <2>1, UntouchedAccounted DEF AccountInv
  <2>2. QED
    BY <1>4, <2>1, DecidedAccounted
<1>5. ASSUME call' = call, landed' = landed, NEW e \in Ids, eff[e].st \in {"NONE", "PROPOSED"},
             \A i \in Ids \ {e} : eff'[i] = eff[i]
      PROVE  AccountInv'
  <2>1. Evolves(eff[e], eff'[e]) => Accounted(e)'
    BY <1>5 DEF Evolves, Open, Accounted, IInv, DispatchInv, Consistent
  <2>2. Accounted(e)'
    BY <1>1, <1>5, <2>1, DecidedAccounted DEF Progress
  <2>3. \A i \in Ids \ {e} : Accounted(i)'
    BY <1>1, <1>5, UntouchedAccounted DEF AccountInv, IInv, TypeOK
  <2>4. QED
    BY <2>2, <2>3 DEF AccountInv
<1>6. ASSUME NEW e \in Proposals, NEW s \in Offered[e], Authorize(e, s) PROVE AccountInv'
  <2>1. e \in Ids
    BY RecordsAssumption DEF Proposals, Ids
  <2>2. eff[e].st = "NONE" /\ \A i \in Ids \ {e} : eff'[i] = eff[i]
    BY <1>6, <2>1 DEF Authorize, IInv, TypeOK
  <2>3. QED
    BY <1>5, <1>6, <2>1, <2>2 DEF Authorize
<1>7. ASSUME NEW e \in Ids, NEW v \in {"ALLOW", "DENY", "WATCH"}, AttachReview(e, v)
      PROVE  AccountInv'
  <2>1. eff[e].st = "PROPOSED" /\ \A i \in Ids \ {e} : eff'[i] = eff[i]
    BY <1>7 DEF AttachReview, Reviewable, IInv, TypeOK
  <2>2. QED
    BY <1>5, <1>7, <2>1 DEF AttachReview
<1>8. ASSUME NEW r \in Runs, NEW e \in Ids, StopRead(r, e) PROVE AccountInv'
  <2>1. CASE UNCHANGED <<eff, call, sends>>
    BY <1>4, <1>8, <2>1 DEF StopRead
  <2>2. CASE eff[e].st = "UNKNOWN" /\ Wait(e, "read", "stop")
    <3>1. Touches(e) /\ eff'[e] = eff[e]
      BY <2>2, WaitTouches DEF IInv
    <3>2. Accounted(e)'
      BY <1>1, <1>8, <2>2, <3>1, UntouchedAccounted DEF StopRead, AccountInv
    <3>3. QED
      BY <1>1, <1>8, <3>1, <3>2, OthersAccounted DEF StopRead
  <2>3. QED
    BY <1>8, <2>1, <2>2 DEF StopRead
<1>9. ASSUME NEW r \in Runs, NEW e \in Proposals, NEW op \in Ops, StopCompensate(r, e, op)
      PROVE  AccountInv'
  <2>1. StopId(e) \in Ids
    BY RecordsAssumption DEF Proposals, Ids, StopId
  <2>2. CASE eff' = eff
    BY <1>4, <1>9, <2>2 DEF StopCompensate
  <2>3. CASE eff' # eff
    <3>1. eff[StopId(e)].st = "NONE" /\ \A i \in Ids \ {StopId(e)} : eff'[i] = eff[i]
      BY <1>9, <2>1, <2>3 DEF StopCompensate, IInv, TypeOK
    <3>2. QED
      BY <1>5, <1>9, <2>1, <3>1 DEF StopCompensate
  <2>4. QED
    BY <2>2, <2>3
<1>10. ASSUME NEW r \in Runs, StopCommit(r) PROVE AccountInv'
  <2>1. stop[r].cur \in Ids
    BY <1>10 DEF StopCommit, IInv, TypeOK, Stops
  <2>2. QED
    BY <1>3, <1>4, <1>10, <2>1 DEF StopCommit
<1>11. ASSUME NEW r \in Runs, StopStep(r) PROVE AccountInv'
  <2>1. CASE StopCollect(r) \/ StopOutcome(r) \/ StopInventory(r)
             \/ \E v \in Verdicts, named \in SUBSET Artifacts : StopRecord(r, v, named)
    BY <1>4, <2>1 DEF StopCollect, StopOutcome, StopInventory, StopRecord
  <2>2. QED
    BY <1>1, <1>2, <1>8, <1>9, <1>10, <1>11, <2>1, SweepAccounted DEF StopStep
<1>12. ASSUME NEW e \in Ids, Commit(e) PROVE AccountInv'
  BY <1>3, <1>12 DEF Commit
<1>13. CASE UNCHANGED <<eff, call, landed>>
  BY <1>4, <1>13
<1>14. QED
  BY <1>2, <1>6, <1>7, <1>11, <1>12, <1>13 DEF Next, StopOrder, ToggleFence, ReplacePolicy,
     RevokeDelegation, Tick, vars

\* An effect that happened is on record as committed or unknown, or was cancelled by
\* its run's stop while its sink call was outstanding.
THEOREM LandedAccounted == Spec => []LandedIsAccountedFor
<1>1. Init => ReportInv /\ AccountInv
  BY RecordsAssumption DEF Init, ReportInv, AccountInv, Accounted, NotStopped, NoEffect, Idle
<1>2. AccountInv => LandedIsAccountedFor
  BY DEF AccountInv, Accounted, LandedIsAccountedFor
<1>3. QED
  BY <1>1, <1>2, NextReport, NextAccount, Invariance, PTL DEF Spec

-------------------------------------------------------------------------------
(* What a verdict says                                                       *)

\* The floor an inventory set, and the report it became, against the records.
Fits(r) ==
  /\ stop[r].pc = "verify" =>
       /\ stop[r].floor \in Verdicts
       /\ stop[r].floor = "CLEAN" => Unpaid(r) = {}
       /\ stop[r].floor # "UNKNOWN" =>
            Unresolved(r) = {} /\ {ArtifactOf[eff[e].op] : e \in Unpaid(r)} \subseteq stop[r].dirty
  /\ stop[r].pc = "done" =>
       /\ stop[r].terminal = "CLEAN" => Unpaid(r) = {}
       /\ stop[r].terminal # "UNKNOWN" =>
            Unresolved(r) = {} /\ {ArtifactOf[eff[e].op] : e \in Unpaid(r)} \subseteq quarantine

VerdictInv ==
  /\ \A r \in Runs : Fits(r)
  /\ \A e \in Ids : eff[e].st = "COMPENSATING" => eff[e].of # None

\* A step elsewhere, as the report of r sees it.
ReportStands(r) ==
  stop'[r].pc \in {"verify", "done"} =>
    /\ stop'[r].pc = stop[r].pc /\ stop'[r].floor = stop[r].floor
    /\ stop'[r].dirty = stop[r].dirty /\ stop'[r].terminal = stop[r].terminal
    /\ stop'[r].paid = stop[r].paid

\* With nothing unresolved, no ordinary effect of a stopped run can still commit.
LEMMA SettledStays ==
  ASSUME IInv, VerdictInv, Progress, NEW r \in Runs, Stopped(r), Unresolved(r) = {},
         stop'[r].paid = stop[r].paid
  PROVE  Unresolved(r)' = {} /\ \A e \in Unpaid(r)' : e \in Unpaid(r) /\ eff'[e].op = eff[e].op
<1> DEFINE Over == {"UNKNOWN", "COMMITTING", "AUTHORIZED", "PREPARED", "COMMITTED"}
<1>1. ASSUME NEW e \in Ids, eff'[e].run = r, eff'[e].of = None, eff'[e].st \in Over
      PROVE  e \in Ordinary(r) /\ eff[e].st = eff'[e].st /\ eff'[e].op = eff[e].op
  <2>1. Evolves(eff[e], eff'[e])
    BY <1>1 DEF Progress, DecidedFrom
  <2>2. e \in Ordinary(r) /\ eff'[e].op = eff[e].op
    BY <1>1, <2>1 DEF Evolves, Ordinary, OfRun
  <2>3. eff[e].st \notin {"UNKNOWN", "COMMITTING", "AUTHORIZED", "PREPARED"}
    BY <2>2 DEF Unresolved
  <2>4. eff[e].st # "COMPENSATING"
    BY <2>2 DEF VerdictInv, Ordinary
  <2>5. QED
    BY <2>1, <2>2, <2>3, <2>4 DEF Evolves, Open
<1>2. Unresolved(r)' = {}
  BY <1>1 DEF Unresolved, Ordinary, OfRun
<1>3. ASSUME NEW e \in Unpaid(r)' PROVE e \in Unpaid(r) /\ eff'[e].op = eff[e].op
  BY <1>1, <1>3 DEF Unpaid, Ordinary, OfRun
<1>4. QED
  BY <1>2, <1>3

LEMMA StandsFits ==
  ASSUME IInv, VerdictInv, Progress, NEW r \in Runs, ReportStands(r), quarantine \subseteq quarantine'
  PROVE  Fits(r)'
<1> USE DEF ReportStands
<1>1. Fits(r)
  BY DEF VerdictInv
<1>2. CASE stop'[r].pc = "verify"
  <2>1. /\ stop[r].pc = "verify" /\ stop'[r].floor = stop[r].floor /\ stop'[r].paid = stop[r].paid
        /\ stop'[r].dirty = stop[r].dirty /\ Stopped(r)
    BY <1>2 DEF Stopped
  <2>2. CASE stop[r].floor = "UNKNOWN"
    BY <1>1, <1>2, <2>1, <2>2 DEF Fits
  <2>3. CASE stop[r].floor # "UNKNOWN"
    <3>1. Unresolved(r)' = {} /\ \A e \in Unpaid(r)' : e \in Unpaid(r) /\ eff'[e].op = eff[e].op
      BY <1>1, <2>1, <2>3, SettledStays DEF Fits
    <3>2. QED
      BY <1>1, <1>2, <2>1, <2>3, <3>1 DEF Fits
  <2>4. QED
    BY <2>2, <2>3
<1>3. CASE stop'[r].pc = "done"
  <2>1. /\ stop[r].pc = "done" /\ stop'[r].terminal = stop[r].terminal
        /\ stop'[r].paid = stop[r].paid /\ Stopped(r)
    BY <1>3 DEF Stopped
  <2>2. CASE stop[r].terminal = "UNKNOWN"
    BY <1>3, <2>1, <2>2 DEF Fits
  <2>3. CASE stop[r].terminal # "UNKNOWN"
    <3>1. Unresolved(r)' = {} /\ \A e \in Unpaid(r)' : e \in Unpaid(r) /\ eff'[e].op = eff[e].op
      BY <1>1, <2>1, <2>3, SettledStays DEF Fits
    <3>2. QED
      BY <1>1, <1>3, <2>1, <2>3, <3>1 DEF Fits
  <2>4. QED
    BY <2>2, <2>3
<1>4. QED
  BY <1>2, <1>3 DEF Fits

\* The inventory takes its floor from the records it is measured against.
LEMMA InventoryFits ==
  ASSUME IInv, VerdictInv, NEW r \in Runs, StopInventory(r)
  PROVE  Fits(r)'
<1>1. /\ stop'[r].pc = "verify" /\ stop'[r].floor = Floor(r) /\ stop'[r].paid = stop[r].paid
      /\ stop'[r].dirty = IF Floor(r) = "DIRTY_QUARANTINED"
                          THEN {ArtifactOf[eff[e].op] : e \in Unpaid(r)} ELSE {}
      /\ eff' = eff
  BY DEF StopInventory, IInv, TypeOK, Stops
<1>2. Unresolved(r)' = Unresolved(r) /\ Unpaid(r)' = Unpaid(r)
  BY <1>1 DEF Unresolved, Unpaid, Ordinary, OfRun
<1>3. /\ Floor(r) \in Verdicts /\ (Floor(r) = "CLEAN" => Unpaid(r) = {})
      /\ (Floor(r) # "UNKNOWN" => Unresolved(r) = {})
  BY DEF Floor, Verdicts
<1>4. Floor(r) # "UNKNOWN" =>
        {ArtifactOf[eff'[e].op] : e \in Unpaid(r)'} \subseteq stop'[r].dirty
  <2>1. CASE Floor(r) = "DIRTY_QUARANTINED"
    BY <1>1, <1>2, <2>1
  <2>2. CASE Floor(r) = "CLEAN"
    BY <1>1, <1>2, <1>3, <2>2
  <2>3. QED
    BY <1>3, <2>1, <2>2 DEF Verdicts
<1>5. QED
  BY <1>1, <1>2, <1>3, <1>4 DEF Fits

\* The recorded verdict is never milder than the floor.
LEMMA RecordFits ==
  ASSUME IInv, VerdictInv, NEW r \in Runs, NEW v \in Verdicts, NEW named \in SUBSET Artifacts,
         StopRecord(r, v, named)
  PROVE  Fits(r)'
<1>1. /\ stop'[r].pc = "done" /\ stop'[r].terminal = Worse(v, stop[r].floor)
      /\ stop'[r].paid = stop[r].paid /\ stop[r].pc = "verify" /\ eff' = eff
      /\ stop[r].dirty \subseteq quarantine'
  BY DEF StopRecord, IInv, TypeOK, Stops
<1>2. Unresolved(r)' = Unresolved(r) /\ Unpaid(r)' = Unpaid(r)
  BY <1>1 DEF Unresolved, Unpaid, Ordinary, OfRun
<1>3. Fits(r)
  BY DEF VerdictInv
<1>4. /\ Worse(v, stop[r].floor) = "CLEAN" => stop[r].floor = "CLEAN"
      /\ stop[r].floor = "UNKNOWN" => Worse(v, stop[r].floor) = "UNKNOWN"
  <2>1. stop[r].floor \in {"CLEAN", "DIRTY_QUARANTINED", "UNKNOWN"}
    BY <1>1, <1>3 DEF Fits, Verdicts
  <2>2. Severity("CLEAN") = 0 /\ Severity("DIRTY_QUARANTINED") = 1 /\ Severity("UNKNOWN") = 2
    BY DEF Severity
  <2>3. QED
    BY <2>1, <2>2 DEF Worse, Verdicts
<1>5. QED
  BY <1>1, <1>2, <1>3, <1>4 DEF Fits

LEMMA LateChangeStands ==
  ASSUME IInv, NEW e \in Ids, LateChange(e)
  PROVE  \A r \in Runs : ReportStands(r)
<1> SUFFICES ASSUME NEW r \in Runs PROVE ReportStands(r)
  OBVIOUS
<1>1. /\ stop'[r].pc = stop[r].pc /\ stop'[r].floor = stop[r].floor /\ stop'[r].dirty = stop[r].dirty
      /\ stop'[r].terminal = stop[r].terminal /\ stop'[r].paid = stop[r].paid
  BY DEF LateChange, IInv, TypeOK, Stops
<1>2. QED
  BY <1>1 DEF ReportStands

LEMMA NextVerdict == IInv /\ VerdictInv /\ [Next]_vars => VerdictInv'
<1> SUFFICES ASSUME IInv, VerdictInv, [Next]_vars PROVE VerdictInv'
  OBVIOUS
<1>0. Progress
  BY NextProgress
<1>1. \A e \in Ids : eff'[e].st = "COMPENSATING" => eff'[e].of # None
  BY <1>0 DEF Progress, Evolves, DecidedFrom, VerdictInv
<1>2. ASSUME \A q \in Runs : ReportStands(q), quarantine' = quarantine PROVE \A q \in Runs : Fits(q)'
  BY <1>0, <1>2, StandsFits
<1>3. ASSUME NEW r \in Runs, StopStep(r) PROVE \A q \in Runs : Fits(q)'
  <2>0. stop[r] \in Stops
    BY DEF IInv, TypeOK
  <2>1. ASSUME \A q \in Runs \ {r} : stop'[q] = stop[q], quarantine \subseteq quarantine'
        PROVE  \A q \in Runs \ {r} : Fits(q)'
    BY <1>0, <2>1, StandsFits DEF ReportStands
  <2>2. ASSUME \A q \in Runs \ {r} : stop'[q] = stop[q], quarantine' = quarantine,
               stop'[r].pc \notin {"verify", "done"}
        PROVE  \A q \in Runs : Fits(q)'
    BY <1>2, <2>2 DEF ReportStands
  <2>3. CASE StopSweep(r) \/ StopCollect(r) \/ StopOutcome(r) \/ StopCommit(r)
    <3>1. /\ \A q \in Runs \ {r} : stop'[q] = stop[q]
          /\ stop'[r].pc \notin {"verify", "done"} /\ quarantine' = quarantine
      BY <2>0, <2>3 DEF StopSweep, StopCollect, StopOutcome, StopCommit, Stops, IInv, TypeOK
    <3>2. QED
      BY <2>2, <3>1
  <2>4. ASSUME NEW e \in Ids, StopRead(r, e) PROVE \A q \in Runs : Fits(q)'
    <3>1. /\ \A q \in Runs \ {r} : stop'[q] = stop[q]
          /\ stop'[r].pc \notin {"verify", "done"} /\ quarantine' = quarantine
      BY <2>0, <2>4 DEF StopRead, Stops, IInv, TypeOK
    <3>2. QED
      BY <2>2, <3>1
  <2>5. ASSUME NEW e \in Proposals, NEW op \in Ops, StopCompensate(r, e, op)
        PROVE  \A q \in Runs : Fits(q)'
    <3>1. /\ \A q \in Runs \ {r} : stop'[q] = stop[q]
          /\ stop'[r].pc \notin {"verify", "done"} /\ quarantine' = quarantine
      BY <2>0, <2>5 DEF StopCompensate, Stops, IInv, TypeOK
    <3>2. QED
      BY <2>2, <3>1
  <2>6. CASE StopInventory(r)
    <3>1. \A q \in Runs \ {r} : stop'[q] = stop[q]
      BY <2>6 DEF StopInventory, IInv, TypeOK
    <3>2. QED
      BY <2>1, <2>6, <3>1, InventoryFits DEF StopInventory
  <2>7. ASSUME NEW v \in Verdicts, NEW named \in SUBSET Artifacts, StopRecord(r, v, named)
        PROVE  \A q \in Runs : Fits(q)'
    <3>1. (\A q \in Runs \ {r} : stop'[q] = stop[q]) /\ quarantine \subseteq quarantine'
      BY <2>7 DEF StopRecord, IInv, TypeOK
    <3>2. QED
      BY <2>1, <2>7, <3>1, RecordFits
  <2>8. ASSUME NEW e \in Ids, CallReturns(e) PROVE \A q \in Runs : Fits(q)'
    BY <1>2, <2>8, LateChangeStands
    DEF CallReturns, VerifyReturns, PrepareReturns, SendReturns, ReadReturns
  <2>9. QED
    BY <1>3, <2>3, <2>4, <2>5, <2>6, <2>7, <2>8 DEF StopStep
<1>4. ASSUME NEW e \in Ids, Commit(e) \/ CallReturns(e) PROVE \A q \in Runs : Fits(q)'
  BY <1>2, <1>4, LateChangeStands
  DEF Commit, CallReturns, VerifyReturns, PrepareReturns, SendReturns, ReadReturns
<1>5. ASSUME NEW r \in Runs, NEW plans \in SUBSET Proposals, StopOrder(r, plans)
      PROVE  \A q \in Runs : Fits(q)'
  <2>1. /\ \A q \in Runs \ {r} : stop'[q] = stop[q]
        /\ stop'[r].pc = "ordered" /\ quarantine' = quarantine
    BY <1>5 DEF StopOrder, Stops, IInv, TypeOK
  <2>2. \A q \in Runs : ReportStands(q)
    BY <2>1 DEF ReportStands
  <2>3. QED
    BY <1>2, <2>1, <2>2
<1>6. ASSUME stop' = stop, quarantine' = quarantine PROVE \A q \in Runs : Fits(q)'
  BY <1>2, <1>6 DEF ReportStands
<1>7. QED
  BY <1>1, <1>3, <1>4, <1>5, <1>6 DEF VerdictInv, Next, Authorize, AttachReview, ToggleFence,
     ReplacePolicy, RevokeDelegation, Tick, vars

\* A stop report always agrees with the effect records: CLEAN and DIRTY leave nothing
\* unresolved, CLEAN leaves no unpaid mutation, and unpaid mutations are quarantined
\* unless the outcome could not be verified (stop.go, the records floor).
THEOREM VerdictsHold == Spec => []VerdictMatchesRecords
<1>1. Init => VerdictInv
  BY DEF Init, VerdictInv, Fits, NotStopped, NoEffect
<1>2. VerdictInv => VerdictMatchesRecords
  BY DEF VerdictInv, Fits, VerdictMatchesRecords
<1>3. QED
  BY <1>1, <1>2, NextVerdict, Invariance, PTL DEF Spec
=============================================================================
