----------------------------- MODULE BrokerProofs -----------------------------
(***************************************************************************)
(* Proofs about Broker for every number of effects, runs, operations,      *)
(* delegations and policies: types, and the dispatch invariant from which  *)
(* "sent at most once", "committed means landed" and "refused means never  *)
(* sent" follow; then what one step may do to a record, from which follow  *)
(* that permits were reviewed and that compensations follow commits.       *)
(***************************************************************************)
EXTENDS Broker, TLAPS

IInv == TypeOK /\ WellFormed /\ DispatchInv

\* The verdict of a transition: the record stays a record and only st moves.
LEMMA TransitionType ==
  ASSUME NEW x \in Effects, NEW s \in States
  PROVE  /\ TransitionTo(x, s) \in Effects
         /\ TransitionTo(x, s).st = IF s \in Allowed[x.st] THEN s ELSE x.st
         /\ TransitionTo(x, s).run = x.run /\ TransitionTo(x, s).op = x.op
         /\ TransitionTo(x, s).of = x.of   /\ TransitionTo(x, s).receipt = x.receipt
         /\ TransitionTo(x, s).del = x.del
BY DEF TransitionTo, Effects

\* A decision leaves identity alone, needs no send, and mints well-typed permits.
LEMMA DecideType ==
  ASSUME TypeOK, NEW x \in Effects, NEW n \in BOOLEAN,
         x.run \in Runs, x.op \in Ops, x.st = "PROPOSED"
  PROVE  /\ Decide(x, n) \in Effects
         /\ Decide(x, n).st = "AUTHORIZED" => ~Denied(x)
         /\ Decide(x, n).st \in {"PROPOSED", "DENIED", "AUTHORIZED"}
         /\ Decide(x, n).run = x.run /\ Decide(x, n).op = x.op /\ Decide(x, n).of = x.of
         /\ Decide(x, n).del = x.del
<1>1. PermitExpiry(x.run) \in Nat
  BY BrokerAssumption DEF PermitExpiry, WindowEnd, TypeOK
<1>2. [exp |-> PermitExpiry(x.run), pol |-> policy] \in Permits
  BY <1>1 DEF Permits, TypeOK
<1>3. QED
  BY <1>2 DEF Decide, Effects, States

\* What the edge table says of the states a dispatch moves between.
LEMMA EdgeTable ==
  /\ Allowed \in [States -> SUBSET States]
  /\ Allowed["AUTHORIZED"] = {"PREPARED", "COMMITTING", "COMPENSATING", "EXPIRED",
                              "CANCELLED", "UNKNOWN"}
  /\ Allowed["PREPARED"] = {"COMMITTING", "COMPENSATING", "CANCELLED", "EXPIRED", "UNKNOWN"}
  /\ Allowed["COMMITTING"] = {"COMMITTED", "CANCELLED", "UNKNOWN"}
  /\ Allowed["COMPENSATING"] = {"COMMITTED", "CANCELLED", "UNKNOWN"}
  /\ Allowed["UNKNOWN"] = {"COMMITTED", "CANCELLED"}
  /\ Allowed["CANCELLED"] = {}
BY DEF Allowed, States

\* What a step that proposes no compensation may do to the stops.
LateTypes ==
  /\ stop' \in [Runs -> Stops]
  /\ \A r \in Runs : /\ stop'[r].cur = stop[r].cur
                     /\ stop'[r].pc = "await" => stop[r].cur # None

\* A step that rewrites the record, call, send count and landing of one effect
\* and proposes no compensation preserves the invariant
\* when the new values are consistent with each other.
LEMMA OneEffect ==
  ASSUME IInv, TypeOK', NEW e \in Ids,
         eff'[e].st # "NONE", eff'[e].run \in Runs, eff'[e].op \in Ops,
         eff[e].st # "NONE" => eff'[e].of = eff[e].of,
         Consistent(eff'[e], call'[e], sends'[e], landed'[e]),
         \A i \in Ids \ {e} : /\ eff'[i] = eff[i] /\ call'[i] = call[i]
                              /\ sends'[i] = sends[i] /\ landed'[i] = landed[i],
         LateTypes
  PROVE  IInv'
<1>1. DispatchInv'
  BY DEF IInv, DispatchInv
<1>2. \A i \in Ids : eff'[i].st # "NONE" => eff'[i].run \in Runs /\ eff'[i].op \in Ops
  BY DEF IInv, WellFormed
<1>3. \A i \in Ids : call'[i].pc # "idle" => eff'[i].st # "NONE"
  BY DEF IInv, WellFormed
<1>4. ASSUME NEW r \in Runs, stop'[r].cur # None
      PROVE  eff'[stop'[r].cur].st # "NONE" /\ eff'[stop'[r].cur].of \in Proposals
  <2>1. stop[r].cur \in Ids /\ stop'[r].cur = stop[r].cur
    BY <1>4 DEF IInv, TypeOK, Stops, LateTypes
  <2>2. eff[stop[r].cur].st # "NONE" /\ eff[stop[r].cur].of \in Proposals
    BY <1>4, <2>1 DEF IInv, WellFormed
  <2>3. QED
    BY <2>1, <2>2
<1>5. QED
  BY <1>1, <1>2, <1>3, <1>4 DEF IInv, WellFormed, LateTypes

-------------------------------------------------------------------------------
(* Types *)

\* Marking a report reopened moves no stop along its protocol.
LEMMA LateChangeType ==
  ASSUME IInv, NEW e \in Ids, eff[e].run \in Runs, LateChange(e)
  PROVE  LateTypes
<1> DEFINE r == eff[e].run
           s == [stop[r] EXCEPT !.reopened = TRUE]
<1>0. stop[r] \in Stops
  BY DEF IInv, TypeOK
<1>1. CASE stop' = stop
  BY <1>1 DEF LateTypes, IInv, TypeOK, WellFormed
<1>2. CASE stop' = [stop EXCEPT ![r].reopened = TRUE]
  <2>1. s \in Stops /\ s.pc = stop[r].pc /\ s.cur = stop[r].cur
    BY <1>0 DEF Stops
  <2>2. stop' = [stop EXCEPT ![r] = s]
    BY <1>2
  <2> HIDE DEF s
  <2>3. QED
    BY <2>1, <2>2 DEF LateTypes, IInv, TypeOK, WellFormed
<1>3. QED
  BY <1>1, <1>2 DEF LateChange

\* The three ways a critical section of a dispatch ends.
LEMMA WaitType ==
  ASSUME TypeOK, NEW e \in Ids, NEW pc \in {"verify", "prepare", "read"},
         NEW who \in {"none", "client", "stop"}, Wait(e, pc, who)
  PROVE  /\ eff' = eff /\ sends' = sends
         /\ call' \in [Ids -> Calls] /\ call'[e] = [pc |-> pc, by |-> who]
         /\ \A i \in Ids \ {e} : call'[i] = call[i]
BY DEF Wait, TypeOK, Calls

LEMMA SendType ==
  ASSUME TypeOK, NEW e \in Ids, NEW x \in Effects, NEW who \in {"none", "client", "stop"},
         Send(e, x, who)
  PROVE  /\ eff' \in [Ids -> Effects] /\ call' \in [Ids -> Calls] /\ sends' \in [Ids -> Nat]
         /\ eff'[e] = TransitionTo(x, IF x.of = None THEN "COMMITTING" ELSE "COMPENSATING")
         /\ call'[e] = [pc |-> "send", by |-> who] /\ sends'[e] = sends[e] + 1
         /\ \A i \in Ids \ {e} : eff'[i] = eff[i] /\ call'[i] = call[i] /\ sends'[i] = sends[i]
<1>1. TransitionTo(x, IF x.of = None THEN "COMMITTING" ELSE "COMPENSATING") \in Effects
  BY TransitionType DEF States
<1>2. QED
  BY <1>1 DEF Send, TypeOK, Calls

LEMMA FinishType ==
  ASSUME TypeOK, NEW e \in Ids, NEW x \in Effects, Finish(e, x)
  PROVE  /\ eff' \in [Ids -> Effects] /\ call' \in [Ids -> Calls] /\ sends' = sends
         /\ eff'[e] = x /\ call'[e] = Idle
         /\ \A i \in Ids \ {e} : eff'[i] = eff[i] /\ call'[i] = call[i]
BY DEF Finish, TypeOK, Calls, Idle

-------------------------------------------------------------------------------
(* Dispatch *)

\* A record whose fields are those of a record in the run being dispatched.
Same(e) == eff'[e].run = eff[e].run /\ eff'[e].op = eff[e].op /\ eff'[e].of = eff[e].of

\* States that hold authority or an open dispatch.
Live == {"AUTHORIZED", "PREPARED", "COMMITTING"}

\* What a critical section of effect e may do to the four dispatch variables.
Touches(e) ==
  /\ eff' \in [Ids -> Effects] /\ call' \in [Ids -> Calls] /\ sends' \in [Ids -> Nat]
  /\ Same(e) /\ eff'[e].st # "NONE" /\ (eff'[e].st \in Live => eff[e].st \in Live)
  /\ \A i \in Ids \ {e} : eff'[i] = eff[i] /\ call'[i] = call[i] /\ sends'[i] = sends[i]

\* Sending an effect no call of which was ever sent.
LEMMA SendTouches ==
  ASSUME TypeOK, NEW e \in Ids, NEW x \in Effects, NEW who \in {"none", "client", "stop"},
         x.run = eff[e].run, x.op = eff[e].op, x.of = eff[e].of,
         x.st \in {"AUTHORIZED", "PREPARED", "CANCELLED"}, sends[e] = 0, ~landed[e],
         eff[e].st \in {"AUTHORIZED", x.st}, Send(e, x, who)
  PROVE  Touches(e) /\ Consistent(eff'[e], call'[e], sends'[e], landed[e])
<1> DEFINE s == IF x.of = None THEN "COMMITTING" ELSE "COMPENSATING"
           y == TransitionTo(x, s)
<1>1. /\ y \in Effects /\ y.run = x.run /\ y.op = x.op /\ y.of = x.of
      /\ y.st \in {s, "CANCELLED"} /\ (x.st = "CANCELLED" => y.st = "CANCELLED")
  BY TransitionType, EdgeTable DEF States
<1>2. /\ eff' \in [Ids -> Effects] /\ call' \in [Ids -> Calls] /\ sends' \in [Ids -> Nat]
      /\ eff'[e] = y /\ call'[e] = [pc |-> "send", by |-> who] /\ sends'[e] = 1
      /\ \A i \in Ids \ {e} : eff'[i] = eff[i] /\ call'[i] = call[i] /\ sends'[i] = sends[i]
  BY SendType DEF TypeOK
<1> HIDE DEF y
<1>3. Touches(e)
  BY <1>1, <1>2 DEF Touches, Same, Live
<1>4. QED
  BY <1>1, <1>2, <1>3 DEF Consistent

LEMMA WaitTouches ==
  ASSUME TypeOK, NEW e \in Ids, NEW pc \in {"verify", "prepare", "read"},
         NEW who \in {"none", "client", "stop"}, eff[e].st # "NONE", Wait(e, pc, who)
  PROVE  /\ Touches(e) /\ eff'[e] = eff[e] /\ sends'[e] = sends[e]
         /\ call'[e] = [pc |-> pc, by |-> who]
BY WaitType DEF Touches, Same, TypeOK

LEMMA FinishTouches ==
  ASSUME TypeOK, NEW e \in Ids, NEW x \in Effects, x.st # "NONE", x.st \in Live => eff[e].st \in Live,
         x.run = eff[e].run, x.op = eff[e].op, x.of = eff[e].of, Finish(e, x)
  PROVE  Touches(e) /\ eff'[e] = x /\ sends'[e] = sends[e] /\ call'[e] = Idle
BY FinishType DEF Touches, Same, TypeOK

\* From an unsent effect, staging or sending keeps the dispatch consistent.
LEMMA AfterVerifyTouches ==
  ASSUME TypeOK, NEW e \in Ids, NEW who \in {"none", "client", "stop"},
         eff[e].st \in {"AUTHORIZED", "CANCELLED"}, sends[e] = 0, ~landed[e],
         AfterVerify(e, who)
  PROVE  Touches(e) /\ Consistent(eff'[e], call'[e], sends'[e], landed[e])
<1>1. CASE eff[e].op \in StagedOps /\ eff[e].st = "AUTHORIZED"
  <2>1. Wait(e, "prepare", who)
    BY <1>1 DEF AfterVerify
  <2>2. Touches(e) /\ eff'[e] = eff[e] /\ sends'[e] = 0 /\ call'[e].pc = "prepare"
    BY <2>1, WaitTouches
  <2>3. QED
    BY <1>1, <2>2 DEF Consistent
<1>2. CASE ~(eff[e].op \in StagedOps /\ eff[e].st = "AUTHORIZED")
  <2>1. Send(e, eff[e], who) /\ eff[e] \in Effects
    BY <1>2 DEF AfterVerify, TypeOK
  <2>2. QED
    BY <2>1, SendTouches
<1>3. QED
  BY <1>1, <1>2

LEMMA StartCommitTouches ==
  ASSUME IInv, NEW e \in Ids, NEW who \in {"none", "client", "stop"}, StartCommit(e, who)
  PROVE  Touches(e) /\ Consistent(eff'[e], call'[e], sends'[e], landed[e])
<1> USE DEF IInv
<1>0. Consistent(eff[e], call[e], sends[e], landed[e]) /\ eff[e] \in Effects /\ call[e] = Idle
  BY DEF DispatchInv, TypeOK, StartCommit
<1>1. CASE eff[e].st = "AUTHORIZED" /\ AfterChecks(e, who)
  <2>1. sends[e] = 0 /\ ~landed[e]
    BY <1>0, <1>1 DEF Consistent
  <2>2. CASE eff[e].op \in VersionedOps
    <3>1. Touches(e) /\ eff'[e] = eff[e] /\ sends'[e] = 0 /\ call'[e].pc = "verify"
      BY <1>1, <2>1, <2>2, WaitTouches DEF AfterChecks
    <3>2. QED
      BY <1>0, <1>1, <2>1, <3>1 DEF Consistent
  <2>3. CASE eff[e].op \notin VersionedOps
    BY <1>1, <2>1, <2>3, AfterVerifyTouches DEF AfterChecks
  <2>4. QED
    BY <2>2, <2>3
<1>2. CASE /\ eff[e].st = "AUTHORIZED" /\ Fate(eff[e]) # "DISPATCH"
           /\ eff' = [eff EXCEPT ![e] = TransitionTo(eff[e], Fate(eff[e]))]
           /\ UNCHANGED <<call, sends>>
  <2>1. Fate(eff[e]) \in {"EXPIRED", "CANCELLED"}
    BY <1>2 DEF Fate
  <2> DEFINE y == TransitionTo(eff[e], Fate(eff[e]))
  <2>2. /\ y \in Effects /\ y.st \in {"EXPIRED", "CANCELLED"}
        /\ y.run = eff[e].run /\ y.op = eff[e].op /\ y.of = eff[e].of
    BY <1>0, <1>2, <2>1, TransitionType, EdgeTable DEF States
  <2>3. eff' = [eff EXCEPT ![e] = y]
    BY <1>2
  <2> HIDE DEF y
  <2>4. Touches(e) /\ eff'[e] = y
    BY <1>2, <2>2, <2>3 DEF Touches, Same, TypeOK, Live
  <2>5. QED
    BY <1>0, <1>2, <2>2, <2>4 DEF Consistent, Idle
<1>3. CASE eff[e].st = "UNKNOWN" /\ Wait(e, "read", who)
  <2>1. Touches(e) /\ eff'[e] = eff[e] /\ sends'[e] = sends[e] /\ call'[e].pc = "read"
    BY <1>3, WaitTouches
  <2>2. QED
    BY <1>0, <1>3, <2>1 DEF Consistent
<1>4. QED
  BY <1>1, <1>2, <1>3 DEF StartCommit

\* What a critical section that ends in LateChange has to show.
LEMMA Concludes ==
  ASSUME IInv, NEW e \in Ids, Touches(e), eff[e].st # "NONE",
         LateTypes, settings' = settings, quarantine' = quarantine,
         landed' \in [Ids -> BOOLEAN], \A i \in Ids \ {e} : landed'[i] = landed[i],
         Consistent(eff'[e], call'[e], sends'[e], landed'[e])
  PROVE  IInv'
<1>1. TypeOK'
  BY DEF IInv, TypeOK, Touches, LateTypes, settings
<1>2. eff'[e].run \in Runs /\ eff'[e].op \in Ops /\ eff'[e].of = eff[e].of
  BY DEF IInv, WellFormed, Touches, Same
<1>3. QED
  BY <1>1, <1>2, OneEffect DEF Touches, LateTypes

LEMMA CommitInv ==
  ASSUME IInv, NEW e \in Ids, Commit(e)
  PROVE  IInv'
<1>1. Touches(e) /\ Consistent(eff'[e], call'[e], sends'[e], landed[e])
  BY StartCommitTouches DEF Commit
<1>2. eff[e].st # "NONE" /\ eff[e].run \in Runs
  BY DEF Commit, IInv, WellFormed
<1>3. LateTypes
  BY <1>2, LateChangeType DEF Commit, IInv
<1>4. QED
  BY <1>1, <1>2, <1>3, Concludes DEF Commit, IInv, TypeOK

\* Settling the record of an outstanding send or read.
LEMMA SettleTouches ==
  ASSUME IInv, NEW e \in Ids, NEW x \in Effects, NEW l \in BOOLEAN, x.st # "NONE", x.st \in Live => eff[e].st \in Live,
         x.run = eff[e].run, x.op = eff[e].op, x.of = eff[e].of, Finish(e, x),
         Consistent(x, Idle, sends[e], l)
  PROVE  Touches(e) /\ Consistent(eff'[e], call'[e], sends'[e], l)
BY FinishTouches DEF IInv

LEMMA VerifyInv ==
  ASSUME IInv, NEW e \in Ids, VerifyReturns(e)
  PROVE  IInv' /\ Touches(e)
<1> DEFINE y == TransitionTo(eff[e], "CANCELLED")
<1>0. /\ eff[e] \in Effects /\ eff[e].st \in {"AUTHORIZED", "CANCELLED"}
      /\ sends[e] = 0 /\ ~landed[e] /\ call[e].by \in {"none", "client", "stop"}
      /\ Consistent(eff[e], call[e], sends[e], landed[e]) /\ landed[e] \in BOOLEAN
  BY DEF IInv, TypeOK, DispatchInv, Consistent, VerifyReturns, Calls
<1>1. Touches(e) /\ Consistent(eff'[e], call'[e], sends'[e], landed[e])
  <2>1. CASE AfterVerify(e, call[e].by)
    BY <1>0, <2>1, AfterVerifyTouches DEF IInv, WellFormed, VerifyReturns
  <2>2. CASE Finish(e, y)
    <3>1. y \in Effects /\ y.st = "CANCELLED" /\ y.run = eff[e].run /\ y.op = eff[e].op
          /\ y.of = eff[e].of
      BY <1>0, TransitionType, EdgeTable DEF States
    <3> HIDE DEF y
    <3>2. Consistent(y, Idle, sends[e], landed[e])
      BY <1>0, <3>1 DEF Consistent, Idle
    <3>3. QED
      BY <1>0, <2>2, <3>1, <3>2, SettleTouches DEF Live
  <2>3. QED
    BY <2>1, <2>2 DEF VerifyReturns
<1>2. eff[e].st # "NONE" /\ eff[e].run \in Runs
  BY <1>0 DEF IInv, WellFormed
<1>3. LateTypes
  BY <1>2, LateChangeType DEF VerifyReturns, IInv
<1>4. QED
  BY <1>1, <1>2, <1>3, Concludes DEF VerifyReturns, IInv, TypeOK

LEMMA PrepareInv ==
  ASSUME IInv, NEW e \in Ids, PrepareReturns(e)
  PROVE  IInv' /\ Touches(e)
<1> DEFINE p == TransitionTo(eff[e], "PREPARED")
           y == TransitionTo(eff[e], "CANCELLED")
           z == TransitionTo(eff[e], "UNKNOWN")
<1>0. /\ eff[e] \in Effects /\ eff[e].st \in {"AUTHORIZED", "CANCELLED"}
      /\ sends[e] = 0 /\ ~landed[e] /\ call[e].by \in {"none", "client", "stop"}
      /\ landed[e] \in BOOLEAN
  BY DEF IInv, TypeOK, DispatchInv, Consistent, PrepareReturns, Calls
<1>1. /\ p \in Effects /\ p.run = eff[e].run /\ p.op = eff[e].op /\ p.of = eff[e].of
      /\ p.st \in {"PREPARED", "CANCELLED"} /\ eff[e].st \in {"AUTHORIZED", p.st}
  BY <1>0, TransitionType, EdgeTable DEF States
<1>2. /\ y \in Effects /\ y.run = eff[e].run /\ y.op = eff[e].op /\ y.of = eff[e].of
      /\ y.st = "CANCELLED"
  BY <1>0, TransitionType, EdgeTable DEF States
<1>3. /\ z \in Effects /\ z.run = eff[e].run /\ z.op = eff[e].op /\ z.of = eff[e].of
      /\ z.st \in {"UNKNOWN", "CANCELLED"}
  BY <1>0, TransitionType, EdgeTable DEF States
<1>4. Send(e, p, call[e].by) \/ Finish(e, y) \/ Finish(e, z)
  BY DEF PrepareReturns
<1> HIDE DEF p, y, z
<1>5. Touches(e) /\ Consistent(eff'[e], call'[e], sends'[e], landed[e])
  <2>1. CASE Send(e, p, call[e].by)
    BY <1>0, <1>1, <2>1, SendTouches DEF IInv
  <2>2. CASE Finish(e, y)
    <3>1. Consistent(y, Idle, sends[e], landed[e])
      BY <1>0, <1>2 DEF Consistent, Idle
    <3>2. QED
      BY <1>0, <1>2, <2>2, <3>1, SettleTouches DEF Live
  <2>3. CASE Finish(e, z)
    <3>1. Consistent(z, Idle, sends[e], landed[e])
      BY <1>0, <1>3 DEF Consistent, Idle
    <3>2. QED
      BY <1>0, <1>3, <2>3, <3>1, SettleTouches DEF Live
  <2>4. QED
    BY <1>4, <2>1, <2>2, <2>3
<1>6. eff[e].st # "NONE" /\ eff[e].run \in Runs
  BY <1>0 DEF IInv, WellFormed
<1>7. LateTypes
  BY <1>6, LateChangeType DEF PrepareReturns, IInv
<1>8. QED
  BY <1>5, <1>6, <1>7, Concludes DEF PrepareReturns, IInv, TypeOK

\* What an acknowledgement or a state read makes of a record.
LEMMA ReceiptedType ==
  ASSUME NEW x \in Effects
  PROVE  LET y == Receipted(x) IN
         /\ y \in Effects /\ y.receipt
         /\ y.st = IF "COMMITTED" \in Allowed[x.st] THEN "COMMITTED" ELSE x.st
         /\ y.run = x.run /\ y.op = x.op /\ y.of = x.of /\ y.del = x.del
<1> DEFINE t == TransitionTo(x, "COMMITTED")
<1>1. /\ t \in Effects /\ t.run = x.run /\ t.op = x.op /\ t.of = x.of /\ t.del = x.del
      /\ t.st = IF "COMMITTED" \in Allowed[x.st] THEN "COMMITTED" ELSE x.st
  BY TransitionType DEF States
<1> HIDE DEF t
<1>2. LET y == [t EXCEPT !.receipt = TRUE] IN
      /\ y \in Effects /\ y.receipt /\ y.st = t.st
         /\ y.run = t.run /\ y.op = t.op /\ y.of = t.of /\ y.del = t.del
  BY <1>1 DEF Effects
<1>3. QED
  BY <1>1, <1>2 DEF Receipted, t

LEMMA SendReturnsInv ==
  ASSUME IInv, NEW e \in Ids, NEW l \in BOOLEAN, SendReturns(e, l)
  PROVE  IInv' /\ Touches(e)
<1> DEFINE y == Receipted(eff[e])
           c == TransitionTo(eff[e], "CANCELLED")
           u == TransitionTo(eff[e], "UNKNOWN")
<1>0. /\ eff[e] \in Effects /\ sends[e] = 1
      /\ eff[e].st \in {"COMMITTING", "COMPENSATING", "UNKNOWN", "CANCELLED"}
  BY DEF IInv, TypeOK, DispatchInv, Consistent, SendReturns
<1>1. /\ y \in Effects /\ y.run = eff[e].run /\ y.op = eff[e].op /\ y.of = eff[e].of
      /\ y.st \in {"COMMITTED", "CANCELLED"} /\ y.receipt
  BY <1>0, ReceiptedType, EdgeTable
<1>2. /\ c \in Effects /\ c.run = eff[e].run /\ c.op = eff[e].op /\ c.of = eff[e].of
      /\ c.st = "CANCELLED"
  BY <1>0, TransitionType, EdgeTable DEF States
<1>3. /\ u \in Effects /\ u.run = eff[e].run /\ u.op = eff[e].op /\ u.of = eff[e].of
      /\ u.st \in {"UNKNOWN", "CANCELLED"}
  BY <1>0, TransitionType, EdgeTable DEF States
<1>4. (l /\ Finish(e, y)) \/ Finish(e, c) \/ Finish(e, u)
  BY DEF SendReturns, TimedOut
<1> HIDE DEF y, c, u
<1>5. Touches(e) /\ Consistent(eff'[e], call'[e], sends'[e], l)
  <2>1. CASE l /\ Finish(e, y)
    <3>1. Consistent(y, Idle, sends[e], l)
      BY <1>0, <1>1, <2>1 DEF Consistent, Idle
    <3>2. QED
      BY <1>1, <2>1, <3>1, SettleTouches DEF Live
  <2>2. CASE Finish(e, c)
    <3>1. Consistent(c, Idle, sends[e], l)
      BY <1>0, <1>2 DEF Consistent, Idle
    <3>2. QED
      BY <1>2, <2>2, <3>1, SettleTouches DEF Live
  <2>3. CASE Finish(e, u)
    <3>1. Consistent(u, Idle, sends[e], l)
      BY <1>0, <1>3 DEF Consistent, Idle
    <3>2. QED
      BY <1>3, <2>3, <3>1, SettleTouches DEF Live
  <2>4. QED
    BY <1>4, <2>1, <2>2, <2>3
<1>6. landed' \in [Ids -> BOOLEAN] /\ landed'[e] = l /\ \A i \in Ids \ {e} : landed'[i] = landed[i]
  BY DEF SendReturns, IInv, TypeOK
<1>7. eff[e].st # "NONE" /\ eff[e].run \in Runs
  BY <1>0 DEF IInv, WellFormed
<1>8. LateTypes
  BY <1>7, LateChangeType DEF SendReturns, IInv
<1>9. QED
  BY <1>5, <1>6, <1>7, <1>8, Concludes DEF SendReturns

LEMMA ReadInv ==
  ASSUME IInv, NEW e \in Ids, ReadReturns(e)
  PROVE  IInv' /\ Touches(e)
<1> DEFINE y == Receipted(eff[e])
           c == TransitionTo(eff[e], "CANCELLED")
<1>0. /\ eff[e] \in Effects /\ eff[e].st = "UNKNOWN" /\ landed[e] \in BOOLEAN
      /\ Consistent(eff[e], call[e], sends[e], landed[e])
  BY DEF IInv, TypeOK, DispatchInv, Consistent, ReadReturns
<1>1. /\ y \in Effects /\ y.run = eff[e].run /\ y.op = eff[e].op /\ y.of = eff[e].of
      /\ y.st = "COMMITTED" /\ y.receipt
  BY <1>0, ReceiptedType, EdgeTable
<1>2. /\ c \in Effects /\ c.run = eff[e].run /\ c.op = eff[e].op /\ c.of = eff[e].of
      /\ c.st = "CANCELLED"
  BY <1>0, TransitionType, EdgeTable DEF States
<1>4. (landed[e] /\ Finish(e, y)) \/ Finish(e, c) \/ Finish(e, eff[e])
  BY DEF ReadReturns
<1> HIDE DEF y, c
<1>5. Touches(e) /\ Consistent(eff'[e], call'[e], sends'[e], landed[e])
  <2>1. CASE landed[e] /\ Finish(e, y)
    <3>1. Consistent(y, Idle, sends[e], landed[e])
      BY <1>0, <1>1, <2>1 DEF Consistent, Idle
    <3>2. QED
      BY <1>0, <1>1, <2>1, <3>1, SettleTouches DEF Live
  <2>2. CASE Finish(e, c)
    <3>1. Consistent(c, Idle, sends[e], landed[e])
      BY <1>0, <1>2 DEF Consistent, Idle
    <3>2. QED
      BY <1>0, <1>2, <2>2, <3>1, SettleTouches DEF Live
  <2>3. CASE Finish(e, eff[e])
    <3>1. Consistent(eff[e], Idle, sends[e], landed[e])
      BY <1>0 DEF Consistent, Idle
    <3>2. QED
      BY <1>0, <2>3, <3>1, SettleTouches DEF Live
  <2>4. QED
    BY <1>4, <2>1, <2>2, <2>3
<1>6. eff[e].st # "NONE" /\ eff[e].run \in Runs
  BY <1>0 DEF IInv, WellFormed
<1>7. LateTypes
  BY <1>6, LateChangeType DEF ReadReturns, IInv
<1>8. QED
  BY <1>5, <1>6, <1>7, Concludes DEF ReadReturns, IInv, TypeOK

LEMMA CallReturnsInv ==
  ASSUME IInv, NEW e \in Ids, CallReturns(e)
  PROVE  IInv' /\ Touches(e)
BY VerifyInv, PrepareInv, SendReturnsInv, ReadInv DEF CallReturns

-------------------------------------------------------------------------------
(* Decisions *)

\* Replacing the record of an undispatched effect by a decided one.
LEMMA DecidedTouches ==
  ASSUME IInv, NEW e \in Ids, NEW x \in Effects,
         eff[e].st \in {"NONE", "PROPOSED"}, x.run \in Runs, x.op \in Ops,
         eff[e].st # "NONE" => x.of = eff[e].of,
         x.st \in {"PROPOSED", "DENIED", "AUTHORIZED"},
         eff' = [eff EXCEPT ![e] = x], call' = call, sends' = sends, landed' = landed
  PROVE  /\ eff' \in [Ids -> Effects] /\ eff'[e] = x /\ \A i \in Ids \ {e} : eff'[i] = eff[i]
         /\ Consistent(eff'[e], call'[e], sends'[e], landed'[e])
<1>1. /\ eff' \in [Ids -> Effects] /\ eff'[e] = x /\ \A i \in Ids \ {e} : eff'[i] = eff[i]
  BY DEF IInv, TypeOK
<1>2. sends[e] = 0 /\ ~landed[e] /\ call[e].pc = "idle"
  BY DEF IInv, TypeOK, DispatchInv, Consistent, Calls
<1>3. QED
  BY <1>1, <1>2 DEF Consistent

LEMMA DecidedInv ==
  ASSUME IInv, NEW e \in Ids, NEW x \in Effects,
         eff[e].st \in {"NONE", "PROPOSED"}, x.run \in Runs, x.op \in Ops,
         eff[e].st # "NONE" => x.of = eff[e].of,
         x.st \in {"PROPOSED", "DENIED", "AUTHORIZED"},
         eff' = [eff EXCEPT ![e] = x],
         UNCHANGED <<settings, quarantine, call, stop, sends, landed>>
  PROVE  IInv'
<1>1. /\ eff' \in [Ids -> Effects] /\ eff'[e] = x /\ \A i \in Ids \ {e} : eff'[i] = eff[i]
      /\ Consistent(eff'[e], call'[e], sends'[e], landed'[e])
  BY DecidedTouches
<1>2. TypeOK'
  BY <1>1 DEF IInv, TypeOK, settings
<1>3. QED
  BY <1>1, <1>2, OneEffect DEF LateTypes, IInv, TypeOK, WellFormed

\* A proposal of a known shape is a record in state PROPOSED.
LEMMA ProposedType ==
  ASSUME NEW s, s.run \in Runs, s.op \in Ops, s.of \in Ids \cup {None},
         s.del \in Delegations \cup {None}
  PROVE  /\ Proposed(s) \in Effects /\ Proposed(s).st = "PROPOSED"
         /\ Proposed(s).run = s.run /\ Proposed(s).op = s.op /\ Proposed(s).of = s.of
         /\ Proposed(s).del = s.del
BY DEF Proposed, NoEffect, Effects, States

LEMMA AuthorizeInv ==
  ASSUME IInv, NEW e \in Proposals, NEW s \in Shapes, Authorize(e, s)
  PROVE  IInv'
<1>0. e \in Ids /\ Proposals \subseteq Ids
  BY RecordsAssumption DEF Proposals, Ids
<1>1. /\ Proposed(s) \in Effects /\ Proposed(s).st = "PROPOSED"
      /\ Proposed(s).run = s.run /\ Proposed(s).op = s.op /\ s.run \in Runs /\ s.op \in Ops
  BY <1>0, ProposedType DEF Shapes
<1>2. PICK n \in BOOLEAN : eff' = [eff EXCEPT ![e] = Decide(Proposed(s), n)]
  BY DEF Authorize, Narrowing
<1>3. /\ Decide(Proposed(s), n) \in Effects
      /\ Decide(Proposed(s), n).st \in {"PROPOSED", "DENIED", "AUTHORIZED"}
      /\ Decide(Proposed(s), n).run \in Runs /\ Decide(Proposed(s), n).op \in Ops
  BY <1>1, DecideType DEF IInv
<1>4. QED
  BY <1>0, <1>2, <1>3, DecidedInv DEF Authorize

LEMMA AttachReviewInv ==
  ASSUME IInv, NEW e \in Ids, NEW v \in {"ALLOW", "DENY", "WATCH"}, AttachReview(e, v)
  PROVE  IInv'
<1>1. /\ eff[e] \in Effects /\ eff[e].st = "PROPOSED" /\ eff[e].run \in Runs /\ eff[e].op \in Ops
  BY DEF AttachReview, Reviewable, IInv, TypeOK, WellFormed
<1>2. PICK n \in BOOLEAN : eff' = [eff EXCEPT ![e] = Reviewed(eff[e], v, n)]
  BY DEF AttachReview, Narrowing
<1> DEFINE w == [eff[e] EXCEPT !.review = v]
           d == [eff[e] EXCEPT !.st = "DENIED", !.review = v]
<1>3. w \in Effects /\ w.st = "PROPOSED" /\ w.run = eff[e].run /\ w.op = eff[e].op /\ w.of = eff[e].of
  BY <1>1 DEF Effects
<1>4. d \in Effects /\ d.st = "DENIED" /\ d.run = eff[e].run /\ d.op = eff[e].op /\ d.of = eff[e].of
  BY <1>1 DEF Effects, States
<1>5. Reviewed(eff[e], v, n) = CASE v = "DENY" -> d [] v = "ALLOW" -> Decide(w, n) [] v = "WATCH" -> w
  BY DEF Reviewed
<1> HIDE DEF w, d
<1>6. /\ Decide(w, n) \in Effects /\ Decide(w, n).st \in {"PROPOSED", "DENIED", "AUTHORIZED"}
      /\ Decide(w, n).run = w.run /\ Decide(w, n).op = w.op /\ Decide(w, n).of = w.of
  BY <1>1, <1>3, DecideType DEF IInv
<1> DEFINE y == Reviewed(eff[e], v, n)
<1>7. /\ y \in Effects /\ y.st \in {"PROPOSED", "DENIED", "AUTHORIZED"}
      /\ y.run \in Runs /\ y.op \in Ops /\ y.of = eff[e].of
  BY <1>1, <1>3, <1>4, <1>5, <1>6
<1> HIDE DEF y
<1>8. eff' = [eff EXCEPT ![e] = y]
  BY <1>2 DEF y
<1>9. QED
  BY <1>1, <1>7, <1>8, DecidedInv DEF AttachReview

-------------------------------------------------------------------------------
(* The stop protocol *)

\* A step that only moves a stop along, never onto another compensation, and
\* changes no effect.
LEMMA StopMoves ==
  ASSUME IInv, NEW r \in Runs, NEW s \in Stops, stop' = [stop EXCEPT ![r] = s],
         s.cur \in {stop[r].cur, None}, s.pc = "await" => s.cur # None,
         UNCHANGED <<now, policy, fence, eff, call, sends, landed>>,
         revoked' \subseteq Delegations, quarantine' \subseteq Artifacts
  PROVE  IInv'
<1>1. /\ stop' \in [Runs -> Stops] /\ stop'[r] = s
      /\ \A q \in Runs \ {r} : stop'[q] = stop[q]
  BY DEF IInv, TypeOK
<1>2. TypeOK'
  BY <1>1 DEF IInv, TypeOK
<1>3. WellFormed'
  BY <1>1 DEF IInv, WellFormed
<1>4. DispatchInv'
  BY DEF IInv, DispatchInv
<1>5. QED
  BY <1>2, <1>3, <1>4 DEF IInv

LEMMA StopOrderInv ==
  ASSUME IInv, NEW r \in Runs, NEW plans \in SUBSET Proposals, StopOrder(r, plans)
  PROVE  IInv'
<1> DEFINE s == [stop[r] EXCEPT !.pc = "ordered", !.plans = plans, 
                               !.snapshot = {e \in OfRun(r) : eff[e].st # "PROPOSED"}]
<1>1. s \in Stops /\ s.cur = stop[r].cur /\ s.pc = "ordered"
  BY DEF IInv, TypeOK, Stops, OfRun
<1>2. stop' = [stop EXCEPT ![r] = s]
  BY DEF StopOrder
<1>3. revoked' \subseteq Delegations
  BY DEF StopOrder, IInv, TypeOK
<1> HIDE DEF s
<1>4. QED
  BY <1>1, <1>2, <1>3, StopMoves DEF StopOrder, IInv, TypeOK

\* Sweeping a record keeps it consistent with its outstanding call.
LEMMA SweptConsistent ==
  ASSUME IInv, NEW e \in Ids
  PROVE  LET y == Swept(eff[e]) IN
         /\ y \in Effects /\ Consistent(y, call[e], sends[e], landed[e])
         /\ y.run = eff[e].run /\ y.op = eff[e].op /\ y.of = eff[e].of
         /\ y.st = "NONE" <=> eff[e].st = "NONE"
<1> DEFINE y == Swept(eff[e])
<1>0. eff[e] \in Effects /\ Consistent(eff[e], call[e], sends[e], landed[e])
  BY DEF IInv, TypeOK, DispatchInv
<1>1. CASE eff[e].st = "AUTHORIZED"
  <2>1. y = TransitionTo(eff[e], "CANCELLED")
    BY <1>1 DEF Swept
  <2>2. /\ y \in Effects /\ y.st = "CANCELLED"
        /\ y.run = eff[e].run /\ y.op = eff[e].op /\ y.of = eff[e].of
    BY <1>0, <1>1, <2>1, TransitionType, EdgeTable DEF States
  <2> HIDE DEF y
  <2>3. Consistent(y, call[e], sends[e], landed[e])
    BY <1>0, <1>1, <2>2 DEF Consistent
  <2>4. QED
    BY <1>1, <2>2, <2>3 DEF y
<1>2. CASE eff[e].st \in {"COMMITTING", "COMPENSATING"}
  <2>1. y = TransitionTo(eff[e], "UNKNOWN")
    BY <1>2 DEF Swept
  <2>2. /\ y \in Effects /\ y.st = "UNKNOWN"
        /\ y.run = eff[e].run /\ y.op = eff[e].op /\ y.of = eff[e].of
    BY <1>0, <1>2, <2>1, TransitionType, EdgeTable DEF States
  <2> HIDE DEF y
  <2>3. Consistent(y, call[e], sends[e], landed[e])
    BY <1>0, <1>2, <2>2 DEF Consistent
  <2>4. QED
    BY <1>2, <2>2, <2>3 DEF y
<1>3. CASE eff[e].st \notin {"AUTHORIZED", "COMMITTING", "COMPENSATING"}
  BY <1>0, <1>3 DEF Swept
<1>4. QED
  BY <1>1, <1>2, <1>3

LEMMA StopSweepInv ==
  ASSUME IInv, NEW r \in Runs, StopSweep(r)
  PROVE  IInv'
<1> DEFINE s == [stop[r] EXCEPT !.pc = "swept", !.snapshot = {}]
<1>1. s \in Stops /\ s.cur = stop[r].cur /\ s.pc = "swept"
  BY DEF IInv, TypeOK, Stops
<1>2. stop' = [stop EXCEPT ![r] = s]
  BY DEF StopSweep
<1> HIDE DEF s
<1>3. LateTypes
  BY <1>1, <1>2 DEF LateTypes, IInv, TypeOK, WellFormed
<1>4. \A e \in Ids :
        /\ eff'[e] \in Effects /\ Consistent(eff'[e], call[e], sends[e], landed[e])
        /\ eff'[e].run = eff[e].run /\ eff'[e].op = eff[e].op /\ eff'[e].of = eff[e].of
        /\ eff'[e].st = "NONE" <=> eff[e].st = "NONE"
  BY SweptConsistent DEF StopSweep, IInv, TypeOK, DispatchInv
<1>5. eff' \in [Ids -> Effects]
  BY <1>4 DEF StopSweep
<1>6. TypeOK'
  BY <1>3, <1>5 DEF StopSweep, IInv, TypeOK, LateTypes, settings
<1>7. DispatchInv'
  BY <1>4 DEF StopSweep, DispatchInv
<1>8. WellFormed'
  <2>1. \A e \in Ids : /\ eff'[e].st # "NONE" => eff'[e].run \in Runs /\ eff'[e].op \in Ops
                       /\ call'[e].pc # "idle" => eff'[e].st # "NONE"
    BY <1>4 DEF StopSweep, IInv, WellFormed
  <2>2. ASSUME NEW q \in Runs, stop'[q].cur # None
        PROVE  eff'[stop'[q].cur].st # "NONE" /\ eff'[stop'[q].cur].of \in Proposals
    <3>1. stop[q].cur \in Ids /\ stop'[q].cur = stop[q].cur
      BY <1>3, <2>2 DEF LateTypes, IInv, TypeOK, Stops
    <3>2. QED
      BY <1>4, <2>2, <3>1 DEF IInv, WellFormed
  <2>3. QED
    BY <1>3, <2>1, <2>2 DEF WellFormed, LateTypes
<1>9. QED
  BY <1>6, <1>7, <1>8 DEF IInv

LEMMA StopCollectInv ==
  ASSUME IInv, NEW r \in Runs, StopCollect(r)
  PROVE  IInv'
<1> DEFINE s == [stop[r] EXCEPT !.pc = "working", !.todo = {e \in OfRun(r) : eff[e].st = "UNKNOWN"}]
<1>1. s \in Stops /\ s.cur = stop[r].cur /\ s.pc = "working"
  BY DEF IInv, TypeOK, Stops, OfRun
<1>2. stop' = [stop EXCEPT ![r] = s]
  BY DEF StopCollect
<1> HIDE DEF s
<1>3. QED
  BY <1>1, <1>2, StopMoves DEF StopCollect, IInv, TypeOK, settings

LEMMA StopReadInv ==
  ASSUME IInv, NEW r \in Runs, NEW e \in Ids, StopRead(r, e)
  PROVE  IInv'
<1> DEFINE s == [stop[r] EXCEPT !.todo = @ \ {e}]
<1>1. s \in Stops /\ s.cur = stop[r].cur /\ s.pc = stop[r].pc /\ stop[r].pc = "working"
  BY DEF IInv, TypeOK, Stops, StopRead
<1>2. stop' = [stop EXCEPT ![r] = s]
  BY DEF StopRead
<1> HIDE DEF s
<1>3. CASE eff[e].st = "UNKNOWN" /\ Wait(e, "read", "stop")
  <2>1. Touches(e) /\ eff'[e] = eff[e] /\ sends'[e] = sends[e] /\ call'[e].pc = "read"
    BY <1>3, WaitTouches DEF IInv
  <2>2. Consistent(eff'[e], call'[e], sends'[e], landed[e])
    BY <1>3, <2>1 DEF Consistent, IInv, DispatchInv
  <2>3. LateTypes
    BY <1>1, <1>2 DEF LateTypes, IInv, TypeOK, WellFormed
  <2>4. QED
    BY <1>3, <2>1, <2>2, <2>3, Concludes DEF StopRead, IInv, TypeOK
<1>4. CASE UNCHANGED <<eff, call, sends>>
  BY <1>1, <1>2, <1>4, StopMoves DEF StopRead, IInv, TypeOK, settings
<1>5. QED
  BY <1>3, <1>4 DEF StopRead

LEMMA StopCompensateInv ==
  ASSUME IInv, NEW r \in Runs, NEW e \in Proposals, NEW op \in Ops, StopCompensate(r, e, op)
  PROVE  IInv'
<1> DEFINE target == eff[e].run = r /\ eff[e].st = "COMMITTED" /\ eff[StopId(e)].st = "NONE"
           y == Decide(Proposed(CompensationShape(r, op, e)), FALSE)
           s == [stop[r] EXCEPT !.plans = @ \ {e},
                   !.cur = IF target /\ y.st = "AUTHORIZED" THEN StopId(e) ELSE None]
<1>0. StopId(e) \in Ids /\ e \in Ids
  BY RecordsAssumption DEF Proposals, Ids, StopId
<1>1. /\ y \in Effects /\ y.st \in {"PROPOSED", "DENIED", "AUTHORIZED"}
      /\ y.run = r /\ y.op = op /\ y.of = e
  <2> DEFINE p == Proposed(CompensationShape(r, op, e))
  <2>1. p \in Effects /\ p.st = "PROPOSED" /\ p.run = r /\ p.op = op /\ p.of = e
    BY <1>0, ProposedType DEF CompensationShape
  <2> HIDE DEF p
  <2>2. QED
    BY <2>1, DecideType DEF IInv, p
<1>3. stop' = [stop EXCEPT ![r] = s] /\ eff' = IF target THEN [eff EXCEPT ![StopId(e)] = y] ELSE eff
  BY DEF StopCompensate
<1> HIDE DEF y
<1>2. s \in Stops /\ s.pc = "working" /\ s.cur \in {None, StopId(e)}
      /\ (s.cur = None \/ target)
  <2>1. stop[r] \in Stops /\ stop[r].pc = "working"
    BY DEF StopCompensate, IInv, TypeOK
  <2>2. \A c \in {None, StopId(e)} : LET t == [stop[r] EXCEPT !.plans = @ \ {e}, !.cur = c]
                                    IN t \in Stops /\ t.pc = "working" /\ t.cur = c
    BY <1>0, <2>1 DEF Stops
  <2>3. QED
    BY <2>2
<1> HIDE DEF s
<1>4. CASE ~target
  <2>1. s.cur = None /\ eff' = eff
    BY <1>2, <1>3, <1>4
  <2>2. QED
    BY <1>2, <1>3, <2>1, StopMoves DEF StopCompensate, IInv, TypeOK, settings
<1>5. CASE target
  <2>1. /\ eff' \in [Ids -> Effects] /\ eff'[StopId(e)] = y
        /\ \A i \in Ids \ {StopId(e)} : eff'[i] = eff[i]
        /\ Consistent(eff'[StopId(e)], call'[StopId(e)], sends'[StopId(e)], landed'[StopId(e)])
    BY <1>0, <1>1, <1>3, <1>5, DecidedTouches DEF StopCompensate
  <2>2. stop' \in [Runs -> Stops] /\ stop'[r] = s /\ \A q \in Runs \ {r} : stop'[q] = stop[q]
    BY <1>2, <1>3 DEF IInv, TypeOK
  <2>3. TypeOK'
    BY <2>1, <2>2 DEF StopCompensate, IInv, TypeOK, settings
  <2>4. DispatchInv'
    BY <2>1 DEF StopCompensate, IInv, DispatchInv
  <2>5. WellFormed'
    <3>1. \A i \in Ids : /\ eff'[i].st # "NONE" => eff'[i].run \in Runs /\ eff'[i].op \in Ops
                         /\ call'[i].pc # "idle" => eff'[i].st # "NONE"
      BY <1>1, <2>1 DEF StopCompensate, IInv, WellFormed
    <3>2. ASSUME NEW q \in Runs, stop'[q].cur # None
          PROVE  eff'[stop'[q].cur].st # "NONE" /\ eff'[stop'[q].cur].of \in Proposals
      <4>1. CASE q = r
        BY <1>1, <1>2, <2>1, <2>2, <3>2, <4>1
      <4>2. CASE q # r
        <5>1. stop'[q] = stop[q] /\ stop[q].cur \in Ids /\ eff[stop[q].cur].st # "NONE"
              /\ eff[stop[q].cur].of \in Proposals
          BY <2>2, <3>2, <4>2 DEF IInv, TypeOK, Stops, WellFormed
        <5>2. QED
          BY <1>5, <2>1, <5>1
      <4>3. QED
        BY <4>1, <4>2
    <3>3. \A q \in Runs : stop'[q].pc = "await" => stop'[q].cur # None
      BY <1>2, <2>2 DEF IInv, WellFormed
    <3>4. QED
      BY <3>1, <3>2, <3>3 DEF WellFormed
  <2>6. QED
    BY <2>3, <2>4, <2>5 DEF IInv
<1>6. QED
  BY <1>4, <1>5

LEMMA StopCommitInv ==
  ASSUME IInv, NEW r \in Runs, StopCommit(r)
  PROVE  IInv'
<1> DEFINE e == stop[r].cur
           s == [stop[r] EXCEPT !.pc = "await"]
<1>0. e \in Ids /\ eff[e].st # "NONE" /\ stop[r].cur # None
  BY DEF StopCommit, IInv, TypeOK, Stops, WellFormed
<1>1. s \in Stops /\ s.cur = stop[r].cur /\ s.pc = "await"
  BY DEF IInv, TypeOK, Stops
<1>2. stop' = [stop EXCEPT ![r] = s]
  BY DEF StopCommit
<1> HIDE DEF s
<1>3. LateTypes
  BY <1>0, <1>1, <1>2 DEF LateTypes, IInv, TypeOK, WellFormed
<1>4. CASE StartCommit(e, "stop")
  <2> HIDE DEF e
  <2>1. Touches(e) /\ Consistent(eff'[e], call'[e], sends'[e], landed[e])
    BY <1>0, <1>4, StartCommitTouches
  <2>2. QED
    BY <1>0, <1>3, <2>1, Concludes DEF StopCommit, IInv, TypeOK
<1>5. CASE UNCHANGED <<eff, call, sends>>
  BY <1>0, <1>1, <1>2, <1>5, StopMoves DEF StopCommit, IInv, TypeOK, settings
<1>6. QED
  BY <1>4, <1>5 DEF StopCommit

LEMMA StopOutcomeInv ==
  ASSUME IInv, NEW r \in Runs, StopOutcome(r)
  PROVE  IInv'
<1> DEFINE c == eff[stop[r].cur]
           paid == IF c.st = "COMMITTED" THEN stop[r].paid \cup {c.of} ELSE stop[r].paid
           s == [stop[r] EXCEPT !.pc = "working", !.cur = None, !.paid = paid]
<1>0. stop[r] \in Stops /\ c.of \in Proposals
  BY DEF StopOutcome, IInv, TypeOK, WellFormed
<1>1. paid \in SUBSET Proposals
  BY <1>0 DEF Stops
<1>2. stop' = [stop EXCEPT ![r] = s]
  BY DEF StopOutcome
<1> HIDE DEF paid
<1>3. s \in Stops /\ s.cur = None /\ s.pc = "working"
  BY <1>0, <1>1 DEF Stops
<1> HIDE DEF s
<1>4. QED
  BY <1>2, <1>3, StopMoves DEF StopOutcome, IInv, TypeOK, settings

LEMMA StopInventoryInv ==
  ASSUME IInv, NEW r \in Runs, StopInventory(r)
  PROVE  IInv'
<1> DEFINE d == IF Floor(r) = "DIRTY_QUARANTINED"
                THEN {ArtifactOf[eff[e].op] : e \in Unpaid(r)} ELSE {}
           s == [stop[r] EXCEPT !.pc = "verify", !.floor = Floor(r), !.dirty = d]
<1>0. stop[r] \in Stops
  BY DEF IInv, TypeOK
<1>1. d \in SUBSET Artifacts
  <2>1. \A e \in Unpaid(r) : eff[e].op \in Ops
    BY DEF IInv, WellFormed, Unpaid, Ordinary, OfRun
  <2>2. QED
    BY <2>1, BrokerAssumption
<1>2. Floor(r) \in Verdicts
  BY DEF Floor, Verdicts
<1>3. stop' = [stop EXCEPT ![r] = s]
  BY DEF StopInventory
<1> HIDE DEF d
<1>4. s \in Stops /\ s.cur = stop[r].cur /\ s.pc = "verify"
  BY <1>0, <1>1, <1>2 DEF Stops
<1> HIDE DEF s
<1>5. QED
  BY <1>3, <1>4, StopMoves DEF StopInventory, IInv, TypeOK, settings

LEMMA StopRecordInv ==
  ASSUME IInv, NEW r \in Runs, NEW v \in Verdicts, NEW named \in SUBSET Artifacts,
         StopRecord(r, v, named)
  PROVE  IInv'
<1> DEFINE w == Worse(v, stop[r].floor)
           s == [stop[r] EXCEPT !.pc = "done", !.terminal = w, !.floor = "none", !.dirty = {}]
<1>0. stop[r] \in Stops
  BY DEF IInv, TypeOK
<1>1. w \in Verdicts \cup {"none"}
  BY <1>0 DEF Worse, Stops
<1>2. quarantine' \subseteq Artifacts
  BY <1>0 DEF StopRecord, IInv, TypeOK, Stops
<1>3. stop' = [stop EXCEPT ![r] = s]
  BY DEF StopRecord
<1> HIDE DEF w
<1>4. s \in Stops /\ s.cur = stop[r].cur /\ s.pc = "done"
  BY <1>0, <1>1 DEF Stops
<1> HIDE DEF s
<1>5. QED
  BY <1>2, <1>3, <1>4, StopMoves DEF StopRecord, IInv, TypeOK, settings

LEMMA StopStepInv ==
  ASSUME IInv, NEW r \in Runs, StopStep(r)
  PROVE  IInv'
BY StopSweepInv, StopCollectInv, StopReadInv, StopCompensateInv, StopCommitInv, StopOutcomeInv,
   StopInventoryInv, StopRecordInv, CallReturnsInv DEF StopStep

\* A step that only moves the settings or the clock.
LEMMA SettingsInv ==
  ASSUME IInv, UNCHANGED <<quarantine, eff, call, stop, sends, landed>>,
         now' \in Nat, policy' \in Policies, fence' \in BOOLEAN, revoked' \subseteq Delegations
  PROVE  IInv'
BY DEF IInv, TypeOK, WellFormed, DispatchInv

-------------------------------------------------------------------------------
(* The theorems *)

LEMMA InitInv == Init => IInv
<1> SUFFICES ASSUME Init PROVE IInv
  OBVIOUS
<1>1. NoEffect \in Effects /\ NoEffect.st = "NONE"
  BY DEF NoEffect, Effects, States
<1>2. NotStopped \in Stops /\ NotStopped.cur = None /\ NotStopped.pc = "none"
  BY DEF NotStopped, Stops
<1>3. Idle \in Calls /\ Idle.pc = "idle"
  BY DEF Idle, Calls
<1>4. TypeOK
  BY <1>1, <1>2, <1>3 DEF Init, TypeOK
<1>5. WellFormed
  BY <1>1, <1>2, <1>3 DEF Init, WellFormed
<1>6. DispatchInv
  BY <1>1, <1>3 DEF Init, DispatchInv, Consistent
<1>7. QED
  BY <1>4, <1>5, <1>6 DEF IInv

\* Every critical section of the broker preserves types, well-formedness and
\* the dispatch invariant.
LEMMA NextInv == IInv /\ [Next]_vars => IInv'
<1> SUFFICES ASSUME IInv, [Next]_vars PROVE IInv'
  OBVIOUS
<1>1. ASSUME NEW e \in Proposals, NEW s \in Offered[e], Authorize(e, s) PROVE IInv'
  <2>1. s \in Shapes
    BY <1>1, BrokerAssumption
  <2>2. QED
    BY <1>1, <2>1, AuthorizeInv
<1>2. ASSUME NEW e \in Ids, NEW v \in {"ALLOW", "DENY", "WATCH"}, AttachReview(e, v)
      PROVE  IInv'
  BY <1>2, AttachReviewInv
<1>3. ASSUME NEW e \in Ids, Commit(e) PROVE IInv'
  BY <1>3, CommitInv
<1>4. ASSUME NEW e \in Ids, CallReturns(e) PROVE IInv'
  BY <1>4, CallReturnsInv
<1>5. ASSUME NEW r \in Runs, NEW plans \in SUBSET Proposals, StopOrder(r, plans) PROVE IInv'
  BY <1>5, StopOrderInv
<1>6. ASSUME NEW r \in Runs, StopStep(r) PROVE IInv'
  BY <1>6, StopStepInv
<1>7. CASE ToggleFence
  BY <1>7, SettingsInv DEF ToggleFence, IInv, TypeOK
<1>8. ASSUME NEW p \in Policies, ReplacePolicy(p) PROVE IInv'
  BY <1>8, SettingsInv DEF ReplacePolicy, IInv, TypeOK
<1>9. ASSUME NEW d \in Delegations, RevokeDelegation(d) PROVE IInv'
  BY <1>9, SettingsInv DEF RevokeDelegation, IInv, TypeOK
<1>10. CASE Tick
  BY <1>10, SettingsInv DEF Tick, IInv, TypeOK
<1>11. CASE UNCHANGED vars
  BY <1>11, SettingsInv DEF vars, IInv, TypeOK
<1>12. QED
  BY <1>1, <1>2, <1>3, <1>4, <1>5, <1>6, <1>7, <1>8, <1>9, <1>10, <1>11 DEF Next

\* The broker's records, outstanding calls, sends and landings always fit together.
THEOREM Invariance == Spec => []IInv
<1>1. QED
  BY InitInv, NextInv, PTL DEF Spec

\* Every variable keeps its type.
THEOREM TypeCorrect == Spec => []TypeOK
<1>1. IInv => TypeOK
  BY DEF IInv
<1>2. QED
  BY <1>1, Invariance, PTL

\* No mix of commits, timeouts, reconciliations, sweeps and compensations makes
\* the broker ask a sink twice for one effect.
THEOREM SentOnce == Spec => []AtMostOneSend
<1>1. IInv => AtMostOneSend
  BY DEF IInv, DispatchInv, Consistent, AtMostOneSend
<1>2. QED
  BY <1>1, Invariance, PTL

\* COMMITTED is on record only for a send the destination performed, with its receipt.
THEOREM CommittedIsTrue == Spec => []CommittedMeansLanded
<1>1. IInv => CommittedMeansLanded
  BY DEF IInv, DispatchInv, Consistent, CommittedMeansLanded
<1>2. QED
  BY <1>1, Invariance, PTL

\* What was held, denied or let expire never reached a sink.
THEOREM RefusedIsUnsent == Spec => []RefusedNeverSent
<1>1. IInv => RefusedNeverSent
  BY DEF IInv, TypeOK, DispatchInv, Consistent, RefusedNeverSent
<1>2. QED
  BY <1>1, Invariance, PTL

-------------------------------------------------------------------------------
(* What one step may do to one record                                        *)

\* States with a decision behind them and an end ahead.
Open == {"AUTHORIZED", "PREPARED", "COMMITTING", "COMPENSATING", "UNKNOWN"}
Onward == {"PREPARED", "COMMITTING", "COMPENSATING", "UNKNOWN", "COMMITTED", "CANCELLED", "EXPIRED"}

\* After its decision a record keeps its identity, review and permit, and only
\* an open state is left; only compensations are compensating.
Evolves(x, y) ==
  /\ y.run = x.run /\ y.op = x.op /\ y.of = x.of /\ y.permit = x.permit /\ y.review = x.review
  /\ y.st = x.st \/ (x.st \in Open /\ y.st \in Onward)
  /\ y.st = "COMPENSATING" => x.st = "COMPENSATING" \/ x.of # None

\* A decision makes a permit only when the gate, the review, the compensated
\* original and the run's stop allow it.
DecidedFrom(x, y) ==
  /\ x.st \in {"NONE", "PROPOSED"}
  /\ x.st = "PROPOSED" => y.run = x.run
  /\ \/ y.st \in {"PROPOSED", "DENIED"} /\ y.permit \in {None, x.permit}
     \/ /\ y.st = "AUTHORIZED" /\ y.permit # None
        /\ Gate[y.permit.pol][y.op] = "review" => y.review = "ALLOW"
        /\ y.of # None => y.of \in Ids /\ eff[y.of].st = "COMMITTED"
        /\ y.of = None => ~Stopped(y.run)

Progress == \A e \in Ids : Evolves(eff[e], eff'[e]) \/ DecidedFrom(eff[e], eff'[e])

LEMMA TransitionEvolves ==
  ASSUME NEW x \in Effects, NEW s \in Onward, s = "COMPENSATING" => x.of # None
  PROVE  TransitionTo(x, s) \in Effects /\ Evolves(x, TransitionTo(x, s))
<1>1. TransitionTo(x, s) \in Effects
  BY TransitionType DEF Onward, States
<1>2. CASE s \in Allowed[x.st]
  <2>1. x.st \in Open
    BY <1>2 DEF Allowed, Effects, States, Open, Onward
  <2>2. TransitionTo(x, s) = [x EXCEPT !.st = s]
    BY <1>2 DEF TransitionTo
  <2>3. QED
    BY <1>1, <2>1, <2>2 DEF Evolves, Effects
<1>3. CASE s \notin Allowed[x.st]
  BY <1>1, <1>3 DEF TransitionTo, Evolves
<1>4. QED
  BY <1>1, <1>2, <1>3

\* A record that is staged and then sent moves twice in one critical section.
LEMMA EvolvesTwice ==
  ASSUME NEW x, NEW y, NEW z, Evolves(x, y), Evolves(y, z)
  PROVE  Evolves(x, z)
BY DEF Evolves

LEMMA FinishEvolves ==
  ASSUME IInv, NEW e \in Ids, NEW x, Evolves(eff[e], x), Finish(e, x)
  PROVE  Evolves(eff[e], eff'[e])
BY DEF Finish, IInv, TypeOK

LEMMA SendEvolves ==
  ASSUME IInv, NEW e \in Ids, NEW x \in Effects, NEW who, Evolves(eff[e], x), Send(e, x, who)
  PROVE  Evolves(eff[e], eff'[e])
<1> DEFINE y == TransitionTo(x, IF x.of = None THEN "COMMITTING" ELSE "COMPENSATING")
<1>1. Evolves(x, y)
  BY TransitionEvolves DEF Onward
<1>2. Evolves(eff[e], y)
  BY <1>1, EvolvesTwice
<1>3. eff'[e] = y
  BY DEF Send, IInv, TypeOK
<1>4. QED
  BY <1>2, <1>3

LEMMA StaysEvolves ==
  ASSUME NEW x
  PROVE  Evolves(x, x)
BY DEF Evolves

LEMMA AfterVerifyEvolves ==
  ASSUME IInv, NEW e \in Ids, NEW who, AfterVerify(e, who)
  PROVE  Evolves(eff[e], eff'[e])
<1>1. CASE eff' = eff
  BY <1>1, StaysEvolves
<1>2. CASE Send(e, eff[e], who)
  BY <1>2, StaysEvolves, SendEvolves DEF IInv, TypeOK
<1>3. QED
  BY <1>1, <1>2 DEF AfterVerify, Wait

LEMMA StartCommitEvolves ==
  ASSUME IInv, NEW e \in Ids, NEW who, StartCommit(e, who)
  PROVE  Evolves(eff[e], eff'[e])
<1>1. CASE eff' = eff
  BY <1>1, StaysEvolves
<1>2. CASE AfterVerify(e, who)
  BY <1>2, AfterVerifyEvolves
<1>3. CASE /\ Fate(eff[e]) # "DISPATCH"
           /\ eff' = [eff EXCEPT ![e] = TransitionTo(eff[e], Fate(eff[e]))]
  <2>1. Fate(eff[e]) \in Onward /\ Fate(eff[e]) # "COMPENSATING"
    BY <1>3 DEF Fate, Onward
  <2>2. eff[e] \in Effects /\ eff'[e] = TransitionTo(eff[e], Fate(eff[e]))
    BY <1>3 DEF IInv, TypeOK
  <2>3. QED
    BY <2>1, <2>2, TransitionEvolves
<1>4. QED
  BY <1>1, <1>2, <1>3 DEF StartCommit, AfterChecks, Wait

LEMMA ReceiptEvolves ==
  ASSUME NEW x \in Effects
  PROVE  Evolves(x, Receipted(x))
<1> DEFINE y == TransitionTo(x, "COMMITTED")
<1>1. y \in Effects /\ Evolves(x, y)
  BY TransitionEvolves DEF Onward
<1>2. Receipted(x) = [y EXCEPT !.receipt = TRUE]
  BY DEF Receipted
<1> HIDE DEF y
<1>3. Evolves(y, Receipted(x))
  BY <1>1, <1>2 DEF Evolves, Effects
<1>4. QED
  BY <1>1, <1>3, EvolvesTwice

LEMMA CallReturnsEvolves ==
  ASSUME IInv, NEW e \in Ids, CallReturns(e)
  PROVE  Evolves(eff[e], eff'[e])
<1>0. eff[e] \in Effects
  BY DEF IInv, TypeOK
<1>1. \A s \in Onward \ {"COMPENSATING"} : Finish(e, TransitionTo(eff[e], s)) => Evolves(eff[e], eff'[e])
  BY <1>0, TransitionEvolves, FinishEvolves
<1>2. Finish(e, Receipted(eff[e])) => Evolves(eff[e], eff'[e])
  BY <1>0, ReceiptEvolves, FinishEvolves
<1>3. Finish(e, eff[e]) => Evolves(eff[e], eff'[e])
  BY StaysEvolves, FinishEvolves
<1>4. CASE VerifyReturns(e)
  BY <1>1, <1>4, AfterVerifyEvolves DEF VerifyReturns, Onward
<1>5. CASE PrepareReturns(e)
  <2>1. /\ TransitionTo(eff[e], "PREPARED") \in Effects
        /\ Evolves(eff[e], TransitionTo(eff[e], "PREPARED"))
    BY <1>0, TransitionEvolves DEF Onward
  <2>2. Send(e, TransitionTo(eff[e], "PREPARED"), call[e].by) => Evolves(eff[e], eff'[e])
    BY <2>1, SendEvolves
  <2>3. QED
    BY <1>1, <1>5, <2>2 DEF PrepareReturns, Onward
<1>6. ASSUME NEW l \in BOOLEAN, SendReturns(e, l) PROVE Evolves(eff[e], eff'[e])
  BY <1>1, <1>2, <1>6 DEF SendReturns, TimedOut, Onward
<1>7. CASE ReadReturns(e)
  BY <1>1, <1>2, <1>3, <1>7 DEF ReadReturns, Onward
<1>8. QED
  BY <1>4, <1>5, <1>6, <1>7 DEF CallReturns

\* A decision reads the gate, the review and the original in one critical section.
LEMMA DecideFrom ==
  ASSUME IInv, NEW x \in Effects, NEW n \in BOOLEAN, x.st = "PROPOSED",
         x.review \in {"none", "ALLOW"}, x.run \in Runs, x.op \in Ops, NEW w,
         w.st = "NONE" \/ (w.st = "PROPOSED" /\ x.run = w.run), x.permit \in {None, w.permit}
  PROVE  DecidedFrom(w, Decide(x, n))
<1> DEFINE p == [exp |-> PermitExpiry(x.run), pol |-> policy]
           y == Decide(x, n)
<1> SUFFICES DecidedFrom(w, y)
  OBVIOUS
<1>1. p \in Permits
  BY BrokerAssumption DEF PermitExpiry, WindowEnd, IInv, TypeOK, Permits
<1>2. p # None /\ p.pol = policy
  BY <1>1, RecordsAssumption DEF Permits
<1>3. CASE y = [x EXCEPT !.st = "DENIED"] \/ y = x
  BY <1>3 DEF DecidedFrom, Effects
<1>4. CASE /\ y = [x EXCEPT !.st = "AUTHORIZED", !.permit = p]
           /\ ~Denied(x) /\ ~(Gate[policy][x.op] = "review" /\ x.review = "none")
  <2>1. /\ y.st = "AUTHORIZED" /\ y.permit = p /\ y.op = x.op /\ y.review = x.review
        /\ y.of = x.of /\ y.run = x.run
    BY <1>4 DEF Effects
  <2>2. y.of # None => y.of \in Ids /\ eff[y.of].st = "COMMITTED"
    BY <1>4, <2>1 DEF Denied, TargetUnfit, Effects
  <2>3. Gate[y.permit.pol][y.op] = "review" => y.review = "ALLOW"
    BY <1>2, <1>4, <2>1
  <2>4. y.of = None => ~Stopped(y.run)
    BY <1>4, <2>1 DEF Denied
  <2> HIDE DEF y, p
  <2>5. QED
    BY <1>2, <2>1, <2>2, <2>3, <2>4 DEF DecidedFrom
<1>5. QED
  BY <1>3, <1>4 DEF Decide

LEMMA AuthorizeProgress ==
  ASSUME IInv, NEW e \in Proposals, NEW s \in Shapes, Authorize(e, s)
  PROVE  Progress
<1>0. e \in Ids /\ Proposals \subseteq Ids
  BY RecordsAssumption DEF Proposals, Ids
<1>1. /\ Proposed(s) \in Effects /\ Proposed(s).st = "PROPOSED" /\ Proposed(s).review = "none"
      /\ Proposed(s).permit = None /\ Proposed(s).run \in Runs /\ Proposed(s).op \in Ops
  BY <1>0, ProposedType DEF Shapes, Proposed, NoEffect
<1>2. PICK n \in BOOLEAN : eff' = [eff EXCEPT ![e] = Decide(Proposed(s), n)]
  BY DEF Authorize, Narrowing
<1>3. DecidedFrom(eff[e], Decide(Proposed(s), n))
  BY <1>1, DecideFrom DEF Authorize
<1>4. QED
  BY <1>0, <1>2, <1>3, StaysEvolves DEF Progress, IInv, TypeOK

LEMMA AttachReviewProgress ==
  ASSUME IInv, NEW e \in Ids, NEW v \in {"ALLOW", "DENY", "WATCH"}, AttachReview(e, v)
  PROVE  Progress
<1>1. /\ eff[e] \in Effects /\ eff[e].st = "PROPOSED" /\ eff[e].run \in Runs /\ eff[e].op \in Ops
  BY DEF AttachReview, Reviewable, IInv, TypeOK, WellFormed
<1>2. PICK n \in BOOLEAN : eff' = [eff EXCEPT ![e] = Reviewed(eff[e], v, n)]
  BY DEF AttachReview, Narrowing
<1> DEFINE w == [eff[e] EXCEPT !.review = v]
           y == Reviewed(eff[e], v, n)
<1>3. DecidedFrom(eff[e], y)
  <2>1. CASE v = "ALLOW"
    <3>1. y = Decide(w, n)
      BY <2>1 DEF Reviewed
    <3>2. w \in Effects /\ w.st = "PROPOSED" /\ w.run = eff[e].run /\ w.op = eff[e].op
          /\ w.review = v /\ w.permit = eff[e].permit
      BY <1>1 DEF Effects
    <3> HIDE DEF w, y
    <3>3. QED
      BY <1>1, <2>1, <3>1, <3>2, DecideFrom
  <2>2. CASE v # "ALLOW"
    BY <1>1, <2>2 DEF Reviewed, DecidedFrom, Effects
  <2>3. QED
    BY <2>1, <2>2
<1> HIDE DEF y
<1>4. eff' = [eff EXCEPT ![e] = y]
  BY <1>2 DEF y
<1>5. QED
  BY <1>3, <1>4, StaysEvolves DEF Progress, IInv, TypeOK

LEMMA CompensateProgress ==
  ASSUME IInv, NEW r \in Runs, NEW e \in Proposals, NEW op \in Ops, StopCompensate(r, e, op)
  PROVE  Progress
<1> DEFINE p == Proposed(CompensationShape(r, op, e))
           y == Decide(p, FALSE)
<1>0. StopId(e) \in Ids /\ e \in Ids
  BY RecordsAssumption DEF Proposals, Ids, StopId
<1>1. /\ p \in Effects /\ p.st = "PROPOSED" /\ p.run = r /\ p.op = op /\ p.review = "none"
      /\ p.permit = None
  BY <1>0, ProposedType DEF CompensationShape, Proposed, NoEffect
<1>2. \/ eff' = eff
      \/ eff[StopId(e)].st = "NONE" /\ eff' = [eff EXCEPT ![StopId(e)] = y]
  BY DEF StopCompensate
<1> HIDE DEF p
<1>3. eff[StopId(e)].st = "NONE" => DecidedFrom(eff[StopId(e)], y)
  BY <1>1, DecideFrom
<1> HIDE DEF y
<1>4. QED
  BY <1>0, <1>2, <1>3, StaysEvolves DEF Progress, IInv, TypeOK

LEMMA SweepProgress ==
  ASSUME IInv, NEW r \in Runs, StopSweep(r)
  PROVE  Progress
<1> SUFFICES ASSUME NEW e \in Ids PROVE Evolves(eff[e], eff'[e])
  BY DEF Progress
<1>1. eff[e] \in Effects
  BY DEF IInv, TypeOK
<1>2. Evolves(eff[e], Swept(eff[e]))
  BY <1>1, TransitionEvolves, StaysEvolves DEF Swept, Onward
<1>3. QED
  BY <1>2, StaysEvolves DEF StopSweep

LEMMA OneProgress ==
  ASSUME IInv, NEW e \in Ids, Touches(e), Evolves(eff[e], eff'[e])
  PROVE  Progress
BY StaysEvolves DEF Touches, Progress

LEMMA NoProgress ==
  ASSUME eff' = eff
  PROVE  Progress
BY StaysEvolves DEF Progress

LEMMA DispatchProgress ==
  ASSUME IInv, NEW e \in Ids, CallReturns(e) \/ \E who \in {"client", "stop"} : StartCommit(e, who)
  PROVE  Progress
<1>1. CASE CallReturns(e)
  <2>1. Touches(e)
    BY <1>1, CallReturnsInv DEF CallReturns, VerifyReturns, PrepareReturns, SendReturns,
       ReadReturns, IInv, WellFormed
  <2>2. QED
    BY <1>1, <2>1, CallReturnsEvolves, OneProgress
<1>2. ASSUME NEW who \in {"client", "stop"}, StartCommit(e, who) PROVE Progress
  BY <1>2, StartCommitTouches, StartCommitEvolves, OneProgress
<1>3. QED
  BY <1>1, <1>2

LEMMA NextProgress == IInv /\ [Next]_vars => Progress
<1> SUFFICES ASSUME IInv, [Next]_vars PROVE Progress
  OBVIOUS
<1>1. ASSUME NEW e \in Proposals, NEW s \in Offered[e], Authorize(e, s) PROVE Progress
  BY <1>1, AuthorizeProgress, BrokerAssumption
<1>2. ASSUME NEW e \in Ids, NEW v \in {"ALLOW", "DENY", "WATCH"}, AttachReview(e, v)
      PROVE  Progress
  BY <1>2, AttachReviewProgress
<1>3. ASSUME NEW e \in Ids, Commit(e) \/ CallReturns(e) PROVE Progress
  BY <1>3, DispatchProgress DEF Commit
<1>4. ASSUME NEW r \in Runs, StopStep(r) PROVE Progress
  <2>1. CASE StopCollect(r) \/ StopOutcome(r) \/ StopInventory(r)
             \/ \E v \in Verdicts, named \in SUBSET Artifacts : StopRecord(r, v, named)
    BY <2>1, NoProgress DEF StopCollect, StopOutcome, StopInventory, StopRecord
  <2>2. ASSUME NEW e \in Ids, StopRead(r, e) PROVE Progress
    BY <2>2, NoProgress DEF StopRead, Wait
  <2>3. CASE StopCommit(r)
    <3>1. stop[r].cur \in Ids
      BY <2>3 DEF StopCommit, IInv, TypeOK, Stops
    <3>2. QED
      BY <2>3, <3>1, DispatchProgress, NoProgress DEF StopCommit
  <2>4. QED
    BY <1>3, <1>4, <2>1, <2>2, <2>3, SweepProgress, CompensateProgress DEF StopStep
<1>5. CASE eff' = eff
  BY <1>5, NoProgress
<1>6. QED
  BY <1>1, <1>2, <1>3, <1>4, <1>5 DEF Next, StopOrder, ToggleFence, ReplacePolicy,
     RevokeDelegation, Tick, vars

-------------------------------------------------------------------------------
(* Permits and compensations                                                 *)

\* A permit was released by its review; an effect not yet decided holds none; a
\* compensation that was decided for names an original on record as committed.
DecisionInv ==
  \A e \in Ids :
    /\ eff[e].st \in {"NONE", "PROPOSED", "DENIED"} => eff[e].permit = None
    /\ eff[e].permit # None =>
         (Gate[eff[e].permit.pol][eff[e].op] = "review" => eff[e].review = "ALLOW")
    /\ eff[e].st \notin {"NONE", "PROPOSED", "DENIED"} /\ eff[e].of # None =>
         eff[e].of \in Ids /\ eff[eff[e].of].st = "COMMITTED"

LEMMA CommittedStays ==
  ASSUME Progress, NEW e \in Ids, eff[e].st = "COMMITTED"
  PROVE  eff'[e].st = "COMMITTED"
BY DEF Progress, Evolves, DecidedFrom, Open

LEMMA NextDecision == IInv /\ DecisionInv /\ [Next]_vars => DecisionInv'
<1> SUFFICES ASSUME IInv, DecisionInv, [Next]_vars, NEW e \in Ids
             PROVE  /\ eff'[e].st \in {"NONE", "PROPOSED", "DENIED"} => eff'[e].permit = None
                    /\ eff'[e].permit # None =>
                         (Gate[eff'[e].permit.pol][eff'[e].op] = "review" =>
                            eff'[e].review = "ALLOW")
                    /\ eff'[e].st \notin {"NONE", "PROPOSED", "DENIED"} /\ eff'[e].of # None =>
                         eff'[e].of \in Ids /\ eff'[eff'[e].of].st = "COMMITTED"
  BY DEF DecisionInv
<1>1. Progress
  BY NextProgress
<1>2. CASE Evolves(eff[e], eff'[e])
  <2>1. eff'[e].st \in {"NONE", "PROPOSED", "DENIED"} => eff[e].st = eff'[e].st
    BY <1>2 DEF Evolves, Onward
  <2>2. eff'[e].st \notin {"NONE", "PROPOSED", "DENIED"} =>
          eff[e].st \notin {"NONE", "PROPOSED", "DENIED"}
    BY <1>2 DEF Evolves, Open
  <2>3. QED
    BY <1>1, <1>2, <2>1, <2>2, CommittedStays DEF Evolves, DecisionInv
<1>3. CASE DecidedFrom(eff[e], eff'[e])
  BY <1>1, <1>3, CommittedStays DEF DecidedFrom, DecisionInv
<1>4. QED
  BY <1>1, <1>2, <1>3 DEF Progress

LEMMA Decisions == Spec => []DecisionInv
<1>1. Init => DecisionInv
  BY DEF Init, DecisionInv, NoEffect
<1>2. QED
  BY <1>1, NextDecision, Invariance, PTL DEF Spec

\* An operation that its policy puts under review never gets a permit without an
\* ALLOW on the record the permit was minted for (broker.go Authorize, AttachReview).
THEOREM PermitsReviewed == Spec => []PermitNeedsReview
<1>1. DecisionInv => PermitNeedsReview
  BY DEF DecisionInv, PermitNeedsReview
<1>2. QED
  BY <1>1, Decisions, PTL

\* A compensation was only ever sent against an original that is on record as
\* committed and that the destination did perform.
THEOREM CompensationsFollow == Spec => []CompensationFollowsCommit
<1>1. IInv /\ DecisionInv => CompensationFollowsCommit
  <2> SUFFICES ASSUME IInv, DecisionInv, NEW e \in Ids, sends[e] > 0, eff[e].of # None
               PROVE  eff[eff[e].of].st = "COMMITTED" /\ landed[eff[e].of]
    BY DEF CompensationFollowsCommit
  <2>1. eff[e].st \notin {"NONE", "PROPOSED", "DENIED"}
    BY DEF IInv, DispatchInv, Consistent
  <2>2. eff[e].of \in Ids /\ eff[eff[e].of].st = "COMMITTED"
    BY <2>1 DEF DecisionInv
  <2>3. QED
    BY <2>2 DEF IInv, DispatchInv, Consistent
<1>2. QED
  BY <1>1, Decisions, Invariance, PTL
=============================================================================
