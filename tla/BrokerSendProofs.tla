--------------------------- MODULE BrokerSendProofs ----------------------------
(***************************************************************************)
(* Proof that the broker implements SendOnce, for every number of effects, *)
(* runs, operations, delegations and policies: every critical section      *)
(* moves each effect along at most one edge of the abstract lifecycle.     *)
(***************************************************************************)
EXTENDS BrokerProofs

\* One effect's share of an abstract step, in the broker's own terms.
Edge(e) ==
  \/ Phase(e)' = Phase(e)
  \/ Phase(e) = "absent" /\ (Phase(e)' \in {"held", "dropped"} \/ (Phase(e)' = "granted" /\ ~Gone(e)'))
  \/ Phase(e) = "held" /\ Phase(e)' = "granted" /\ ~Gone(e)
  \/ Phase(e) \in {"held", "granted", "dispatching"} /\ Phase(e)' = "dropped"
  \/ Phase(e) = "granted" /\ Phase(e)' \in {"dispatching", "sent"} /\ ~Gone(e)
  \/ Phase(e) = "dispatching" /\ Phase(e)' = "sent"
  \/ Phase(e) = "sent" /\ Phase(e)' \in {"performed", "failed"}

Advances(e) ==
  /\ Edge(e)
  /\ \/ Told(e)' = Told(e)
     \/ Told(e) = "open" /\ Told(e)' = "committed" /\ Phase(e)' = "performed"
     \/ Told(e) = "open" /\ Told(e)' = "over" /\ Phase(e)' # "held"
  /\ Gone(e) => Gone(e)'

\* When every effect does its share, the mapped variables take an abstract step.
LEMMA AllAdvance ==
  ASSUME \A e \in Ids : Advances(e)
  PROVE  Once!SendOnceNext
<1> SUFFICES ASSUME NEW e \in Ids
             PROVE  Once!Moves(e) /\ Once!Tells(e) /\ Once!Withdraws(e)
  BY DEF Once!SendOnceNext
<1>1. Advances(e)
  OBVIOUS
<1>2. Once!Moves(e)
  BY <1>1 DEF Advances, Edge, Gone, Once!Moves, Once!Propose, Once!Release, Once!Drop, Once!Begin,
     Once!Send, Once!Settle
<1>3. Once!Tells(e)
  BY <1>1 DEF Advances, Once!Tells
<1>4. Once!Withdraws(e)
  BY <1>1 DEF Advances, Gone, Once!Withdraws
<1>5. QED
  BY <1>2, <1>3, <1>4

\* An effect nothing happened to, but for a revocation elsewhere in the tree.
Untouched(e) ==
  eff'[e] = eff[e] /\ call'[e] = call[e] /\ sends'[e] = sends[e] /\ landed'[e] = landed[e]

LEMMA UntouchedAdvances ==
  ASSUME NEW e \in Ids, Untouched(e), revoked \subseteq revoked'
  PROVE  Advances(e)
BY DEF Untouched, Advances, Edge, Phase, Told, Gone, ChainActive

\* A step that leaves every effect alone.
LEMMA AllUntouched ==
  ASSUME UNCHANGED <<eff, call, sends, landed>>, revoked \subseteq revoked'
  PROVE  \A e \in Ids : Advances(e)
BY UntouchedAdvances DEF Untouched

\* A step of one effect.
LEMMA OneAdvances ==
  ASSUME NEW e \in Ids, Advances(e), \A i \in Ids \ {e} : Untouched(i), revoked' = revoked
  PROVE  \A i \in Ids : Advances(i)
BY UntouchedAdvances

-------------------------------------------------------------------------------
(* Decisions *)

LEMMA DecidedAdvances ==
  ASSUME IInv, NEW e \in Ids, NEW x \in Effects, eff[e].st \in {"NONE", "PROPOSED"},
         x.st \in {"PROPOSED", "DENIED", "AUTHORIZED"}, eff[e].st = "PROPOSED" => x.del = eff[e].del,
         x.st = "AUTHORIZED" => x.del = None \/ ChainActive(x.del),
         eff' = [eff EXCEPT ![e] = x], UNCHANGED <<revoked, call, sends, landed>>
  PROVE  \A i \in Ids : Advances(i)
<1>1. /\ eff'[e] = x /\ \A i \in Ids \ {e} : eff'[i] = eff[i]
      /\ sends[e] = 0 /\ ~landed[e] /\ call[e].pc = "idle"
  BY DEF IInv, TypeOK, DispatchInv, Consistent, Calls
<1>2. /\ Phase(e) = (IF eff[e].st = "NONE" THEN "absent" ELSE "held")
      /\ Phase(e)' = CASE x.st = "PROPOSED" -> "held" [] x.st = "DENIED" -> "dropped"
                       [] x.st = "AUTHORIZED" -> "granted"
  BY <1>1 DEF Phase
<1>3. Told(e) = "open" /\ Told(e)' = IF x.st = "DENIED" THEN "over" ELSE "open"
  BY <1>1 DEF Told, Final
<1>4. x.st = "AUTHORIZED" => ~Gone(e)'
  BY <1>1 DEF Gone, ChainActive
<1>5. Gone(e) => Gone(e)'
  BY <1>1 DEF Gone, ChainActive
<1>6. x.st = "AUTHORIZED" /\ eff[e].st = "PROPOSED" => ~Gone(e)
  BY DEF Gone
<1>7. Advances(e)
  BY <1>2, <1>3, <1>4, <1>5, <1>6 DEF Advances, Edge
<1>8. QED
  BY <1>1, <1>7, OneAdvances DEF Untouched

LEMMA AuthorizeAdvances ==
  ASSUME IInv, NEW e \in Proposals, NEW s \in Shapes, Authorize(e, s)
  PROVE  \A i \in Ids : Advances(i)
<1>0. e \in Ids /\ Proposals \subseteq Ids
  BY RecordsAssumption DEF Proposals, Ids
<1>1. /\ Proposed(s) \in Effects /\ Proposed(s).st = "PROPOSED"
      /\ Proposed(s).run \in Runs /\ Proposed(s).op \in Ops /\ Proposed(s).del = s.del
  BY <1>0, ProposedType DEF Shapes
<1>2. PICK n \in BOOLEAN : eff' = [eff EXCEPT ![e] = Decide(Proposed(s), n)]
  BY DEF Authorize, Narrowing
<1> DEFINE x == Decide(Proposed(s), n)
<1>3. /\ x \in Effects /\ x.st \in {"PROPOSED", "DENIED", "AUTHORIZED"} /\ x.del = Proposed(s).del
      /\ x.st = "AUTHORIZED" => ~Denied(Proposed(s))
  BY <1>1, DecideType DEF IInv
<1>4. x.st = "AUTHORIZED" => x.del = None \/ ChainActive(x.del)
  BY <1>3 DEF Denied
<1> HIDE DEF x
<1>5. eff' = [eff EXCEPT ![e] = x]
  BY <1>2 DEF x
<1>6. QED
  BY <1>0, <1>3, <1>4, <1>5, DecidedAdvances DEF Authorize, settings

LEMMA AttachReviewAdvances ==
  ASSUME IInv, NEW e \in Ids, NEW v \in {"ALLOW", "DENY", "WATCH"}, AttachReview(e, v)
  PROVE  \A i \in Ids : Advances(i)
<1>1. /\ eff[e] \in Effects /\ eff[e].st = "PROPOSED" /\ eff[e].run \in Runs /\ eff[e].op \in Ops
  BY DEF AttachReview, Reviewable, IInv, TypeOK, WellFormed
<1>2. PICK n \in BOOLEAN : eff' = [eff EXCEPT ![e] = Reviewed(eff[e], v, n)]
  BY DEF AttachReview, Narrowing
<1> DEFINE w == [eff[e] EXCEPT !.review = v]
           d == [eff[e] EXCEPT !.st = "DENIED", !.review = v]
<1>3. w \in Effects /\ w.st = "PROPOSED" /\ w.run = eff[e].run /\ w.op = eff[e].op /\ w.del = eff[e].del
  BY <1>1 DEF Effects
<1>4. d \in Effects /\ d.st = "DENIED" /\ d.del = eff[e].del
  BY <1>1 DEF Effects, States
<1>5. Reviewed(eff[e], v, n) = CASE v = "DENY" -> d [] v = "ALLOW" -> Decide(w, n) [] v = "WATCH" -> w
  BY DEF Reviewed
<1> HIDE DEF w, d
<1>6. /\ Decide(w, n) \in Effects /\ Decide(w, n).st \in {"PROPOSED", "DENIED", "AUTHORIZED"}
      /\ Decide(w, n).del = w.del /\ (Decide(w, n).st = "AUTHORIZED" => ~Denied(w))
  BY <1>1, <1>3, DecideType DEF IInv
<1> DEFINE y == Reviewed(eff[e], v, n)
<1>7. /\ y \in Effects /\ y.st \in {"PROPOSED", "DENIED", "AUTHORIZED"} /\ y.del = eff[e].del
      /\ y.st = "AUTHORIZED" => ~Denied(w)
  BY <1>3, <1>4, <1>5, <1>6
<1> HIDE DEF y
<1>8. y.st = "AUTHORIZED" => y.del = None \/ ChainActive(y.del)
  BY <1>3, <1>7 DEF Denied
<1>9. eff' = [eff EXCEPT ![e] = y]
  BY <1>2 DEF y
<1>10. QED
  BY <1>1, <1>7, <1>8, <1>9, DecidedAdvances DEF AttachReview, settings

-------------------------------------------------------------------------------
(* Dispatch *)

\* The send of an effect whose dispatch is under way, or begins now.
LEMMA SendAdvances ==
  ASSUME IInv, NEW e \in Ids, NEW x \in Effects, NEW who \in {"none", "client", "stop"},
         x.st \in {"AUTHORIZED", "PREPARED", "CANCELLED"}, x.del = eff[e].del,
         x.st = "CANCELLED" <=> eff[e].st = "CANCELLED",
         eff[e].st \in {"AUTHORIZED", "CANCELLED"}, sends[e] = 0,
         Phase(e) \in {"granted", "dispatching"}, Phase(e) = "granted" => ~Gone(e),
         Send(e, x, who), revoked' = revoked, landed' = landed
  PROVE  \A i \in Ids : Advances(i)
<1> DEFINE s == IF x.of = None THEN "COMMITTING" ELSE "COMPENSATING"
           y == TransitionTo(x, s)
<1>1. y.st = (IF x.st = "CANCELLED" THEN "CANCELLED" ELSE s) /\ y.del = x.del
  BY TransitionType, EdgeTable DEF States
<1>2. /\ eff'[e] = y /\ call'[e].pc = "send" /\ sends'[e] = 1
      /\ \A i \in Ids \ {e} : eff'[i] = eff[i] /\ call'[i] = call[i] /\ sends'[i] = sends[i]
  BY SendType DEF IInv, TypeOK
<1> HIDE DEF y
<1>3. Phase(e)' = "sent"
  BY <1>1, <1>2 DEF Phase
<1>4. Told(e)' = Told(e)
  BY <1>1, <1>2 DEF Told, Final
<1>5. Gone(e) => Gone(e)'
  BY <1>1, <1>2 DEF Gone, ChainActive
<1>6. Advances(e)
  BY <1>3, <1>4, <1>5 DEF Advances, Edge
<1>7. QED
  BY <1>2, <1>6, OneAdvances DEF Untouched

\* The record of an outstanding or a finished call is written, and nothing sent.
LEMMA FinishAdvances ==
  ASSUME IInv, NEW e \in Ids, NEW x \in Effects, Finish(e, x), x.del = eff[e].del,
         eff[e].st # "NONE", x.st # "NONE", revoked' = revoked,
         \A i \in Ids \ {e} : landed'[i] = landed[i],
         Edge(e), \/ Told(e)' = Told(e)
                  \/ Told(e) = "open" /\ Told(e)' = "committed" /\ Phase(e)' = "performed"
                  \/ Told(e) = "open" /\ Told(e)' = "over" /\ Phase(e)' # "held"
  PROVE  \A i \in Ids : Advances(i)
<1>1. /\ eff'[e] = x /\ sends' = sends
      /\ \A i \in Ids \ {e} : eff'[i] = eff[i] /\ call'[i] = call[i]
  BY FinishType DEF IInv
<1>2. Gone(e) => Gone(e)'
  BY <1>1 DEF Gone, ChainActive
<1>3. QED
  BY <1>1, <1>2, OneAdvances DEF Untouched, Advances

LEMMA WaitAdvances ==
  ASSUME IInv, NEW e \in Ids, NEW pc \in {"verify", "prepare", "read"},
         NEW who \in {"none", "client", "stop"}, Wait(e, pc, who), revoked' = revoked, landed' = landed,
         Edge(e)
  PROVE  \A i \in Ids : Advances(i)
<1>1. /\ eff' = eff /\ sends' = sends /\ \A i \in Ids \ {e} : call'[i] = call[i]
  BY WaitType DEF IInv
<1>2. Told(e)' = Told(e) /\ (Gone(e) => Gone(e)')
  BY <1>1 DEF Told, Gone, ChainActive
<1>3. QED
  BY <1>1, <1>2, OneAdvances DEF Untouched, Advances

LEMMA AfterVerifyAdvances ==
  ASSUME IInv, NEW e \in Ids, NEW who \in {"none", "client", "stop"},
         eff[e].st \in {"AUTHORIZED", "CANCELLED"}, sends[e] = 0,
         Phase(e) \in {"granted", "dispatching"}, Phase(e) = "granted" => ~Gone(e),
         AfterVerify(e, who), revoked' = revoked, landed' = landed
  PROVE  \A i \in Ids : Advances(i)
<1>1. CASE eff[e].op \in StagedOps /\ eff[e].st = "AUTHORIZED"
  <2>1. Wait(e, "prepare", who)
    BY <1>1 DEF AfterVerify
  <2>2. eff' = eff /\ sends' = sends /\ call'[e].pc = "prepare"
    BY <2>1, WaitType DEF IInv
  <2>3. Phase(e)' = "dispatching"
    BY <1>1, <2>2 DEF Phase
  <2>4. QED
    BY <2>1, <2>3, WaitAdvances DEF Edge
<1>2. CASE ~(eff[e].op \in StagedOps /\ eff[e].st = "AUTHORIZED")
  BY <1>2, SendAdvances DEF AfterVerify, IInv, TypeOK
<1>3. QED
  BY <1>1, <1>2

LEMMA StartCommitAdvances ==
  ASSUME IInv, NEW e \in Ids, NEW who \in {"none", "client", "stop"}, StartCommit(e, who),
         revoked' = revoked, landed' = landed
  PROVE  \A i \in Ids : Advances(i)
<1>0. /\ Consistent(eff[e], call[e], sends[e], landed[e]) /\ eff[e] \in Effects
      /\ call[e].pc = "idle" /\ sends[e] \in Nat
  BY DEF IInv, DispatchInv, TypeOK, StartCommit, Idle
<1>1. CASE eff[e].st = "AUTHORIZED" /\ Fate(eff[e]) = "DISPATCH" /\ AfterChecks(e, who)
  <2>1. sends[e] = 0 /\ Phase(e) = "granted"
    BY <1>0, <1>1 DEF Consistent, Phase
  <2>2. ~Gone(e)
    BY <1>1 DEF Fate, Gone
  <2>3. CASE eff[e].op \in VersionedOps
    <3>1. Wait(e, "verify", who)
      BY <1>1, <2>3 DEF AfterChecks
    <3>2. eff' = eff /\ sends' = sends /\ call'[e].pc = "verify"
      BY <3>1, WaitType DEF IInv
    <3>3. Phase(e)' = "dispatching"
      BY <1>1, <2>1, <3>2 DEF Phase
    <3>4. QED
      BY <2>1, <2>2, <3>1, <3>3, WaitAdvances DEF Edge
  <2>4. CASE eff[e].op \notin VersionedOps
    BY <1>1, <2>1, <2>2, <2>4, AfterVerifyAdvances DEF AfterChecks
  <2>5. QED
    BY <2>3, <2>4
<1>2. CASE /\ eff[e].st = "AUTHORIZED" /\ Fate(eff[e]) # "DISPATCH"
           /\ eff' = [eff EXCEPT ![e] = TransitionTo(eff[e], Fate(eff[e]))]
           /\ UNCHANGED <<call, sends>>
  <2>1. Fate(eff[e]) \in {"EXPIRED", "CANCELLED"}
    BY <1>2 DEF Fate
  <2> DEFINE y == TransitionTo(eff[e], Fate(eff[e]))
  <2>2. y.st \in {"EXPIRED", "CANCELLED"} /\ y.del = eff[e].del
    BY <1>0, <1>2, <2>1, TransitionType, EdgeTable DEF States
  <2>3. eff'[e] = y /\ \A i \in Ids \ {e} : eff'[i] = eff[i]
    BY <1>2 DEF IInv, TypeOK
  <2> HIDE DEF y
  <2>4. Phase(e) = "granted" /\ Phase(e)' = "dropped"
    BY <1>0, <1>2, <2>2, <2>3 DEF Consistent, Phase
  <2>5. Told(e) = "open" /\ Told(e)' = "over" /\ (Gone(e) => Gone(e)')
    BY <1>2, <2>2, <2>3 DEF Told, Final, Gone, ChainActive
  <2>6. Advances(e)
    BY <2>4, <2>5 DEF Advances, Edge
  <2>7. QED
    BY <1>2, <2>3, <2>6, OneAdvances DEF Untouched
<1>3. CASE eff[e].st = "UNKNOWN" /\ Wait(e, "read", who)
  <2>1. eff' = eff /\ sends' = sends /\ call'[e].pc = "read"
    BY <1>3, WaitType DEF IInv
  <2>2. Phase(e)' = Phase(e)
    BY <1>0, <1>3, <2>1 DEF Phase
  <2>3. QED
    BY <1>3, <2>2, WaitAdvances DEF Edge
<1>4. QED
  BY <1>1, <1>2, <1>3 DEF StartCommit

LEMMA CommitAdvances ==
  ASSUME IInv, NEW e \in Ids, Commit(e)
  PROVE  \A i \in Ids : Advances(i)
BY StartCommitAdvances DEF Commit, settings

LEMMA VerifyAdvances ==
  ASSUME IInv, NEW e \in Ids, VerifyReturns(e)
  PROVE  \A i \in Ids : Advances(i)
<1> DEFINE y == TransitionTo(eff[e], "CANCELLED")
<1>0. /\ eff[e] \in Effects /\ eff[e].st \in {"AUTHORIZED", "CANCELLED"}
      /\ sends[e] = 0 /\ call[e].by \in {"none", "client", "stop"} /\ call[e].pc = "verify"
  BY DEF IInv, TypeOK, DispatchInv, Consistent, VerifyReturns, Calls
<1>1. Phase(e) = "dispatching"
  BY <1>0 DEF Phase
<1>2. revoked' = revoked /\ landed' = landed
  BY DEF VerifyReturns, settings
<1>3. CASE AfterVerify(e, call[e].by)
  BY <1>0, <1>1, <1>2, <1>3, AfterVerifyAdvances
<1>4. CASE Finish(e, y)
  <2>1. y \in Effects /\ y.st = "CANCELLED" /\ y.del = eff[e].del
    BY <1>0, TransitionType, EdgeTable DEF States
  <2> HIDE DEF y
  <2>2. eff'[e] = y /\ sends' = sends /\ call'[e].pc = "idle"
    BY <1>4, <2>1, FinishType DEF IInv, Idle
  <2>3. Phase(e)' = "dropped"
    BY <1>0, <2>1, <2>2 DEF Phase
  <2>4. Told(e) \in {"open", "over"} /\ Told(e)' = "over"
    BY <1>0, <2>1, <2>2 DEF Told, Final
  <2>5. QED
    BY <1>0, <1>1, <1>2, <1>4, <2>1, <2>3, <2>4, FinishAdvances DEF Edge
<1>5. QED
  BY <1>3, <1>4 DEF VerifyReturns

LEMMA PrepareAdvances ==
  ASSUME IInv, NEW e \in Ids, PrepareReturns(e)
  PROVE  \A i \in Ids : Advances(i)
<1> DEFINE p == TransitionTo(eff[e], "PREPARED")
<1>0. /\ eff[e] \in Effects /\ eff[e].st \in {"AUTHORIZED", "CANCELLED"}
      /\ sends[e] = 0 /\ call[e].by \in {"none", "client", "stop"} /\ call[e].pc = "prepare"
  BY DEF IInv, TypeOK, DispatchInv, Consistent, PrepareReturns, Calls
<1>1. Phase(e) = "dispatching"
  BY <1>0 DEF Phase
<1>2. revoked' = revoked /\ landed' = landed
  BY DEF PrepareReturns, settings
<1>3. CASE Send(e, p, call[e].by)
  <2>1. /\ p \in Effects /\ p.st = (IF eff[e].st = "CANCELLED" THEN "CANCELLED" ELSE "PREPARED")
        /\ p.del = eff[e].del
    BY <1>0, TransitionType, EdgeTable DEF States
  <2> HIDE DEF p
  <2>2. QED
    BY <1>0, <1>1, <1>2, <1>3, <2>1, SendAdvances
<1>4. ASSUME NEW s \in {"CANCELLED", "UNKNOWN"}, Finish(e, TransitionTo(eff[e], s))
      PROVE  \A i \in Ids : Advances(i)
  <2> DEFINE y == TransitionTo(eff[e], s)
  <2>1. /\ y \in Effects /\ y.st \in {"CANCELLED", "UNKNOWN"} /\ y.del = eff[e].del
        /\ eff[e].st = "CANCELLED" => y.st = "CANCELLED"
    BY <1>0, TransitionType, EdgeTable DEF States
  <2>2. Finish(e, y)
    BY <1>4
  <2> HIDE DEF y
  <2>3. eff'[e] = y /\ sends' = sends /\ call'[e].pc = "idle"
    BY <2>1, <2>2, FinishType DEF IInv, Idle
  <2>4. Phase(e)' = "dropped"
    BY <1>0, <2>1, <2>3 DEF Phase
  <2>5. Told(e)' = Told(e) \/ (Told(e) = "open" /\ Told(e)' = "over")
    BY <1>0, <2>1, <2>3 DEF Told, Final
  <2>6. QED
    BY <1>0, <1>1, <1>2, <2>1, <2>2, <2>4, <2>5, FinishAdvances DEF Edge
<1>5. QED
  BY <1>3, <1>4 DEF PrepareReturns

\* What settles the record of an outstanding call, when happened is what the
\* destination says.
Settlement(e, y, happened) ==
  /\ y \in Effects /\ Finish(e, y) /\ y.del = eff[e].del
  /\ y.st \in {"COMMITTED", "CANCELLED", "UNKNOWN"}
  /\ eff[e].st = "CANCELLED" => y.st = "CANCELLED"
  /\ y.st = "COMMITTED" => happened

LEMMA SendReturnsAdvances ==
  ASSUME IInv, NEW e \in Ids, NEW l \in BOOLEAN, SendReturns(e, l)
  PROVE  \A i \in Ids : Advances(i)
<1>0. /\ eff[e] \in Effects /\ sends[e] = 1 /\ call[e].pc = "send"
      /\ eff[e].st \in {"COMMITTING", "COMPENSATING", "UNKNOWN", "CANCELLED"}
  BY DEF IInv, TypeOK, DispatchInv, Consistent, SendReturns
<1>1. revoked' = revoked /\ landed'[e] = l /\ \A i \in Ids \ {e} : landed'[i] = landed[i]
  BY DEF SendReturns, settings, IInv, TypeOK
<1>2. \E y : Settlement(e, y, l)
  <2>1. CASE l /\ Finish(e, Receipted(eff[e]))
    <3> DEFINE y == Receipted(eff[e])
    <3>1. /\ y \in Effects /\ y.del = eff[e].del /\ y.st \in {"COMMITTED", "CANCELLED"}
          /\ eff[e].st = "CANCELLED" => y.st = "CANCELLED"
      BY <1>0, ReceiptedType, EdgeTable
    <3> HIDE DEF y
    <3>2. Finish(e, y)
      BY <2>1 DEF y
    <3>3. QED
      BY <2>1, <3>1, <3>2 DEF Settlement
  <2>2. ASSUME NEW s \in {"CANCELLED", "UNKNOWN"}, Finish(e, TransitionTo(eff[e], s))
        PROVE  \E y : Settlement(e, y, l)
    <3> DEFINE y == TransitionTo(eff[e], s)
    <3>1. /\ y \in Effects /\ y.del = eff[e].del /\ y.st \in {"CANCELLED", "UNKNOWN"}
          /\ eff[e].st = "CANCELLED" => y.st = "CANCELLED"
      BY <1>0, TransitionType, EdgeTable DEF States
    <3>2. Finish(e, y)
      BY <2>2
    <3> HIDE DEF y
    <3>3. QED
      BY <3>1, <3>2 DEF Settlement
  <2>3. QED
    BY <2>1, <2>2 DEF SendReturns, TimedOut
<1>3. PICK y \in Effects : Settlement(e, y, l)
  BY <1>2 DEF Settlement
<1>4. eff'[e] = y /\ sends' = sends /\ call'[e].pc = "idle"
  BY <1>3, FinishType DEF Settlement, IInv, Idle
<1>5. Phase(e) = "sent" /\ Phase(e)' = IF l THEN "performed" ELSE "failed"
  BY <1>0, <1>1, <1>3, <1>4 DEF Settlement, Phase
<1>6. /\ Told(e)' = Told(e) \/ Told(e) = "open"
      /\ Told(e)' = IF y.st = "COMMITTED" THEN "committed"
                    ELSE IF y.st = "CANCELLED" THEN "over" ELSE "open"
  BY <1>0, <1>3, <1>4 DEF Settlement, Told, Final
<1>7. Edge(e)
  BY <1>5 DEF Edge
<1>8. \/ Told(e)' = Told(e)
      \/ Told(e) = "open" /\ Told(e)' = "committed" /\ Phase(e)' = "performed"
      \/ Told(e) = "open" /\ Told(e)' = "over" /\ Phase(e)' # "held"
  BY <1>3, <1>5, <1>6 DEF Settlement
<1>9. QED
  BY <1>0, <1>1, <1>3, <1>7, <1>8, FinishAdvances DEF Settlement

LEMMA ReadAdvances ==
  ASSUME IInv, NEW e \in Ids, ReadReturns(e)
  PROVE  \A i \in Ids : Advances(i)
<1>0. /\ eff[e] \in Effects /\ eff[e].st = "UNKNOWN" /\ call[e].pc = "read"
      /\ sends[e] \in Nat /\ (landed[e] => sends[e] = 1)
  BY DEF IInv, TypeOK, DispatchInv, Consistent, ReadReturns
<1>1. revoked' = revoked /\ landed' = landed
  BY DEF ReadReturns, settings
<1>2. \E y : Settlement(e, y, landed[e])
  <2>1. CASE landed[e] /\ Finish(e, Receipted(eff[e]))
    <3> DEFINE y == Receipted(eff[e])
    <3>1. y \in Effects /\ y.del = eff[e].del /\ y.st = "COMMITTED"
      BY <1>0, ReceiptedType, EdgeTable
    <3> HIDE DEF y
    <3>2. Finish(e, y)
      BY <2>1 DEF y
    <3>3. QED
      BY <1>0, <2>1, <3>1, <3>2 DEF Settlement
  <2>2. CASE Finish(e, TransitionTo(eff[e], "CANCELLED"))
    <3> DEFINE y == TransitionTo(eff[e], "CANCELLED")
    <3>1. y \in Effects /\ y.del = eff[e].del /\ y.st = "CANCELLED"
      BY <1>0, TransitionType, EdgeTable DEF States
    <3>2. Finish(e, y)
      BY <2>2
    <3> HIDE DEF y
    <3>3. QED
      BY <3>1, <3>2 DEF Settlement
  <2>3. CASE Finish(e, eff[e])
    BY <1>0, <2>3 DEF Settlement
  <2>4. QED
    BY <2>1, <2>2, <2>3 DEF ReadReturns
<1>3. PICK y \in Effects : Settlement(e, y, landed[e])
  BY <1>2 DEF Settlement
<1>4. eff'[e] = y /\ sends' = sends /\ call'[e].pc = "idle"
  BY <1>3, FinishType DEF Settlement, IInv, Idle
<1>5. Phase(e)' = Phase(e) /\ (landed[e] => Phase(e)' = "performed") /\ Phase(e)' # "held"
  BY <1>0, <1>1, <1>3, <1>4 DEF Settlement, Phase
<1>6. Told(e) = "open" /\ Told(e)' = (IF y.st = "COMMITTED" THEN "committed"
                                      ELSE IF y.st = "CANCELLED" THEN "over" ELSE "open")
  BY <1>0, <1>3, <1>4 DEF Settlement, Told, Final
<1>7. QED
  BY <1>0, <1>1, <1>3, <1>5, <1>6, FinishAdvances DEF Settlement, Edge

LEMMA CallReturnsAdvances ==
  ASSUME IInv, NEW e \in Ids, CallReturns(e)
  PROVE  \A i \in Ids : Advances(i)
BY VerifyAdvances, PrepareAdvances, SendReturnsAdvances, ReadAdvances DEF CallReturns

-------------------------------------------------------------------------------
(* The stop protocol *)

\* A sweep ends authority and opens outcomes; it moves nothing that was sent.
LEMMA SweptAdvances ==
  ASSUME IInv, NEW e \in Ids, eff'[e] \in {eff[e], Swept(eff[e])},
         UNCHANGED <<revoked, call, sends, landed>>
  PROVE  Advances(e)
<1>0. eff[e] \in Effects /\ Consistent(eff[e], call[e], sends[e], landed[e])
  BY DEF IInv, TypeOK, DispatchInv
<1>1. CASE eff'[e] = eff[e]
  BY <1>1, UntouchedAdvances DEF Untouched
<1>2. CASE eff'[e] # eff[e] /\ eff[e].st = "AUTHORIZED"
  <2>1. eff'[e].st = "CANCELLED" /\ eff'[e].del = eff[e].del
    BY <1>0, <1>2, TransitionType, EdgeTable DEF States, Swept
  <2>2. \/ Phase(e) = "granted" /\ Phase(e)' = "dropped"
        \/ Phase(e) = "dispatching" /\ Phase(e)' = "dispatching"
    BY <1>0, <1>2, <2>1 DEF Consistent, Phase
  <2>3. Told(e) = "open" /\ Told(e)' = "over" /\ (Gone(e) => Gone(e)')
    BY <1>2, <2>1 DEF Told, Final, Gone, ChainActive
  <2>4. QED
    BY <2>2, <2>3 DEF Advances, Edge
<1>3. CASE eff'[e] # eff[e] /\ eff[e].st \in {"COMMITTING", "COMPENSATING"}
  <2>1. eff'[e].st = "UNKNOWN" /\ eff'[e].del = eff[e].del
    BY <1>0, <1>3, TransitionType, EdgeTable DEF States, Swept
  <2>2. Phase(e)' = Phase(e)
    BY <1>0, <1>3, <2>1 DEF Consistent, Phase
  <2>3. Told(e)' = Told(e) /\ (Gone(e) => Gone(e)')
    BY <1>3, <2>1 DEF Told, Final, Gone, ChainActive
  <2>4. QED
    BY <2>2, <2>3 DEF Advances, Edge
<1>4. QED
  BY <1>1, <1>2, <1>3 DEF Swept

LEMMA StopSweepAdvances ==
  ASSUME IInv, NEW r \in Runs, StopSweep(r)
  PROVE  \A e \in Ids : Advances(e)
<1> SUFFICES ASSUME NEW e \in Ids PROVE Advances(e)
  OBVIOUS
<1>1. eff'[e] \in {eff[e], Swept(eff[e])}
  BY DEF StopSweep
<1>2. QED
  BY <1>1, SweptAdvances DEF StopSweep, settings

LEMMA StopReadAdvances ==
  ASSUME IInv, NEW r \in Runs, NEW e \in Ids, StopRead(r, e)
  PROVE  \A i \in Ids : Advances(i)
<1>1. CASE call[e] = Idle /\ eff[e].st = "UNKNOWN" /\ Wait(e, "read", "stop")
  <2>1. eff' = eff /\ sends' = sends /\ call'[e].pc = "read"
    BY <1>1, WaitType DEF IInv
  <2>2. landed' = landed /\ revoked' = revoked
    BY DEF StopRead, settings
  <2>0. call[e].pc = "idle" /\ sends[e] \in Nat
    BY <1>1 DEF Idle, IInv, TypeOK
  <2>3. Phase(e)' = Phase(e)
    <3>1. CASE sends[e] = 0
      BY <1>1, <2>0, <2>1, <2>2, <3>1 DEF Phase
    <3>2. CASE sends[e] > 0
      BY <1>1, <2>0, <2>1, <2>2, <3>2 DEF Phase
    <3>3. QED
      BY <2>0, <3>1, <3>2
  <2>4. QED
    BY <1>1, <2>2, <2>3, WaitAdvances DEF Edge
<1>2. CASE UNCHANGED <<eff, call, sends>>
  BY <1>2, AllUntouched DEF StopRead, settings
<1>3. QED
  BY <1>1, <1>2 DEF StopRead

LEMMA StopCompensateAdvances ==
  ASSUME IInv, NEW r \in Runs, NEW e \in Proposals, NEW op \in Ops, StopCompensate(r, e, op)
  PROVE  \A i \in Ids : Advances(i)
<1> DEFINE target == eff[e].run = r /\ eff[e].st = "COMMITTED" /\ eff[StopId(e)].st = "NONE"
           p == Proposed(CompensationShape(r, op, e))
           y == Decide(p, FALSE)
<1>0. StopId(e) \in Ids /\ e \in Ids
  BY RecordsAssumption DEF Proposals, Ids, StopId
<1>1. eff' = (IF target THEN [eff EXCEPT ![StopId(e)] = y] ELSE eff)
      /\ UNCHANGED <<revoked, call, sends, landed>>
  BY DEF StopCompensate, settings
<1>2. p \in Effects /\ p.st = "PROPOSED" /\ p.run = r /\ p.op = op /\ p.del = None
  BY <1>0, ProposedType DEF CompensationShape
<1> HIDE DEF p
<1>3. y \in Effects /\ y.st \in {"PROPOSED", "DENIED", "AUTHORIZED"} /\ y.del = None
  BY <1>2, DecideType DEF IInv
<1> HIDE DEF y
<1>4. CASE ~target
  BY <1>1, <1>4, AllUntouched
<1>5. CASE target
  BY <1>0, <1>1, <1>3, <1>5, DecidedAdvances
<1>6. QED
  BY <1>4, <1>5

LEMMA StopCommitAdvances ==
  ASSUME IInv, NEW r \in Runs, StopCommit(r)
  PROVE  \A i \in Ids : Advances(i)
<1>1. stop[r].cur \in Ids
  BY DEF StopCommit, IInv, TypeOK, Stops
<1>2. landed' = landed /\ revoked' = revoked
  BY DEF StopCommit, settings
<1>3. CASE StartCommit(stop[r].cur, "stop")
  BY <1>1, <1>2, <1>3, StartCommitAdvances
<1>4. CASE UNCHANGED <<eff, call, sends>>
  BY <1>2, <1>4, AllUntouched
<1>5. QED
  BY <1>3, <1>4 DEF StopCommit

LEMMA StopStepAdvances ==
  ASSUME IInv, NEW r \in Runs, StopStep(r)
  PROVE  \A i \in Ids : Advances(i)
<1>1. CASE StopCollect(r)
  BY <1>1, AllUntouched DEF StopCollect, settings
<1>2. CASE StopOutcome(r)
  BY <1>2, AllUntouched DEF StopOutcome, settings
<1>3. CASE StopInventory(r)
  BY <1>3, AllUntouched DEF StopInventory, settings
<1>4. ASSUME NEW v \in Verdicts, NEW named \in SUBSET Artifacts, StopRecord(r, v, named)
      PROVE  \A i \in Ids : Advances(i)
  BY <1>4, AllUntouched DEF StopRecord, settings
<1>5. QED
  BY <1>1, <1>2, <1>3, <1>4, StopSweepAdvances, StopReadAdvances, StopCompensateAdvances,
     StopCommitAdvances, CallReturnsAdvances DEF StopStep

-------------------------------------------------------------------------------
(* The refinement *)

LEMMA NextAdvances ==
  ASSUME IInv, [Next]_vars
  PROVE  \A i \in Ids : Advances(i)
<1>1. ASSUME NEW e \in Proposals, NEW s \in Offered[e], Authorize(e, s)
      PROVE  \A i \in Ids : Advances(i)
  <2>1. s \in Shapes
    BY <1>1, BrokerAssumption
  <2>2. QED
    BY <1>1, <2>1, AuthorizeAdvances
<1>2. ASSUME NEW r \in Runs, NEW plans \in SUBSET Proposals, StopOrder(r, plans)
      PROVE  \A i \in Ids : Advances(i)
  BY <1>2, AllUntouched DEF StopOrder
<1>3. CASE ToggleFence \/ Tick \/ UNCHANGED vars
  BY <1>3, AllUntouched DEF ToggleFence, Tick, vars
<1>4. ASSUME NEW p \in Policies, ReplacePolicy(p) PROVE \A i \in Ids : Advances(i)
  BY <1>4, AllUntouched DEF ReplacePolicy
<1>5. ASSUME NEW d \in Delegations, RevokeDelegation(d) PROVE \A i \in Ids : Advances(i)
  BY <1>5, AllUntouched DEF RevokeDelegation
<1>6. QED
  BY <1>1, <1>2, <1>3, <1>4, <1>5, AttachReviewAdvances, CommitAdvances, CallReturnsAdvances,
     StopStepAdvances DEF Next

LEMMA InitRefines == Init => Once!SendOnceInit
<1> SUFFICES ASSUME Init PROVE Once!SendOnceInit
  OBVIOUS
<1>1. ASSUME NEW e \in Ids
      PROVE  Phase(e) = "absent" /\ Told(e) = "open" /\ Gone(e) = FALSE
  <2>1. eff[e].st = "NONE" /\ sends[e] = 0 /\ call[e].pc = "idle"
    BY DEF Init, NoEffect, Idle
  <2>2. Phase(e) = "absent"
    BY <2>1 DEF Phase
  <2>3. Told(e) = "open" /\ Gone(e) = FALSE
    BY <2>1 DEF Told, Gone, Final
  <2>4. QED
    BY <2>2, <2>3
<1>2. [e \in Ids |-> Phase(e)] = [e \in Ids |-> "absent"]
  BY <1>1
<1>3. [e \in Ids |-> Told(e)] = [e \in Ids |-> "open"]
  BY <1>1
<1>4. [e \in Ids |-> Gone(e)] = [e \in Ids |-> FALSE]
  BY <1>1, Zenon
<1>5. QED
  BY <1>2, <1>3, <1>4 DEF Once!SendOnceInit

LEMMA StepRefines ==
  IInv /\ [Next]_vars =>
    [Once!SendOnceNext]_<<[e \in Ids |-> Phase(e)], [e \in Ids |-> Told(e)], [e \in Ids |-> Gone(e)]>>
BY NextAdvances, AllAdvance

\* The broker implements SendOnce (broker.go:637-867, delegation.go:290-335): for
\* every effect, authority is granted and dispatch begun only while its delegation
\* stands, the destination is asked once, and the record is closed once, with
\* "committed" only if it happened.
THEOREM ImplementsSendOnce == Spec => EffectsSendOnce
<1>1. Spec => []IInv
  BY Invariance
<1>2. QED
  BY <1>1, InitRefines, StepRefines, PTL DEF Spec, EffectsSendOnce, Once!SendOnceSpec
=============================================================================
