--------------------------- MODULE ReplyLedgerProofs ---------------------------
(***************************************************************************)
(* Proofs about ReplyLedger for every set of requests and bodies: replies  *)
(* fit the bodies they are given for, no waiter is forgotten, no channel   *)
(* is closed twice, the first reply stays, the API executes once.          *)
(***************************************************************************)
EXTENDS ReplyLedger, FiniteSetTheorems, TLAPS

\* The inductive invariant.
IInv == LedgerTypeOK /\ Ordered /\ ReplayFitsBody /\ NoLostWakeup /\ ClosedOnce

\* The empty ledger satisfies it.
LEMMA InitInv == LedgerInit => IInv
BY LedgerAssumption
   DEF LedgerInit, IInv, LedgerTypeOK, Progress, NoEntry, Ordered, ReplayFitsBody,
       NoLostWakeup, ClosedOnce, Seen

\* A step that moves one request and touches neither the key nor its channels.
LEMMA MoveKeeps ==
  ASSUME IInv, NEW q \in Requests, NEW x \in Progress,
         req[q].pc # "succeeded", x.pc \notin {"idle", "succeeded"},
         req' = [req EXCEPT ![q] = x],
         UNCHANGED <<front, entry, closed, mutated>>,
         x.pc = "waiting" => SameBody(q) /\ x.on = entry.by,
         x.pc = "failed" => req[q].pc = "executing",
         x.pc = "executing" => front = "plane",
         x.got = "replay" => \/ req[q].got = "replay" /\ x.from = req[q].from
                             \/ entry.settled /\ SameBody(q) /\ x.from = entry.reply
  PROVE  IInv'
<1>1. LedgerTypeOK'
  BY DEF IInv, LedgerTypeOK
<1>2. Ordered'
  BY LedgerAssumption DEF IInv, LedgerTypeOK, Ordered, Seen, SameBody
<1>3. ReplayFitsBody'
  BY DEF IInv, LedgerTypeOK, Ordered, ReplayFitsBody, SameBody, Reservations
<1>4. NoLostWakeup'
  BY DEF IInv, LedgerTypeOK, Ordered, NoLostWakeup, SameBody
<1>5. ClosedOnce'
  BY DEF IInv, ClosedOnce, Seen
<1>6. QED
  BY <1>1, <1>2, <1>3, <1>4, <1>5 DEF IInv

\* A claim is made on a free key, so every waiter's channel is closed already.
LEMMA ClaimKeeps ==
  ASSUME IInv, NEW q \in Requests, Claim(q)
  PROVE  IInv'
<1>1. /\ req[q].pc = "idle" /\ entry = NoEntry
      /\ entry' = [by |-> q, settled |-> FALSE, reply |-> None]
      /\ req' = [req EXCEPT ![q].pc = "executing", ![q].on = None]
      /\ UNCHANGED <<front, closed, mutated>>
  BY LedgerAssumption DEF Claim, Execute, Seen, IInv, LedgerTypeOK, Reservations
<1>2. LedgerTypeOK'
  BY <1>1 DEF IInv, LedgerTypeOK, Reservations, Progress
<1>3. Ordered'
  BY <1>1, LedgerAssumption DEF IInv, LedgerTypeOK, Ordered, Seen, SameBody, NoEntry, Progress
<1>4. ReplayFitsBody'
  BY <1>1 DEF IInv, LedgerTypeOK, ReplayFitsBody, Progress
<1>5. NoLostWakeup'
  BY <1>1 DEF IInv, LedgerTypeOK, Ordered, NoLostWakeup, NoEntry, Progress
<1>6. ClosedOnce'
  BY <1>1 DEF IInv, LedgerTypeOK, Ordered, ClosedOnce, Seen
<1>7. QED
  BY <1>2, <1>3, <1>4, <1>5, <1>6 DEF IInv

\* The end of an execution: what becomes of the key and of its waiters.
LEMMA FinishKeeps ==
  ASSUME IInv, NEW q \in Requests, Finish(q)
  PROVE  IInv'
<1>1. /\ req[q].pc \in {"succeeded", "failed"}
      /\ req' = [req EXCEPT ![q].pc = "done", ![q].on = None,
                            ![q].got = "own", ![q].from = q]
      /\ UNCHANGED <<front, mutated>>
  BY DEF Finish, Answer
<1>2. req' \in [Requests -> Progress]
  <2> DEFINE x == [req[q] EXCEPT !.pc = "done", !.on = None, !.got = "own", !.from = q]
  <2>1. req' = [req EXCEPT ![q] = x] /\ req[q] \in Progress /\ req \in [Requests -> Progress]
    BY <1>1 DEF IInv, LedgerTypeOK, Progress
  <2>2. x \in Progress
    BY <2>1 DEF Progress
  <2> HIDE DEF x
  <2>3. QED
    BY <2>1, <2>2
<1>3. ReplayFitsBody'
  BY <1>1 DEF IInv, LedgerTypeOK, ReplayFitsBody, Progress
<1>4. /\ req'[q].pc = "done" /\ req'[q].got = "own"
      /\ \A p \in Requests : p # q => req'[p] = req[p]
  BY <1>1 DEF IInv, LedgerTypeOK, Progress
<1>5. CASE Unsettled(q) /\ Settles(q)
  <2>1. /\ Seen /\ Digest[entry.by] = Digest[q] /\ ~entry.settled /\ entry \in Reservations
        /\ front = "plane" => q \in mutated
    BY <1>1, <1>5 DEF Unsettled, SameBody, Settles, IInv, LedgerTypeOK, Ordered, Seen, NoEntry
  <2>2. /\ entry' = [entry EXCEPT !.settled = TRUE, !.reply = q]
        /\ closed' = closed \cup {entry.by}
    BY <1>5 DEF Finish, Settled
  <2>3. entry' \in Reservations /\ entry'.settled /\ entry'.reply = q /\ entry'.by = entry.by
    BY <2>1, <2>2 DEF Reservations
  <2>4. LedgerTypeOK'
    BY <1>1, <1>2, <2>1, <2>2, <2>3 DEF IInv, LedgerTypeOK, Reservations
  <2>5. Ordered'
    BY <1>1, <1>4, <2>1, <2>2, <2>3, LedgerAssumption
       DEF IInv, LedgerTypeOK, Ordered, Seen, SameBody, Reservations
  <2>6. NoLostWakeup'
    BY <1>4, <2>2 DEF IInv, NoLostWakeup
  <2>7. ClosedOnce'
    BY <2>3 DEF ClosedOnce
  <2>8. QED
    BY <1>3, <2>4, <2>5, <2>6, <2>7 DEF IInv
<1>6. CASE Unsettled(q) /\ ~Settles(q)
  <2>1. Seen /\ ~entry.settled /\ entry \in Reservations /\ front = "plane"
    <3>1. Seen /\ ~entry.settled /\ front # "api"
      BY <1>6 DEF Unsettled, SameBody, Settles
    <3>2. QED
      BY <3>1, LedgerAssumption DEF IInv, LedgerTypeOK, Seen, NoEntry
  <2>2. entry' = NoEntry /\ closed' = closed \cup {entry.by}
    BY <1>6 DEF Finish, Removed
  <2>3. LedgerTypeOK'
    BY <1>1, <1>2, <2>1, <2>2 DEF IInv, LedgerTypeOK, Reservations
  <2>4. Ordered'
    <3>1. entry.by \in Requests /\ req[entry.by].pc # "idle"
      BY <2>1 DEF Reservations, IInv, Ordered
    <3>2. \A p \in closed' : req'[p].pc # "idle"
      BY <1>4, <2>1, <2>2, <3>1 DEF IInv, LedgerTypeOK, Ordered
    <3>3. \A p \in Requests : /\ req'[p].pc = "succeeded" => p \in mutated'
                              /\ req'[p].pc = "waiting" => req'[p].on # None
      BY <1>1, <1>4 DEF IInv, Ordered
    <3>4. QED
      BY <1>1, <2>1, <2>2, <3>2, <3>3 DEF Ordered, Seen, NoEntry
  <2>5. NoLostWakeup'
    BY <1>4, <2>2 DEF IInv, NoLostWakeup
  <2>6. ClosedOnce'
    BY <2>2 DEF ClosedOnce, Seen, NoEntry
  <2>7. QED
    BY <1>3, <2>3, <2>4, <2>5, <2>6 DEF IInv
<1>7. CASE ~Unsettled(q)
  <2>1. UNCHANGED <<entry, closed>>
    BY <1>7 DEF Finish
  <2>2. LedgerTypeOK'
    BY <1>1, <1>2, <2>1 DEF IInv, LedgerTypeOK
  <2>3. Ordered'
    <3>1. \A p \in Requests : req[p].pc # "idle" => req'[p].pc # "idle"
      BY <1>4
    <3>2. Seen => entry.by \in Requests
      BY DEF IInv, LedgerTypeOK, Seen, Reservations, NoEntry
    <3>3. /\ Seen' => req'[entry'.by].pc # "idle"
          /\ \A p \in closed' : req'[p].pc # "idle"
      BY <2>1, <3>1, <3>2 DEF IInv, LedgerTypeOK, Ordered, Seen
    <3>4. \A p \in Requests : /\ req'[p].pc = "succeeded" => p \in mutated'
                              /\ req'[p].pc = "waiting" => req'[p].on # None
      BY <1>1, <1>4 DEF IInv, Ordered
    <3>5. front' = "api" =>
            /\ mutated' \subseteq {entry'.by}
            /\ \A p \in Requests :
                 /\ req'[p].pc = "waiting" => SameBody(p)'
                 /\ req'[p].pc \in {"executing", "succeeded", "failed"} => entry'.by = p
      BY <1>1, <1>4, <2>1 DEF IInv, Ordered, SameBody, Seen
    <3>6. QED
      BY <1>1, <2>1, <3>3, <3>4, <3>5 DEF IInv, Ordered, Seen
  <2>4. NoLostWakeup' /\ ClosedOnce'
    BY <1>4, <2>1 DEF IInv, NoLostWakeup, ClosedOnce, Seen
  <2>5. QED
    BY <1>3, <2>2, <2>3, <2>4 DEF IInv
<1>8. QED
  BY <1>5, <1>6, <1>7

\* Each operation in turn.
LEMMA NextInv == IInv /\ [LedgerNext]_ledgerVars => IInv'
<1> SUFFICES ASSUME IInv, [LedgerNext]_ledgerVars PROVE IInv'
  OBVIOUS
<1>1. \A q \in Requests : req[q] \in Progress
  BY DEF IInv, LedgerTypeOK
<1>2. ASSUME NEW q \in Requests, Claim(q) PROVE IInv'
  BY <1>2, ClaimKeeps
<1>3. ASSUME NEW q \in Requests, Conflict(q) PROVE IInv'
  <2> DEFINE x == [req[q] EXCEPT !.pc = "done", !.on = None, !.got = "conflict", !.from = None]
  <2>1. req' = [req EXCEPT ![q] = x] /\ req[q].pc = "idle"
    BY <1>1, <1>3 DEF Conflict, Answer, Progress
  <2>2. x \in Progress /\ x.pc = "done" /\ x.got = "conflict"
    BY <1>1 DEF Progress
  <2> HIDE DEF x
  <2>3. UNCHANGED <<front, entry, closed, mutated>>
    BY <1>3 DEF Conflict
  <2>4. QED
    BY <2>1, <2>2, <2>3, MoveKeeps
<1>4. ASSUME NEW q \in Requests, Join(q) PROVE IInv'
  <2>1. /\ req[q].pc = "idle" /\ SameBody(q) /\ Seen /\ entry \in Reservations
        /\ UNCHANGED <<front, entry, closed, mutated>>
    BY <1>4 DEF Join, SameBody, Seen, IInv, LedgerTypeOK, NoEntry
  <2>2. CASE front = "api" /\ entry.settled
    <3> DEFINE x == [req[q] EXCEPT !.pc = "done", !.on = None, !.got = "replay",
                                   !.from = entry.reply]
    <3>1. req' = [req EXCEPT ![q] = x]
      BY <1>1, <1>4, <2>2 DEF Join, Answer, Progress
    <3>2. x \in Progress /\ x.pc = "done" /\ x.from = entry.reply
      BY <1>1, <2>1 DEF Progress, Reservations
    <3> HIDE DEF x
    <3>3. QED
      BY <2>1, <2>2, <3>1, <3>2, MoveKeeps
  <2>3. CASE ~(front = "api" /\ entry.settled)
    <3> DEFINE x == [req[q] EXCEPT !.pc = "waiting", !.on = entry.by]
    <3>1. req' = [req EXCEPT ![q] = x]
      BY <1>1, <1>4, <2>3 DEF Join, Progress
    <3>2. /\ x \in Progress /\ x.pc = "waiting" /\ x.on = entry.by
          /\ x.got = req[q].got /\ x.from = req[q].from
      BY <1>1, <2>1 DEF Progress, Reservations
    <3> HIDE DEF x
    <3>3. QED
      BY <2>1, <3>1, <3>2, MoveKeeps
  <2>4. QED
    BY <2>2, <2>3
<1>5. ASSUME NEW q \in Requests, Wake(q) PROVE IInv'
  <2>1. req[q].pc = "waiting" /\ UNCHANGED <<front, entry, closed, mutated>>
    BY <1>5 DEF Wake
  <2>2. CASE entry.settled /\ (front = "api" \/ SameBody(q))
    <3> DEFINE x == [req[q] EXCEPT !.pc = "done", !.on = None, !.got = "replay",
                                   !.from = entry.reply]
    <3>1. req' = [req EXCEPT ![q] = x]
      BY <1>1, <1>5, <2>2 DEF Wake, Answer, Progress
    <3>2. SameBody(q)
      BY <2>1, <2>2 DEF IInv, Ordered
    <3>3. entry \in Reservations
      BY <2>2 DEF IInv, LedgerTypeOK, NoEntry
    <3>4. x \in Progress /\ x.pc = "done" /\ x.from = entry.reply
      BY <1>1, <3>3 DEF Progress, Reservations
    <3> HIDE DEF x
    <3>5. QED
      BY <2>1, <2>2, <3>1, <3>2, <3>4, MoveKeeps
  <2>3. CASE ~(entry.settled /\ (front = "api" \/ SameBody(q)))
    <3> DEFINE x == [req[q] EXCEPT !.pc = "executing", !.on = None]
    <3>1. req' = [req EXCEPT ![q] = x] /\ front = "plane"
      BY <1>1, <1>5, <2>3 DEF Wake, Execute, Progress
    <3>2. /\ x \in Progress /\ x.pc = "executing"
          /\ x.got = req[q].got /\ x.from = req[q].from
      BY <1>1 DEF Progress
    <3> HIDE DEF x
    <3>3. QED
      BY <2>1, <3>1, <3>2, MoveKeeps
  <2>4. QED
    BY <2>2, <2>3
<1>6. ASSUME NEW q \in Requests, GiveUp(q) PROVE IInv'
  <2> DEFINE x == [req[q] EXCEPT !.pc = "done", !.on = None, !.got = "pending", !.from = None]
  <2>1. /\ req' = [req EXCEPT ![q] = x] /\ req[q].pc = "waiting"
        /\ UNCHANGED <<front, entry, closed, mutated>>
    BY <1>1, <1>6 DEF GiveUp, Answer, Progress
  <2>2. x \in Progress /\ x.pc = "done" /\ x.got = "pending"
    BY <1>1 DEF Progress
  <2> HIDE DEF x
  <2>3. QED
    BY <2>1, <2>2, MoveKeeps
<1>7. ASSUME NEW q \in Requests, Mutate(q) PROVE IInv'
  <2>1. req[q].pc = "executing" /\ UNCHANGED <<front, entry, closed>>
    BY <1>7 DEF Mutate
  <2>2. CASE UNCHANGED mutated /\ req' = [req EXCEPT ![q].pc = "failed"]
    <3> DEFINE x == [req[q] EXCEPT !.pc = "failed"]
    <3>1. req' = [req EXCEPT ![q] = x]
      BY <1>1, <2>2 DEF Progress
    <3>2. x \in Progress /\ x.pc = "failed" /\ x.got = req[q].got /\ x.from = req[q].from
      BY <1>1 DEF Progress
    <3> HIDE DEF x
    <3>3. QED
      BY <2>1, <2>2, <3>1, <3>2, MoveKeeps
  <2>3. CASE mutated' = mutated \cup {q} /\ req' = [req EXCEPT ![q].pc = "succeeded"]
    <3>1. LedgerTypeOK'
      BY <1>1, <2>1, <2>3 DEF IInv, LedgerTypeOK, Progress
    <3>2. /\ req'[q].pc = "succeeded" /\ req'[q].got = req[q].got /\ req'[q].from = req[q].from
          /\ \A p \in Requests : p # q => req'[p] = req[p]
      BY <1>1, <2>3 DEF IInv, LedgerTypeOK, Progress
    <3>3. Ordered'
      BY <2>1, <2>3, <3>2 DEF IInv, LedgerTypeOK, Ordered, Seen, SameBody
    <3>4. ReplayFitsBody' /\ NoLostWakeup' /\ ClosedOnce'
      BY <2>1, <2>3, <3>2 DEF IInv, ReplayFitsBody, NoLostWakeup, ClosedOnce, Seen
    <3>5. QED
      BY <3>1, <3>3, <3>4 DEF IInv
  <2>4. QED
    BY <1>7, <2>2, <2>3 DEF Mutate
<1>8. ASSUME NEW q \in Requests, Finish(q) PROVE IInv'
  BY <1>8, FinishKeeps
<1>9. CASE UNCHANGED ledgerVars
  BY <1>9 DEF ledgerVars, IInv, LedgerTypeOK, Ordered, ReplayFitsBody, NoLostWakeup,
              ClosedOnce, Seen, SameBody
<1>10. QED
  BY <1>2, <1>3, <1>4, <1>5, <1>6, <1>7, <1>8, <1>9 DEF LedgerNext

-------------------------------------------------------------------------------
(* The theorems *)

\* Every operation keeps the key, its channels and its requests in order.
THEOREM LedgerInvariance == LedgerSpec => []IInv
BY InitInv, NextInv, PTL DEF LedgerSpec

\* A replayed reply was made for the body of the request that is given it, even
\* if the key was released and reserved anew, and on the plane by an execution
\* that succeeded.
THEOREM RepliesFit == LedgerSpec => []ReplayFitsBody
<1>1. IInv => ReplayFitsBody
  BY DEF IInv
<1>2. QED
  BY <1>1, LedgerInvariance, PTL

\* No release or completion forgets a waiter, also of a reservation it did not make.
THEOREM WaitersWoken == LedgerSpec => []NoLostWakeup
<1>1. IInv => NoLostWakeup
  BY DEF IInv
<1>2. QED
  BY <1>1, LedgerInvariance, PTL

\* Complete and Release never close a channel that is closed.
THEOREM NeverClosedTwice == LedgerSpec => []ClosedOnce
<1>1. IInv => ClosedOnce
  BY DEF IInv
<1>2. QED
  BY <1>1, LedgerInvariance, PTL

\* The reply a key has settled with is the key's reply for good.
THEOREM RepliesStay == LedgerSpec => FirstReplyKept
<1>1. IInv /\ [LedgerNext]_ledgerVars => [entry.settled => entry' = entry]_ledgerVars
  <2> SUFFICES ASSUME IInv, LedgerNext, entry.settled PROVE entry' = entry
    BY DEF ledgerVars
  <2>1. Seen
    BY DEF IInv, Ordered
  <2>2. PICK q \in Requests : \/ Claim(q) \/ Conflict(q) \/ Join(q) \/ Wake(q)
                              \/ GiveUp(q) \/ Mutate(q) \/ Finish(q)
    BY DEF LedgerNext
  <2>3. ~Claim(q)
    BY <2>1 DEF Claim
  <2>4. Finish(q) => entry' = entry
    BY DEF Finish, Unsettled
  <2>5. QED
    BY <2>2, <2>3, <2>4 DEF Conflict, Join, Wake, GiveUp, Mutate
<1>2. QED
  BY <1>1, LedgerInvariance, PTL DEF LedgerSpec, FirstReplyKept

\* However many retries reach the API, one key changes state at most once.
THEOREM ApiOnce == LedgerSpec => []ApiExecutesOnce
<1>1. IInv => ApiExecutesOnce
  <2> SUFFICES ASSUME IInv, front = "api" PROVE Cardinality(mutated) <= 1
    BY DEF ApiExecutesOnce
  <2>1. mutated \subseteq {entry.by}
    BY DEF IInv, Ordered
  <2>2. IsFiniteSet({entry.by}) /\ Cardinality({entry.by}) = 1
    BY FS_Singleton
  <2>3. Cardinality(mutated) <= Cardinality({entry.by})
    BY <2>1, <2>2, FS_Subset
  <2>4. QED
    BY <2>2, <2>3
<1>2. QED
  BY <1>1, LedgerInvariance, PTL
=============================================================================
