------------------------------ MODULE ReplyLedger ------------------------------
(***************************************************************************)
(* The idempotency ledgers of the HTTP front ends, for one tenant and key. *)
(* The broker (broker/broker.go Reserve, Complete, Release) and the        *)
(* evidence recorder (evidence-plane/recorder.go, the same code) reserve a *)
(* key for an execution, settle it with a reply or release it; waiters of  *)
(* a released reservation execute afresh.  The API's ledger                *)
(* (api/idempotency.go) settles whatever its handler replied.  One action  *)
(* is one critical section of the ledger's lock, or the mutation itself.   *)
(* Reservations have no identity in the code beyond their ready channel;   *)
(* here a reservation and its channel are named by the request that made   *)
(* it, which makes at most one.                                            *)
(***************************************************************************)
EXTENDS Integers, FiniteSets

CONSTANTS
  Requests,   \* the calls that carry the key, retries included
  Digests,    \* digests of request bodies
  Digest,     \* [Requests -> Digests]
  Fronts,     \* the front ends to model: a subset of {"plane", "api"}
  None        \* "no reservation"

ASSUME LedgerAssumption ==
  /\ Digest \in [Requests -> Digests]
  /\ Fronts \subseteq {"plane", "api"}
  /\ None \notin Requests

VARIABLES
  front,     \* "plane": broker or evidence recorder; "api": the API
  entry,     \* who reserved the key, and the reply if it is settled
  closed,    \* reservations whose ready channel is closed
  req,       \* what each request is doing and what it was answered
  mutated    \* requests whose execution changed state

ledgerVars == <<front, entry, closed, req, mutated>>

Reservations == [by : Requests, settled : BOOLEAN, reply : Requests \cup {None}]

Progress == [pc   : {"idle", "waiting", "executing", "succeeded", "failed", "done"},
             on   : Requests \cup {None},      \* the reservation it waits for
             got  : {"none", "own", "replay", "conflict", "pending"},
             from : Requests \cup {None}]      \* whose reply it was given

NoEntry == [by |-> None, settled |-> FALSE, reply |-> None]

LedgerTypeOK ==
  /\ front \in Fronts
  /\ entry \in Reservations \cup {NoEntry}
  /\ closed \subseteq Requests
  /\ req \in [Requests -> Progress]
  /\ mutated \subseteq Requests

LedgerInit ==
  /\ front \in Fronts
  /\ entry = NoEntry
  /\ closed = {}
  /\ req = [q \in Requests |-> [pc |-> "idle", on |-> None, got |-> "none", from |-> None]]
  /\ mutated = {}

-------------------------------------------------------------------------------
(* Reserve *)

\* Mutation: a key is taken only once it is settled.
SeenSettled == entry.settled

Seen == entry.by # None

\* Mutation: only a settled key compares the digests.
SameBodyOnceSettled(q) == Seen /\ (Digest[entry.by] = Digest[q] \/ ~entry.settled)

SameBody(q) == Seen /\ Digest[entry.by] = Digest[q]

Execute(q) == req' = [req EXCEPT ![q].pc = "executing", ![q].on = None]

Answer(q, got, from) ==
  req' = [req EXCEPT ![q].pc = "done", ![q].on = None, ![q].got = got, ![q].from = from]

\* The first caller of the key reserves it.
Claim(q) ==
  /\ req[q].pc = "idle"
  /\ ~Seen
  /\ entry' = [by |-> q, settled |-> FALSE, reply |-> None]
  /\ Execute(q)
  /\ UNCHANGED <<front, closed, mutated>>

Conflict(q) ==
  /\ req[q].pc = "idle"
  /\ Seen /\ ~SameBody(q)
  /\ Answer(q, "conflict", None)
  /\ UNCHANGED <<front, entry, closed, mutated>>

\* The API replays a settled key at once; otherwise wait for the reservation
\* that was found (on the plane a settled one is found with its channel closed).
Join(q) ==
  /\ req[q].pc = "idle"
  /\ SameBody(q)
  /\ IF front = "api" /\ entry.settled
     THEN Answer(q, "replay", entry.reply)
     ELSE req' = [req EXCEPT ![q].pc = "waiting", ![q].on = entry.by]
  /\ UNCHANGED <<front, entry, closed, mutated>>

\* The channel was closed: look the key up again, under the lock.  A key that is
\* not settled now was released, and the plane's waiter executes afresh.  The
\* API never releases (Settles), so its waiters find the reply.
Wake(q) ==
  /\ req[q].pc = "waiting"
  /\ req[q].on \in closed
  /\ IF entry.settled /\ (front = "api" \/ SameBody(q))
     THEN Answer(q, "replay", entry.reply)
     ELSE front = "plane" /\ Execute(q)
  /\ UNCHANGED <<front, entry, closed, mutated>>

\* idempotencyWait has passed; the API's waiters have no timer.
GiveUp(q) ==
  /\ front = "plane"
  /\ req[q].pc = "waiting"
  /\ Answer(q, "pending", None)
  /\ UNCHANGED <<front, entry, closed, mutated>>

-------------------------------------------------------------------------------
(* The mutation, then Complete or Release *)

\* The operation behind the front end: external to the ledger, and free to fail
\* now, which here changes nothing, and succeed for the same body later.
Mutate(q) ==
  /\ req[q].pc = "executing"
  /\ \/ mutated' = mutated \cup {q} /\ req' = [req EXCEPT ![q].pc = "succeeded"]
     \/ UNCHANGED mutated /\ req' = [req EXCEPT ![q].pc = "failed"]
  /\ UNCHANGED <<front, entry, closed>>

\* Mutation: the last reply counts.
UnsettledOrNot(q) == SameBody(q)

\* What Complete and Release require of the key; it may be another's reservation.
Unsettled(q) == SameBody(q) /\ ~entry.settled

\* Mutation: the released key does not wake its waiters.
RemovedSilently == entry' = NoEntry /\ UNCHANGED closed

Removed == entry' = NoEntry /\ closed' = closed \cup {entry.by}

\* Mutation: the flag that makes the first reply the only one is not set.
SettledUnmarked(q) ==
  /\ entry' = [entry EXCEPT !.reply = q]
  /\ closed' = closed \cup {entry.by}

Settled(q) ==
  /\ entry' = [entry EXCEPT !.settled = TRUE, !.reply = q]
  /\ closed' = closed \cup {entry.by}

\* The API's handlers write a reply when they fail, and a written reply is settled.
Settles(q) == req[q].pc = "succeeded" \/ front = "api"

Finish(q) ==
  /\ req[q].pc \in {"succeeded", "failed"}
  /\ Answer(q, "own", q)
  /\ CASE Unsettled(q) /\ Settles(q)  -> Settled(q)
       [] Unsettled(q) /\ ~Settles(q) -> Removed
       [] OTHER                       -> UNCHANGED <<entry, closed>>
  /\ UNCHANGED <<front, mutated>>

LedgerNext ==
  \E q \in Requests :
    Claim(q) \/ Conflict(q) \/ Join(q) \/ Wake(q) \/ GiveUp(q) \/ Mutate(q) \/ Finish(q)

LedgerSpec == LedgerInit /\ [][LedgerNext]_ledgerVars

-------------------------------------------------------------------------------
(* What makes the properties below inductive *)

\* A stored reply is by an execution of the body the key is reserved for, its
\* waiters are awake, and who made a reservation is no longer idle; behind the
\* API only the one reservation's request executes.
Ordered ==
  /\ entry.settled => /\ Seen /\ entry.by \in closed /\ entry.reply # None
                      /\ Digest[entry.reply] = Digest[entry.by]
                      /\ front = "plane" => entry.reply \in mutated
  /\ Seen => req[entry.by].pc # "idle"
  /\ \A q \in closed : req[q].pc # "idle"
  /\ \A q \in Requests : /\ req[q].pc = "succeeded" => q \in mutated
                         /\ req[q].pc = "waiting" => req[q].on # None
  /\ front = "api" =>
       /\ mutated \subseteq {entry.by}
       /\ \A q \in Requests : /\ req[q].pc = "waiting" => SameBody(q)
                              /\ req[q].pc \in {"executing", "succeeded", "failed"} =>
                                   entry.by = q

-------------------------------------------------------------------------------
(* What must hold *)

\* A stored reply is given only to requests with the body it was made for, and
\* the plane stores none of an execution that failed.
ReplayFitsBody ==
  \A q \in Requests : req[q].got = "replay" =>
     /\ req[q].from # None /\ Digest[req[q].from] = Digest[q]
     /\ front = "plane" => req[q].from \in mutated

\* Whoever waits for a reservation will be woken: it is still the key's and
\* unsettled, or its channel is closed.
NoLostWakeup ==
  \A q \in Requests : req[q].pc = "waiting" =>
     \/ req[q].on \in closed
     \/ entry.by = req[q].on /\ ~entry.settled

\* A pending reservation's channel is open, so that closing it cannot panic.
ClosedOnce == Seen /\ ~entry.settled => entry.by \notin closed

\* The first stored reply stays the key's reply.
FirstReplyKept == [][entry.settled => entry' = entry]_ledgerVars

\* Behind the API one key changes state once, whatever retries arrive when.
ApiExecutesOnce == front = "api" => Cardinality(mutated) <= 1

\* broker/README.md: "concurrent requests sharing a key execute the mutation once".
ExecutesOnce == Cardinality(mutated) <= 1
=============================================================================
