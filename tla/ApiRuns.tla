-------------------------------- MODULE ApiRuns --------------------------------
(***************************************************************************)
(* Experiments in the public API (api/experiments.go): create, validate    *)
(* and start a run, for one experiment id of one tenant.  The store's lock *)
(* covers a lookup or an update, not a handler: handlers keep a pointer to *)
(* the record they found, change it without the lock, and call the         *)
(* governor in between, so a handler is several steps.  The governor is    *)
(* seen through what a start needs: one immutable envelope per experiment  *)
(* and one grant per run id.                                               *)
(***************************************************************************)
EXTENDS Integers, FiniteSets

CONSTANTS
  Calls,       \* handlers that may be in flight; each serves one request
  RunIds,      \* run ids that callers ask for
  Plans,       \* plan documents the compiler may answer with
  Buildable,   \* those buildEnvelope can translate
  MaxCreated   \* bound on the records made

NoPlan == "no plan"
NoRun == "no run"

ASSUME ApiAssumption == MaxCreated \in Nat /\ Buildable \subseteq Plans /\ NoPlan \notin Plans

VARIABLES
  made,     \* the records ever stored: record n is the n-th
  stored,      \* the record the id answers with, 0 when there is none
  exp,         \* [1..MaxCreated -> the record]
  call,        \* [Calls -> what the handler has read, and what it does next]
  envelope,    \* the plan of the governor's envelope, or NoPlan
  started      \* runs the governor granted

apiVars == <<made, stored, exp, call, envelope, started>>

Draft == [status |-> "draft", plan |-> NoPlan, claimed |-> FALSE, runs |-> {}]
Idle == [pc |-> "idle", rec |-> 0, plan |-> NoPlan, run |-> NoRun]

ApiInit ==
  /\ made = 0 /\ stored = 0
  /\ exp = [n \in 1..MaxCreated |-> Draft]
  /\ call = [c \in Calls |-> Idle]
  /\ envelope = NoPlan /\ started = {}

-----------------------------------------------------------------------------
At(c, pc) == call[c].pc = pc
Goto(c, pc) == call' = [call EXCEPT ![c].pc = pc]
Reply(c) == Goto(c, "done")

\* get: a handler that finds no record replies.
Find(c, pc) ==
  /\ At(c, "idle") /\ stored # 0
  /\ call' = [call EXCEPT ![c].pc = pc, ![c].rec = stored]
  /\ UNCHANGED <<made, stored, exp, envelope, started>>

\* createExperiment looks the id up ...
CreateLookup(c) ==
  /\ At(c, "idle")
  /\ stored = 0
  /\ Goto(c, "put")
  /\ UNCHANGED <<made, stored, exp, envelope, started>>

\* ... and stores its record over whatever the id holds by now.
CreatePut(c) ==
  /\ At(c, "put") /\ made < MaxCreated
  /\ made' = made + 1
  /\ stored' = made + 1
  /\ Reply(c)
  /\ UNCHANGED <<exp, envelope, started>>

\* validateExperiment: the compiler refuses, or answers with a plan.
Compile(c) ==
  /\ At(c, "compile")
  /\ \/ Reply(c)
     \/ \E p \in Plans :
          call' = [call EXCEPT ![c].pc = "attach", ![c].plan = p]
  /\ UNCHANGED <<made, stored, exp, envelope, started>>

\* The fields are written one by one, without the lock.
AttachPlan(c) ==
  /\ At(c, "attach")
  /\ exp' = [exp EXCEPT ![call[c].rec].plan = call[c].plan]
  /\ Goto(c, "status")
  /\ UNCHANGED <<made, stored, envelope, started>>

AttachStatus(c) ==
  /\ At(c, "status")
  /\ exp' = [exp EXCEPT ![call[c].rec].status = "compiled"]
  /\ Reply(c)
  /\ UNCHANGED <<made, stored, envelope, started>>

\* startRun: a compiled record is required; then the envelope is claimed.
CheckCompiled(c, r) ==
  /\ At(c, "check")
  /\ IF exp[call[c].rec].status = "draft" \/ exp[call[c].rec].plan = NoPlan
     THEN Reply(c)
     ELSE call' = [call EXCEPT ![c].pc = "claim", ![c].run = r]
  /\ UNCHANGED <<made, stored, exp, envelope, started>>

\* Claim and release go through the id, to the record it answers with now.
ClaimEnvelope(c) ==
  /\ At(c, "claim")
  /\ IF exp[stored].claimed
     THEN Goto(c, "start") /\ UNCHANGED exp
     ELSE Goto(c, "register") /\ exp' = [exp EXCEPT ![stored].claimed = TRUE]
  /\ UNCHANGED <<made, stored, envelope, started>>

\* The envelope is built from the record the handler holds, as it is now, and the
\* governor refuses a second one.  A refusal rolls the claim back.
Registrable(c) == exp[call[c].rec].plan \in Buildable /\ envelope = NoPlan

\* Mutation: a refused registration keeps the claim.
ReleaseForgotten(c) == exp' = exp

ReleaseEnvelope(c) == exp' = [exp EXCEPT ![stored].claimed = FALSE]

RegisterEnvelope(c) ==
  /\ At(c, "register") /\ Registrable(c)
  /\ envelope' = exp[call[c].rec].plan
  /\ Goto(c, "start")
  /\ UNCHANGED <<made, stored, exp, started>>

RegisterRefused(c) ==
  /\ At(c, "register") /\ ~Registrable(c)
  /\ Goto(c, "release")
  /\ UNCHANGED <<made, stored, exp, envelope, started>>

Release(c) ==
  /\ At(c, "release")
  /\ ReleaseEnvelope(c)
  /\ Reply(c)
  /\ UNCHANGED <<made, stored, envelope, started>>

\* The governor may refuse for reasons of its own: a fence, no room.
Granted(c) == envelope # NoPlan /\ call[c].run \notin started

StartRun(c) ==
  /\ At(c, "start")
  /\ \/ Granted(c) /\ started' = started \cup {call[c].run} /\ Goto(c, "list")
     \/ Reply(c) /\ UNCHANGED started
  /\ UNCHANGED <<made, stored, exp, envelope>>

AddRun(c) ==
  /\ At(c, "list")
  /\ exp' = [exp EXCEPT ![stored].runs = @ \cup {call[c].run}, ![stored].status = "running"]
  /\ Reply(c)
  /\ UNCHANGED <<made, stored, envelope, started>>

\* A connection serves its next request.
NextRequest(c) ==
  /\ At(c, "done")
  /\ call' = [call EXCEPT ![c] = Idle]
  /\ UNCHANGED <<made, stored, exp, envelope, started>>

ApiNext ==
  \E c \in Calls :
    \/ CreateLookup(c) \/ CreatePut(c)
    \/ Find(c, "compile") \/ Compile(c) \/ AttachPlan(c) \/ AttachStatus(c)
    \/ Find(c, "check") \/ (\E r \in RunIds : CheckCompiled(c, r))
    \/ ClaimEnvelope(c) \/ RegisterEnvelope(c) \/ RegisterRefused(c) \/ Release(c)
    \/ StartRun(c) \/ AddRun(c)
    \/ NextRequest(c)

ApiSpec == ApiInit /\ [][ApiNext]_apiVars

-----------------------------------------------------------------------------
(* Properties                                                                *)

ApiTypeOK ==
  /\ made \in 0..MaxCreated /\ stored = made
  /\ exp \in [1..MaxCreated -> [status : {"draft", "compiled", "running"},
                                plan : Plans \cup {NoPlan}, claimed : BOOLEAN,
                                runs : SUBSET RunIds]]
  /\ call \in [Calls -> [pc : {"idle", "put", "compile", "attach", "status", "check", "claim",
                               "register", "release", "start", "list", "done"},
                         rec : 0..MaxCreated, plan : Plans \cup {NoPlan},
                         run : RunIds \cup {NoRun}]]
  /\ envelope \in Buildable \cup {NoPlan}
  /\ started \subseteq RunIds

\* The record says its envelope is registered only while the governor holds one or
\* a handler is still registering or rolling back, however creations, validations,
\* starts and refusals overlap (experiments.go:64-66).  Not the converse: see
\* RegisteringIsClaimed.
ClaimIsSettled ==
  stored # 0 /\ exp[stored].claimed =>
    envelope # NoPlan \/ \E c \in Calls : call[c].pc \in {"register", "release"}

\* experiments.go:64-66: claimEnvelope "atomically marks the envelope as being
\* registered ... The claim rolls back with releaseEnvelope when registration fails":
\* while a start registers the envelope of the record the id answers with, that
\* record is claimed.
RegisteringIsClaimed ==
  \A c \in Calls : At(c, "register") /\ call[c].rec = stored => exp[stored].claimed

=============================================================================
