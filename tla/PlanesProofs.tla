----------------------------- MODULE PlanesProofs -----------------------------
(***************************************************************************)
(* Proofs about the promotion authority, the freshness registry, the API's *)
(* start of a run, the review of a session and the sentinel's draws, for   *)
(* every value of their constants.                                         *)
(***************************************************************************)
EXTENDS Promotion, Freshness, ApiRuns, Supervision, Sentinel, WellFoundedInduction, TLAPS

-----------------------------------------------------------------------------
(* The API: a claimed envelope is registered, or someone is at it.           *)

\* What a handler has in hand.
Handlers == [pc : {"idle", "put", "compile", "attach", "status", "check", "claim",
                   "register", "release", "start", "list", "done"},
             rec : 0..MaxCreated, plan : Plans \cup {NoPlan}, run : RunIds \cup {NoRun}]
WithRun == {"claim", "register", "release", "start", "list"}
HandlersTyped ==
  call \in [Calls -> Handlers] /\ \A c \in Calls : call[c].pc \in WithRun => call[c].run \in RunIds
RecordsTyped ==
  exp \in [1..MaxCreated -> [status : {"draft", "compiled", "running"},
                             plan : Plans \cup {NoPlan}, claimed : BOOLEAN, runs : SUBSET RunIds]]
Settling == \E c \in Calls : call[c].pc \in {"register", "release"}

LEMMA HandlerMoves ==
  ASSUME HandlersTyped, NEW c \in Calls, NEW h \in Handlers,
         h.pc \in WithRun => h.run \in RunIds,
         call' = [call EXCEPT ![c] = h]
  PROVE  /\ HandlersTyped'
         /\ call[c].pc \notin {"register", "release"} /\ Settling => Settling'
         /\ h.pc \in {"register", "release"} => Settling'
BY DEF HandlersTyped, Settling

\* A handler that only changes its place.
LEMMA HandlerGoes ==
  ASSUME HandlersTyped, NEW c \in Calls,
         NEW pc \in {"idle", "put", "compile", "attach", "status", "check", "register", "release",
                     "start", "list", "done"},
         Goto(c, pc),
         pc \in WithRun => call[c].pc \in WithRun
  PROVE  /\ HandlersTyped'
         /\ call[c].pc \notin {"register", "release"} /\ Settling => Settling'
         /\ pc \in {"register", "release"} => Settling'
<1> DEFINE h == [call[c] EXCEPT !.pc = pc]
<1>1. call[c] \in Handlers
  BY DEF HandlersTyped
<1>2. h \in Handlers /\ h.pc = pc /\ h.run = call[c].run
  BY <1>1 DEF Handlers
<1>3. call' = [call EXCEPT ![c] = h]
  BY DEF Goto
<1>4. h.pc \in WithRun => h.run \in RunIds
  BY <1>2 DEF HandlersTyped
<1> HIDE DEF h
<1>5. QED
  BY <1>2, <1>3, <1>4, HandlerMoves

\* Records not yet made are unclaimed, and a handler that works for a run has one.
ApiInv ==
  /\ made \in 0..MaxCreated /\ stored = made
  /\ RecordsTyped /\ HandlersTyped
  /\ envelope \in Buildable \cup {NoPlan} /\ started \subseteq RunIds
  /\ stored # 0 /\ exp[stored].claimed => envelope # NoPlan \/ Settling
  /\ \A n \in 1..MaxCreated : n > made => ~exp[n].claimed

LEMMA ApiInitially == ApiInit => ApiInv
BY ApiAssumption
   DEF ApiInit, ApiInv, RecordsTyped, HandlersTyped, Handlers, WithRun, Settling, Draft, Idle

LEMMA ApiStep == ApiInv /\ [ApiNext]_apiVars => ApiInv'
<1> SUFFICES ASSUME ApiInv, [ApiNext]_apiVars PROVE ApiInv'
  OBVIOUS
<1> USE ApiAssumption
<1>h. HandlersTyped /\ \A c \in Calls : call[c] \in Handlers
  BY DEF ApiInv, HandlersTyped
<1>r. RecordsTyped
  BY DEF ApiInv
<1>1. CASE UNCHANGED apiVars
  BY <1>1 DEF apiVars, ApiInv, HandlersTyped, RecordsTyped, Settling
<1>2. ASSUME NEW c \in Calls, CreateLookup(c) PROVE ApiInv'
  <2>1. HandlersTyped' /\ (Settling => Settling')
    BY <1>2, <1>h, HandlerGoes DEF CreateLookup, At, Reply, WithRun
  <2>2. UNCHANGED <<made, stored, exp, envelope, started>>
    BY <1>2 DEF CreateLookup
  <2>3. QED
    BY <2>1, <2>2 DEF ApiInv, RecordsTyped
<1>3. ASSUME NEW c \in Calls, CreatePut(c) PROVE ApiInv'
  <2>1. HandlersTyped' /\ made < MaxCreated /\ made' = made + 1 /\ stored' = made + 1
    BY <1>3, <1>h, HandlerGoes DEF CreatePut, At, Reply, WithRun
  <2>2. UNCHANGED <<exp, envelope, started>>
    BY <1>3 DEF CreatePut
  <2>3. ~exp[made + 1].claimed
    BY <2>1 DEF ApiInv
  <2>4. QED
    BY <2>1, <2>2, <2>3 DEF ApiInv, RecordsTyped
<1>4. ASSUME NEW c \in Calls, NEW pc \in {"compile", "check"}, Find(c, pc) PROVE ApiInv'
  <2> DEFINE h == [call[c] EXCEPT !.pc = pc, !.rec = stored]
  <2>1. h \in Handlers /\ h.pc = pc
    BY <1>h DEF ApiInv, Handlers
  <2>2. call' = [call EXCEPT ![c] = h] /\ call[c].pc = "idle" /\ UNCHANGED <<made, stored, exp, envelope, started>>
    BY <1>4 DEF Find, At
  <2> HIDE DEF h
  <2>3. HandlersTyped' /\ (Settling => Settling')
    BY <1>h, <2>1, <2>2, HandlerMoves DEF WithRun
  <2>4. QED
    BY <2>2, <2>3 DEF ApiInv, RecordsTyped
<1>5. ASSUME NEW c \in Calls, Compile(c) PROVE ApiInv'
  <2>1. call[c].pc = "compile" /\ UNCHANGED <<made, stored, exp, envelope, started>>
    BY <1>5 DEF Compile, At
  <2>2. CASE Reply(c)
    BY <1>h, <2>1, <2>2, HandlerGoes DEF Reply, WithRun, ApiInv, RecordsTyped
  <2>3. ASSUME NEW p \in Plans, call' = [call EXCEPT ![c].pc = "attach", ![c].plan = p]
        PROVE  ApiInv'
    <3> DEFINE h == [call[c] EXCEPT !.pc = "attach", !.plan = p]
    <3>1. h \in Handlers /\ h.pc = "attach"
      BY <1>h DEF Handlers
    <3>2. call' = [call EXCEPT ![c] = h]
      BY <2>3
    <3> HIDE DEF h
    <3>3. HandlersTyped' /\ (Settling => Settling')
      BY <1>h, <2>1, <3>1, <3>2, HandlerMoves DEF WithRun
    <3>4. QED
      BY <2>1, <3>3 DEF ApiInv, RecordsTyped
  <2>4. QED
    BY <1>5, <2>2, <2>3 DEF Compile
<1>6. ASSUME NEW c \in Calls, AttachPlan(c) PROVE ApiInv'
  <2>1. HandlersTyped' /\ (Settling => Settling')
    BY <1>6, <1>h, HandlerGoes DEF AttachPlan, At, Reply, WithRun
  <2>2. exp' = [exp EXCEPT ![call[c].rec].plan = call[c].plan] /\ UNCHANGED <<made, stored, envelope, started>>
    BY <1>6 DEF AttachPlan
  <2>3. call[c].plan \in Plans \cup {NoPlan}
    BY <1>h DEF Handlers
  <2>4. RecordsTyped'
    BY <1>r, <2>2, <2>3 DEF RecordsTyped
  <2>5. \A m \in 1..MaxCreated : exp'[m].claimed = exp[m].claimed
    BY <1>r, <2>2 DEF RecordsTyped
  <2>6. QED
    BY <2>1, <2>2, <2>4, <2>5 DEF ApiInv
<1>7. ASSUME NEW c \in Calls, AttachStatus(c) PROVE ApiInv'
  <2>1. HandlersTyped' /\ (Settling => Settling')
    BY <1>7, <1>h, HandlerGoes DEF AttachStatus, At, Reply, WithRun
  <2>2. exp' = [exp EXCEPT ![call[c].rec].status = "compiled"] /\ UNCHANGED <<made, stored, envelope, started>>
    BY <1>7 DEF AttachStatus
  <2>3. call[c].plan \in Plans \cup {NoPlan}
    BY <1>h DEF Handlers
  <2>4. RecordsTyped'
    BY <1>r, <2>2, <2>3 DEF RecordsTyped
  <2>5. \A m \in 1..MaxCreated : exp'[m].claimed = exp[m].claimed
    BY <1>r, <2>2 DEF RecordsTyped
  <2>6. QED
    BY <2>1, <2>2, <2>4, <2>5 DEF ApiInv
<1>8. ASSUME NEW c \in Calls, NEW r \in RunIds, CheckCompiled(c, r) PROVE ApiInv'
  <2>1. call[c].pc = "check" /\ UNCHANGED <<made, stored, exp, envelope, started>>
    BY <1>8 DEF CheckCompiled, At
  <2>2. CASE Reply(c)
    BY <1>h, <2>1, <2>2, HandlerGoes DEF Reply, WithRun, ApiInv, RecordsTyped
  <2>3. CASE call' = [call EXCEPT ![c].pc = "claim", ![c].run = r]
    <3> DEFINE h == [call[c] EXCEPT !.pc = "claim", !.run = r]
    <3>1. h \in Handlers /\ h.pc = "claim" /\ h.run = r
      BY <1>h DEF Handlers
    <3>2. call' = [call EXCEPT ![c] = h]
      BY <2>3
    <3> HIDE DEF h
    <3>3. HandlersTyped' /\ (Settling => Settling')
      BY <1>h, <2>1, <3>1, <3>2, HandlerMoves DEF WithRun
    <3>4. QED
      BY <2>1, <3>3 DEF ApiInv, RecordsTyped
  <2>4. QED
    BY <1>8, <2>2, <2>3 DEF CheckCompiled
<1>9. ASSUME NEW c \in Calls, ClaimEnvelope(c) PROVE ApiInv'
  <2>1. HandlersTyped' /\ (Settling => Settling') /\ UNCHANGED <<made, stored, envelope, started>>
    BY <1>9, <1>h, HandlerGoes DEF ClaimEnvelope, At, WithRun
  <2>2. CASE exp[stored].claimed
    BY <1>9, <2>1, <2>2 DEF ClaimEnvelope, ApiInv, RecordsTyped
  <2>3. CASE ~exp[stored].claimed
    <3>1. Goto(c, "register") /\ call[c].pc = "claim" /\ exp' = [exp EXCEPT ![stored].claimed = TRUE]
      BY <1>9, <2>3 DEF ClaimEnvelope, At
    <3>2. Settling'
      BY <1>h, <3>1, HandlerGoes DEF WithRun
    <3>3. RecordsTyped' /\ \A m \in 1..MaxCreated : m # stored => exp'[m].claimed = exp[m].claimed
      BY <1>r, <3>1 DEF RecordsTyped
    <3>4. QED
      BY <2>1, <3>2, <3>3 DEF ApiInv
  <2>4. QED
    BY <2>2, <2>3
<1>10. ASSUME NEW c \in Calls, RegisterEnvelope(c) PROVE ApiInv'
  <2>1. HandlersTyped'
    BY <1>10, <1>h, HandlerGoes DEF RegisterEnvelope, At, WithRun
  <2>2. envelope' \in Buildable /\ UNCHANGED <<made, stored, exp, started>>
    BY <1>10 DEF RegisterEnvelope, Registrable
  <2>3. QED
    BY <2>1, <2>2 DEF ApiInv, RecordsTyped
<1>11. ASSUME NEW c \in Calls, RegisterRefused(c) PROVE ApiInv'
  <2>1. HandlersTyped' /\ Settling'
    BY <1>11, <1>h, HandlerGoes DEF RegisterRefused, At, WithRun
  <2>2. UNCHANGED <<made, stored, exp, envelope, started>>
    BY <1>11 DEF RegisterRefused
  <2>3. QED
    BY <2>1, <2>2 DEF ApiInv, RecordsTyped
<1>12. ASSUME NEW c \in Calls, Release(c) PROVE ApiInv'
  <2>1. HandlersTyped' /\ UNCHANGED <<made, stored, envelope, started>>
    BY <1>12, <1>h, HandlerGoes DEF Release, At, Reply, WithRun
  <2>2. exp' = [exp EXCEPT ![stored].claimed = FALSE]
    BY <1>12 DEF Release, ReleaseEnvelope
  <2>3. RecordsTyped'
    BY <1>r, <2>2 DEF RecordsTyped
  <2>4. \A m \in 1..MaxCreated : IF m = stored THEN ~exp'[m].claimed ELSE exp'[m] = exp[m]
    BY <1>r, <2>2 DEF RecordsTyped
  <2>5. stored' = stored /\ made' = made /\ stored \in 0..MaxCreated /\ stored = made
    BY <2>1 DEF ApiInv
  <2>6. ~(stored' # 0 /\ exp'[stored'].claimed)
    BY <2>4, <2>5
  <2>7. \A n \in 1..MaxCreated : n > made' => ~exp'[n].claimed
    BY <2>4, <2>5 DEF ApiInv
  <2>8. QED
    BY <2>1, <2>3, <2>5, <2>6, <2>7 DEF ApiInv
<1>13. ASSUME NEW c \in Calls, StartRun(c) PROVE ApiInv'
  <2>1. HandlersTyped' /\ (Settling => Settling') /\ UNCHANGED <<made, stored, exp, envelope>>
    BY <1>13, <1>h, HandlerGoes DEF StartRun, At, Reply, WithRun
  <2>2. started' \subseteq RunIds
    BY <1>13, <1>h DEF StartRun, At, ApiInv, HandlersTyped, WithRun
  <2>3. QED
    BY <2>1, <2>2 DEF ApiInv, RecordsTyped
<1>14. ASSUME NEW c \in Calls, AddRun(c) PROVE ApiInv'
  <2>1. HandlersTyped' /\ (Settling => Settling') /\ UNCHANGED <<made, stored, envelope, started>>
    BY <1>14, <1>h, HandlerGoes DEF AddRun, At, Reply, WithRun
  <2>2. call[c].run \in RunIds
    BY <1>14, <1>h DEF AddRun, At, HandlersTyped, WithRun
  <2>3. exp' = [exp EXCEPT ![stored].runs = @ \cup {call[c].run}, ![stored].status = "running"]
    BY <1>14 DEF AddRun
  <2>4. RecordsTyped' /\ \A m \in 1..MaxCreated : exp'[m].claimed = exp[m].claimed
    BY <1>r, <2>2, <2>3 DEF RecordsTyped
  <2>5. QED
    BY <2>1, <2>4 DEF ApiInv
<1>15. ASSUME NEW c \in Calls, NextRequest(c) PROVE ApiInv'
  <2>1. Idle \in Handlers /\ Idle.pc = "idle"
    BY DEF Idle, Handlers
  <2>2. call' = [call EXCEPT ![c] = Idle] /\ call[c].pc = "done" /\ UNCHANGED <<made, stored, exp, envelope, started>>
    BY <1>15 DEF NextRequest, At
  <2>3. HandlersTyped' /\ (Settling => Settling')
    BY <1>h, <2>1, <2>2, HandlerMoves DEF WithRun
  <2>4. QED
    BY <2>2, <2>3 DEF ApiInv, RecordsTyped
<1>16. QED
  BY <1>1, <1>2, <1>3, <1>4, <1>5, <1>6, <1>7, <1>8, <1>9, <1>10, <1>11, <1>12, <1>13, <1>14,
     <1>15 DEF ApiNext

LEMMA ApiInvariance == ApiSpec => []ApiInv
BY ApiInitially, ApiStep, PTL DEF ApiSpec

\* Every reachable state of the API's records and handlers is well typed
\* (experiments.go:16-38).
THEOREM ApiTypes == ApiSpec => []ApiTypeOK
<1>1. ApiInv => ApiTypeOK
  BY DEF ApiInv, ApiTypeOK, RecordsTyped, HandlersTyped, Handlers
<1>2. QED
  BY <1>1, ApiInvariance, PTL

\* However creations, validations, starts and refusals overlap, no record stays
\* claimed without an envelope at the governor or a handler that settles it
\* (experiments.go:64-66, 295-305).
THEOREM ClaimsSettle == ApiSpec => []ClaimIsSettled
<1>1. ApiInv => ClaimIsSettled
  BY DEF ApiInv, ClaimIsSettled, Settling
<1>2. QED
  BY <1>1, ApiInvariance, PTL

-----------------------------------------------------------------------------
(* Freshness: a stale claim is owed, and a read never shows a lapsed one.    *)

StaleShapes == [status : {"STALE"}, until : Nat, triggers : SUBSET Triggers,
                prints : [Components -> STRING], suite : Suites]
OnFileShapes == ClaimShapes \cup StaleShapes

FreshInv ==
  /\ claim \in [Claims -> {NoClaim} \cup OnFileShapes]
  /\ \A c \in Claims : claim[c] \in {NoClaim} \cup Assessed[c] \cup StaleShapes
  /\ owed \in [Suites -> SUBSET Claims]
  /\ \A row \in staled : row.claims \subseteq Claims
  /\ hour \in 0..MaxHour
  /\ StaleIsOwed
  /\ ReadsAreFresh

LEMMA FreshInitially == FreshnessInit => FreshInv
BY FreshnessAssumption DEF FreshnessInit, FreshInv, StaleIsOwed, ReadsAreFresh, NoClaim

\* Marking claims on file stale, with the row and the suites that go with it.
LEMMA StalingKeeps ==
  ASSUME FreshInv, NEW cs \in SUBSET OnFile, NEW cause,
         claim' = Staled(cs), owed' = Scheduled(cs),
         staled' = Row(cs, cause) \/ (cs = {} /\ staled' = staled),
         UNCHANGED hour
  PROVE  /\ claim' \in [Claims -> {NoClaim} \cup OnFileShapes]
         /\ \A c \in Claims : claim'[c] \in {NoClaim} \cup Assessed[c] \cup StaleShapes
         /\ owed' \in [Suites -> SUBSET Claims]
         /\ \A row \in staled' : row.claims \subseteq Claims
         /\ hour' \in 0..MaxHour
         /\ StaleIsOwed'
<1>1. cs \subseteq Claims /\ \A c \in cs : claim[c] \in OnFileShapes
  BY DEF FreshInv, OnFile
<1>2. \A c \in cs : /\ [claim[c] EXCEPT !.status = "STALE"] \in StaleShapes
                    /\ [claim[c] EXCEPT !.status = "STALE"].suite = claim[c].suite
  BY <1>1 DEF OnFileShapes, ClaimShapes, StaleShapes
<1>3. \A c \in Claims : claim'[c] = (IF c \in cs THEN [claim[c] EXCEPT !.status = "STALE"] ELSE claim[c])
  BY DEF Staled
<1>4. /\ claim' \in [Claims -> {NoClaim} \cup OnFileShapes]
      /\ \A c \in Claims : claim'[c] \in {NoClaim} \cup Assessed[c] \cup StaleShapes
  <2>1. \A c \in Claims : claim'[c] \in {NoClaim} \cup OnFileShapes
    BY <1>2, <1>3 DEF FreshInv, OnFileShapes
  <2>2. claim' = [c \in Claims |-> claim'[c]]
    BY DEF Staled
  <2>3. QED
    BY <1>2, <1>3, <2>1, <2>2 DEF FreshInv
<1>5. /\ owed' \in [Suites -> SUBSET Claims]
      /\ \A s \in Suites : owed'[s] = owed[s] \cup {c \in cs : claim[c].suite = s}
  BY <1>1 DEF Scheduled, FreshInv
<1>6. \A c \in cs : \E row \in staled' : c \in row.claims
  <2>1. CASE cs = {}
    BY <2>1
  <2>2. CASE staled' = Row(cs, cause)
    <3> DEFINE row == [claims |-> cs, cause |-> cause, nth |-> Cardinality(staled) + 1]
    <3>1. row \in staled'
      BY <2>2 DEF Row
    <3>2. row.claims = cs
      OBVIOUS
    <3> HIDE DEF row
    <3>3. QED
      BY <3>1, <3>2
  <2>3. QED
    BY <2>1, <2>2
<1>7. staled \subseteq staled' /\ \A row \in staled' : row.claims \subseteq Claims
  BY <1>1 DEF Row, FreshInv
<1>8. ASSUME NEW c \in Claims, claim'[c].status = "STALE"
      PROVE  c \in owed'[claim'[c].suite] /\ \E row \in staled' : c \in row.claims
  <2>1. CASE c \in cs
    <3>1. claim'[c].suite = claim[c].suite /\ claim[c].suite \in Suites
      BY <1>1, <1>2, <1>3, <2>1 DEF OnFileShapes, ClaimShapes, StaleShapes
    <3>2. QED
      BY <1>5, <1>6, <2>1, <3>1
  <2>2. CASE c \notin cs
    <3>1. claim'[c] = claim[c] /\ claim[c].status = "STALE"
      BY <1>3, <1>8, <2>2
    <3>2. claim[c].suite \in Suites
      BY <3>1 DEF FreshInv, OnFileShapes, ClaimShapes, StaleShapes, NoClaim
    <3>3. c \in owed[claim[c].suite] /\ \E row \in staled : c \in row.claims
      BY <3>1 DEF FreshInv, StaleIsOwed
    <3>4. QED
      BY <1>5, <1>7, <3>1, <3>2, <3>3
  <2>3. QED
    BY <2>1, <2>2
<1>9. \A s \in Suites : \A c \in owed'[s] : \E row \in staled' : c \in row.claims
  BY <1>5, <1>6, <1>7 DEF FreshInv, StaleIsOwed
<1>10. QED
  BY <1>4, <1>5, <1>7, <1>8, <1>9 DEF FreshInv, StaleIsOwed

LEMMA FreshStep == FreshInv /\ [FreshnessNext]_freshnessVars => FreshInv'
<1> SUFFICES ASSUME FreshInv, [FreshnessNext]_freshnessVars PROVE FreshInv'
  OBVIOUS
<1> USE FreshnessAssumption
<1>1. CASE UNCHANGED freshnessVars
  BY <1>1 DEF freshnessVars, FreshInv, StaleIsOwed, ReadsAreFresh
<1>2. ASSUME NEW c \in Claims, NEW v \in Assessed[c], Put(c, v) PROVE FreshInv'
  <2>1. v \in ClaimShapes /\ v.status # "STALE"
    BY DEF ClaimShapes
  <2>2. claim' = [claim EXCEPT ![c] = v] /\ UNCHANGED <<staled, owed, told, hour>>
    BY <1>2 DEF Put
  <2>3. /\ claim' \in [Claims -> {NoClaim} \cup OnFileShapes]
        /\ \A d \in Claims : claim'[d] \in {NoClaim} \cup Assessed[d] \cup StaleShapes
    BY <2>1, <2>2 DEF FreshInv, OnFileShapes
  <2>4. \A d \in Claims : claim'[d].status = "STALE" => claim'[d] = claim[d]
    BY <2>1, <2>2 DEF FreshInv
  <2>5. StaleIsOwed'
    BY <2>2, <2>4 DEF FreshInv, StaleIsOwed
  <2>6. QED
    BY <2>2, <2>3, <2>5 DEF FreshInv, ReadsAreFresh
<1>3. ASSUME NEW c \in Claims, ReadClaim(c) PROVE FreshInv'
  <2> DEFINE expiring == {d \in {c} : Elapsed(d) /\ claim[d].status # "STALE"}
  <2>1. expiring \in SUBSET OnFile /\ c \in OnFile
    BY <1>3 DEF ReadClaim
  <2>2. /\ claim' = Staled(expiring) /\ owed' = Scheduled(expiring) /\ UNCHANGED hour
        /\ staled' = Row(expiring, "valid_until_elapsed") \/ (expiring = {} /\ staled' = staled)
        /\ told' = [claim |-> claim'[c], at |-> hour]
    BY <1>3 DEF ReadClaim
  <2>3. c \in Claims /\ claim[c] \in OnFileShapes
    BY <2>1 DEF FreshInv, OnFile
  <2>4. claim'[c].status = "STALE" \/ hour <= claim'[c].until
    <3>1. CASE c \in expiring
      BY <2>2, <2>3, <3>1 DEF Staled, OnFileShapes, ClaimShapes, StaleShapes
    <3>2. CASE c \notin expiring
      <4>1. claim'[c] = claim[c]
        BY <2>2, <2>3, <3>2 DEF Staled
      <4>2. claim[c].status = "STALE" \/ ~Elapsed(c)
        BY <3>2
      <4>3. claim[c].until \in Nat /\ hour \in Nat
        BY <2>3 DEF FreshInv, OnFileShapes, ClaimShapes, StaleShapes
      <4>4. QED
        BY <4>1, <4>2, <4>3 DEF Elapsed
    <3>3. QED
      BY <3>1, <3>2
  <2> HIDE DEF expiring
  <2>5. QED
    BY <2>1, <2>2, <2>4, StalingKeeps DEF FreshInv, ReadsAreFresh
<1>4. ASSUME NEW ch \in Changes, Invalidate(ch) PROVE FreshInv'
  <2> DEFINE affected == {c \in OnFile : ScopeAffected(c, Stamped(ch))}
  <2>1. /\ claim' = Staled(affected) /\ owed' = Scheduled(affected)
        /\ staled' = Row(affected, ch.kind) /\ UNCHANGED <<told, hour>>
    BY <1>4 DEF Invalidate
  <2>2. affected \in SUBSET OnFile
    OBVIOUS
  <2> HIDE DEF affected
  <2>3. QED
    BY <2>1, <2>2, StalingKeeps DEF FreshInv, ReadsAreFresh
<1>5. CASE PassHour
  BY <1>5 DEF PassHour, FreshInv, StaleIsOwed, ReadsAreFresh
<1>6. QED
  BY <1>1, <1>2, <1>3, <1>4, <1>5 DEF FreshnessNext

LEMMA FreshInvariance == FreshnessSpec => []FreshInv
BY FreshInitially, FreshStep, PTL DEF FreshnessSpec

\* Whatever is assessed, read and declared, in any order, a stale claim is named by
\* an audit row and owed by the suite of its workload and profile, and a suite owes
\* nothing else (freshness.go:90-92, 276-307).
THEOREM StaleClaimsOwed == FreshnessSpec => []StaleIsOwed
BY FreshInvariance, PTL DEF FreshInv

\* No read shows a claim as in force after its window elapsed (freshness.go:138-168).
THEOREM ReadsFresh == FreshnessSpec => []ReadsAreFresh
BY FreshInvariance, PTL DEF FreshInv

-----------------------------------------------------------------------------
(* Promotion: the hard boundary is never dropped, and a lapse is audited once *)

Kinds == {"promotion_granted", "promotion_lapsed", "promotion_rolled_back"}
Sound == {p \in Preapproved : RunsRequiredLayers(p)}
SoundKeys == {k \in STRING : Resolve(k) \subseteq Sound}
Bindings == [profile : Sound, promotion : Nat, previous : SoundKeys, expires : Nat,
             noted : BOOLEAN]

\* What the trail may say of promotion n; a lapse is said after the expiry, and
\* while the binding has not noted it there is none.
TrailOrdered ==
  \A j \in DOMAIN trail : trail[j].kind = "promotion_lapsed" =>
    /\ trail[j].promotion \in DOMAIN promotions
    /\ promotions[trail[j].promotion].expires <= day
    /\ \A i \in DOMAIN trail \ {j} : trail[i].promotion = trail[j].promotion =>
         trail[i].kind = (IF i < j THEN "promotion_granted" ELSE "promotion_rolled_back")
OnlyGranted(n) ==
  \A i \in DOMAIN trail : trail[i].promotion = n => trail[i].kind = "promotion_granted"

PromotionInv ==
  /\ binding \in {Unbound} \cup Bindings
  /\ promotions \in Seq([candidate : Preapproved, previous : STRING, granted : Nat, expires : Nat])
  /\ \A n \in DOMAIN promotions : promotions[n].expires > promotions[n].granted
  /\ trail \in Seq([kind : Kinds, promotion : 0..Len(promotions)])
  /\ day \in 0..MaxPromotionTime
  /\ TrailOrdered
  /\ binding \in Bindings => binding.promotion \in 0..Len(promotions)
  /\ binding \in Bindings /\ binding.promotion # 0 =>
       /\ binding.expires = promotions[binding.promotion].expires
       /\ ~binding.noted => OnlyGranted(binding.promotion)
       /\ \A i \in DOMAIN trail :
            trail[i].promotion = binding.promotion => trail[i].kind # "promotion_rolled_back"

LEMMA Elements ==
  ASSUME NEW S, NEW s \in Seq(S)
  PROVE  Len(s) \in Nat /\ DOMAIN s = 1..Len(s) /\ \A i \in 1..Len(s) : s[i] \in S
OBVIOUS

LEMMA Wider ==
  ASSUME NEW S, NEW T, NEW s \in Seq(S), \A i \in 1..Len(s) : s[i] \in T
  PROVE  s \in Seq(T)
OBVIOUS

LEMMA Appended ==
  ASSUME NEW S, NEW s \in Seq(S), NEW x \in S
  PROVE  /\ Append(s, x) \in Seq(S)
         /\ DOMAIN Append(s, x) = 1..(Len(s) + 1) /\ Len(Append(s, x)) = Len(s) + 1
         /\ Append(s, x)[Len(s) + 1] = x
         /\ \A i \in 1..Len(s) : Append(s, x)[i] = s[i]
OBVIOUS

\* A preapproved key resolves to the one profile that bears it.
LEMMA KeyResolves ==
  ASSUME NEW p \in Sound
  PROVE  Resolve(p.key) = {p} /\ p.key \in SoundKeys
<1>1. p \in Preapproved /\ p.key \in STRING
  BY PromotionAssumption DEF Sound, ProfileShapes
<1>2. Resolve(p.key) = {p}
  BY <1>1, PromotionAssumption DEF Resolve
<1>3. QED
  BY <1>1, <1>2 DEF SoundKeys

LEMMA FloorsSound == Floors \subseteq Sound
BY DEF Floors, Sound, RunsRequiredLayers

\* Whatever a promotion is found to replace is sound.
LEMMA PreviousSound ==
  ASSUME binding \in {Unbound} \cup Bindings
  PROVE  PreviousKeys \subseteq SoundKeys
<1>1. CASE binding = Unbound
  BY <1>1, KeyResolves, FloorsSound DEF PreviousKeys
<1>2. CASE binding \in Bindings /\ binding # Unbound
  <2>1. binding.profile \in Sound /\ Resolve(binding.previous) \subseteq Sound
    BY <1>2 DEF Bindings, SoundKeys
  <2>2. QED
    BY <1>2, <2>1, KeyResolves DEF PreviousKeys
<1>3. QED
  BY <1>1, <1>2

LEMMA PromotionInitially == PromotionInit => PromotionInv
<1> SUFFICES ASSUME PromotionInit PROVE PromotionInv
  OBVIOUS
<1>1. Unbound \notin Bindings
  BY DEF Unbound, Bindings
<1>2. QED
  BY <1>1, PromotionAssumption DEF PromotionInit, PromotionInv, TrailOrdered

LEMMA PromoteKeeps ==
  ASSUME PromotionInv, NEW req, NEW expires \in 0..(MaxPromotionTime + MaxExpiry),
         Promote(req, expires)
  PROVE  PromotionInv'
<1> DEFINE n == Len(promotions) + 1
<1>1. PICK previous \in PreviousKeys :
        /\ promotions' = Append(promotions, [candidate |-> req.candidate, previous |-> previous,
                                             granted |-> day, expires |-> expires])
        /\ binding' = Bound(req.candidate, n, previous, expires)
        /\ trail' = Append(trail, [kind |-> "promotion_granted", promotion |-> n])
  BY DEF Promote, Audit
<1>2. req.candidate \in Sound /\ expires > day /\ day' = day
  BY DEF Promote, CandidateSound, Sound, BoundedExpiry
<1>3. previous \in SoundKeys
  BY PreviousSound DEF PromotionInv
<1>4. expires \in Nat /\ day \in Nat /\ day \in 0..MaxPromotionTime
  BY PromotionAssumption DEF PromotionInv
<1>5. /\ n \in Nat \ {0} /\ n = Len(promotions) + 1
      /\ Len(promotions) \in Nat /\ DOMAIN promotions = 1..Len(promotions)
  BY DEF PromotionInv
<1>6. binding' \in Bindings /\ binding'.promotion = n /\ binding'.expires = expires
  BY <1>1, <1>2, <1>3, <1>4, <1>5 DEF Bound, Bindings
<1> HIDE DEF n
<1> DEFINE issued == [candidate |-> req.candidate, previous |-> previous, granted |-> day,
                      expires |-> expires]
           records == [candidate : Preapproved, previous : STRING, granted : Nat, expires : Nat]
<1>7. issued \in records /\ issued.expires = expires /\ issued.granted = day
  BY <1>2, <1>3, <1>4 DEF Sound, SoundKeys
<1>8. /\ promotions' \in Seq(records) /\ Len(promotions') = n /\ DOMAIN promotions' = 1..n
      /\ promotions'[n] = issued /\ \A m \in 1..Len(promotions) : promotions'[m] = promotions[m]
  <2>1. promotions \in Seq(records) /\ promotions' = Append(promotions, issued)
    BY <1>1 DEF PromotionInv
  <2> HIDE DEF issued, records
  <2>2. QED
    BY <1>5, <1>7, <2>1, Appended
<1> DEFINE event == [kind |-> "promotion_granted", promotion |-> n]
           events == [kind : Kinds, promotion : 0..n]
<1>9. /\ trail' \in Seq(events) /\ Len(trail) \in Nat
      /\ DOMAIN trail' = 1..(Len(trail) + 1) /\ DOMAIN trail = 1..Len(trail)
      /\ \A i \in 1..Len(trail) : trail'[i] = trail[i] /\ trail[i].promotion # n
      /\ trail'[Len(trail) + 1] = event
  <2> DEFINE before == [kind : Kinds, promotion : 0..Len(promotions)]
  <2>1. trail \in Seq(before) /\ trail' = Append(trail, event)
    BY <1>1 DEF PromotionInv
  <2>2. \A e \in before : e \in events /\ e.promotion # n
    BY <1>5
  <2>3. event \in events
    BY <1>5 DEF Kinds
  <2> HIDE DEF before, events, event
  <2>4. Len(trail) \in Nat /\ DOMAIN trail = 1..Len(trail) /\ \A i \in 1..Len(trail) : trail[i] \in before
    BY <2>1, Elements
  <2>5. trail \in Seq(events)
    BY <2>1, <2>2, <2>4, Wider
  <2>6. QED
    BY <2>1, <2>2, <2>3, <2>4, <2>5, Appended
<1>10. TrailOrdered'
  <2> SUFFICES ASSUME NEW j \in DOMAIN trail', trail'[j].kind = "promotion_lapsed"
               PROVE  /\ trail'[j].promotion \in DOMAIN promotions'
                      /\ promotions'[trail'[j].promotion].expires <= day'
                      /\ \A i \in DOMAIN trail' \ {j} : trail'[i].promotion = trail'[j].promotion =>
                           trail'[i].kind = (IF i < j THEN "promotion_granted"
                                             ELSE "promotion_rolled_back")
    BY DEF TrailOrdered
  <2>1. j \in DOMAIN trail /\ trail'[j] = trail[j]
    BY <1>9
  <2>2. trail[j].promotion \in DOMAIN promotions /\ promotions[trail[j].promotion].expires <= day
    BY <2>1 DEF PromotionInv, TrailOrdered
  <2>3. trail[j].promotion # n
    BY <1>9, <2>1
  <2>4. \A i \in DOMAIN trail' : trail'[i].promotion = trail'[j].promotion => i \in DOMAIN trail
    BY <1>9, <2>1, <2>3
  <2>5. \A i \in DOMAIN trail \ {j} : trail[i].promotion = trail[j].promotion =>
          trail[i].kind = (IF i < j THEN "promotion_granted" ELSE "promotion_rolled_back")
    BY <2>1 DEF PromotionInv, TrailOrdered
  <2>6. promotions'[trail[j].promotion] = promotions[trail[j].promotion]
    BY <1>5, <1>8, <2>2
  <2>7. \A i \in DOMAIN trail' \ {j} : trail'[i].promotion = trail'[j].promotion =>
          i \in DOMAIN trail \ {j} /\ trail'[i] = trail[i]
    BY <1>9, <2>4
  <2>8. trail[j].promotion \in DOMAIN promotions'
    BY <1>5, <1>8, <2>2
  <2>9. QED
    BY <1>2, <2>1, <2>2, <2>5, <2>6, <2>7, <2>8
<1>11. \A i \in DOMAIN trail' : trail'[i].promotion = n => trail'[i].kind = "promotion_granted"
  BY <1>9
<1>12. \A m \in DOMAIN promotions' : promotions'[m].expires > promotions'[m].granted
  <2>1. \A m \in 1..Len(promotions) : promotions[m].expires > promotions[m].granted
    BY <1>5 DEF PromotionInv
  <2> HIDE DEF issued, records
  <2>2. promotions'[n].expires > promotions'[n].granted
    BY <1>2, <1>7, <1>8
  <2>3. QED
    BY <1>5, <1>8, <2>1, <2>2
<1>13. day' \in 0..MaxPromotionTime
  BY <1>2, <1>4
<1>14. binding'.promotion \in 0..n /\ binding'.expires = promotions'[n].expires
  BY <1>5, <1>6, <1>7, <1>8
<1>15. QED
  <2>1. trail' \in Seq([kind : Kinds, promotion : 0..Len(promotions')])
    BY <1>8, <1>9
  <2>2. \A i \in DOMAIN trail' : trail'[i].promotion = n => trail'[i].kind # "promotion_rolled_back"
    BY <1>11
  <2> HIDE DEF event, events, issued
  <2>3. QED
    BY <1>6, <1>8, <1>10, <1>11, <1>12, <1>13, <1>14, <2>1, <2>2 DEF PromotionInv, OnlyGranted

LEMMA ActiveKeeps ==
  ASSUME PromotionInv, Active
  PROVE  PromotionInv'
<1> DEFINE n == binding.promotion
           event == [kind |-> "promotion_lapsed", promotion |-> n]
           events == [kind : Kinds, promotion : 0..Len(promotions)]
<1>1. /\ binding \in Bindings /\ n # 0 /\ binding.expires <= day /\ ~binding.noted
      /\ trail' = Append(trail, event)
      /\ binding' = [binding EXCEPT !.noted = TRUE] /\ UNCHANGED <<promotions, day>>
  BY DEF Active, Audit, Expired, Noted, PromotionInv
<1>2. /\ n \in 0..Len(promotions) /\ Len(promotions) \in Nat
      /\ DOMAIN promotions = 1..Len(promotions)
      /\ binding.expires = promotions[n].expires /\ OnlyGranted(n) /\ trail \in Seq(events)
  BY <1>1 DEF PromotionInv
<1>3. binding' \in Bindings /\ binding'.promotion = n /\ binding'.expires = binding.expires
      /\ binding'.noted
  BY <1>1 DEF Bindings
<1>4. event \in events /\ event.kind = "promotion_lapsed" /\ event.promotion = n
  BY <1>2 DEF Kinds
<1> HIDE DEF event, events, n
<1>5. /\ trail' \in Seq(events) /\ Len(trail) \in Nat
      /\ DOMAIN trail' = 1..(Len(trail) + 1) /\ DOMAIN trail = 1..Len(trail)
      /\ \A i \in 1..Len(trail) : trail'[i] = trail[i]
      /\ trail'[Len(trail) + 1] = event
  BY <1>1, <1>2, <1>4, Appended, Elements
<1>6. \A i \in 1..Len(trail) : trail[i].promotion = n => trail[i].kind = "promotion_granted"
  BY <1>2, <1>5 DEF OnlyGranted
<1>7. n \in DOMAIN promotions /\ promotions[n].expires <= day
  BY <1>1, <1>2 DEF n
<1>8. TrailOrdered'
  <2> SUFFICES ASSUME NEW j \in 1..(Len(trail) + 1), trail'[j].kind = "promotion_lapsed"
               PROVE  /\ trail'[j].promotion \in DOMAIN promotions
                      /\ promotions[trail'[j].promotion].expires <= day
                      /\ \A i \in 1..(Len(trail) + 1) \ {j} :
                           trail'[i].promotion = trail'[j].promotion =>
                             trail'[i].kind = (IF i < j THEN "promotion_granted"
                                               ELSE "promotion_rolled_back")
    BY <1>1, <1>5 DEF TrailOrdered
  <2>1. CASE j = Len(trail) + 1
    BY <1>4, <1>5, <1>6, <1>7, <2>1
  <2>2. CASE j \in 1..Len(trail)
    <3>1. trail'[j] = trail[j] /\ trail[j].promotion # n
      BY <1>5, <1>6, <2>2
    <3>2. /\ trail[j].promotion \in DOMAIN promotions /\ promotions[trail[j].promotion].expires <= day
          /\ \A i \in 1..Len(trail) \ {j} : trail[i].promotion = trail[j].promotion =>
               trail[i].kind = (IF i < j THEN "promotion_granted" ELSE "promotion_rolled_back")
      BY <1>5, <2>2, <3>1 DEF PromotionInv, TrailOrdered
    <3>3. QED
      BY <1>4, <1>5, <2>2, <3>1, <3>2
  <2>3. QED
    BY <1>5, <2>1, <2>2
<1>9. \A i \in DOMAIN trail' : trail'[i].promotion = n => trail'[i].kind # "promotion_rolled_back"
  BY <1>4, <1>5, <1>6
<1>10. QED
  BY <1>1, <1>2, <1>3, <1>5, <1>8, <1>9 DEF PromotionInv, events

LEMMA RollbackKeeps ==
  ASSUME PromotionInv, Rollback
  PROVE  PromotionInv'
<1> DEFINE n == binding.promotion
           event == [kind |-> "promotion_rolled_back", promotion |-> n]
           events == [kind : Kinds, promotion : 0..Len(promotions)]
<1>1. PICK landing \in Resolve(binding.previous), floor \in Floors :
        binding' = Bound(landing, 0, floor.key, 0)
  BY DEF Rollback
<1>2. /\ binding \in Bindings /\ trail' = Append(trail, event) /\ UNCHANGED <<promotions, day>>
  BY DEF Rollback, Audit, PromotionInv
<1>3. landing \in Sound /\ floor.key \in SoundKeys
  BY <1>1, <1>2, FloorsSound, KeyResolves DEF Bindings, SoundKeys
<1>4. binding' \in Bindings /\ binding'.promotion = 0
  BY <1>1, <1>3 DEF Bound, Bindings
<1>5. /\ n \in 0..Len(promotions) /\ Len(promotions) \in Nat
      /\ DOMAIN promotions = 1..Len(promotions) /\ trail \in Seq(events)
  BY <1>2 DEF PromotionInv
<1>6. event \in events /\ event.kind = "promotion_rolled_back" /\ event.promotion = n
  BY <1>5 DEF Kinds
<1> HIDE DEF event, events
<1>7. /\ trail' \in Seq(events) /\ Len(trail) \in Nat
      /\ DOMAIN trail' = 1..(Len(trail) + 1) /\ DOMAIN trail = 1..Len(trail)
      /\ \A i \in 1..Len(trail) : trail'[i] = trail[i]
      /\ trail'[Len(trail) + 1] = event
  BY <1>2, <1>5, <1>6, Appended, Elements
<1>8. TrailOrdered'
  <2> SUFFICES ASSUME NEW j \in 1..(Len(trail) + 1), trail'[j].kind = "promotion_lapsed"
               PROVE  /\ trail'[j].promotion \in DOMAIN promotions
                      /\ promotions[trail'[j].promotion].expires <= day
                      /\ \A i \in 1..(Len(trail) + 1) \ {j} :
                           trail'[i].promotion = trail'[j].promotion =>
                             trail'[i].kind = (IF i < j THEN "promotion_granted"
                                               ELSE "promotion_rolled_back")
    BY <1>2, <1>7 DEF TrailOrdered
  <2>1. j \in 1..Len(trail) /\ trail'[j] = trail[j]
    BY <1>6, <1>7
  <2>2. /\ trail[j].promotion \in DOMAIN promotions /\ promotions[trail[j].promotion].expires <= day
        /\ \A i \in 1..Len(trail) \ {j} : trail[i].promotion = trail[j].promotion =>
             trail[i].kind = (IF i < j THEN "promotion_granted" ELSE "promotion_rolled_back")
    BY <1>7, <2>1 DEF PromotionInv, TrailOrdered
  <2>3. QED
    BY <1>6, <1>7, <2>1, <2>2
<1>9. QED
  BY <1>2, <1>4, <1>5, <1>7, <1>8 DEF PromotionInv, events

LEMMA PromotionStep == PromotionInv /\ [PromotionNext]_promotionVars => PromotionInv'
<1> SUFFICES ASSUME PromotionInv, [PromotionNext]_promotionVars PROVE PromotionInv'
  OBVIOUS
<1>1. CASE UNCHANGED promotionVars
  BY <1>1 DEF promotionVars, PromotionInv, TrailOrdered, OnlyGranted
<1>2. CASE PassDay
  <2>1. /\ day \in 0..MaxPromotionTime /\ day' \in 0..MaxPromotionTime /\ day' >= day
        /\ UNCHANGED <<binding, promotions, trail>>
    BY <1>2, PromotionAssumption DEF PassDay, PromotionInv
  <2> DEFINE records == [candidate : Preapproved, previous : STRING, granted : Nat,
                         expires : Nat]
  <2>a. promotions \in Seq(records)
    BY DEF PromotionInv
  <2> HIDE DEF records
  <2>b. /\ DOMAIN promotions = 1..Len(promotions)
        /\ \A i \in 1..Len(promotions) : promotions[i] \in records
    BY <2>a, Elements
  <2>2. \A i \in DOMAIN promotions : promotions[i].expires \in Nat
    BY <2>b DEF records
  <2>3. TrailOrdered'
    BY <2>1, <2>2 DEF PromotionInv, TrailOrdered
  <2>4. QED
    BY <2>1, <2>3 DEF PromotionInv, OnlyGranted
<1>3. QED
  BY <1>1, <1>2, PromoteKeeps, ActiveKeeps, RollbackKeeps DEF PromotionNext

LEMMA PromotionInvariance == PromotionSpec => []PromotionInv
BY PromotionInitially, PromotionStep, PTL DEF PromotionSpec

\* Through any chain of promotions, lapses and rollbacks, what a tenant runs, and
\* what a lapse or a rollback would restore, is a preapproved profile with the hard
\* boundary (promotion.go:43-46).
THEOREM BoundaryKept == PromotionSpec => []HardControlsKept
<1>1. PromotionInv => HardControlsKept
  <2> SUFFICES ASSUME PromotionInv, binding # Unbound,
                      NEW p \in Runs(binding) \cup Resolve(binding.previous)
               PROVE  p \in Sound
    BY DEF HardControlsKept, Sound
  <2>1. binding.profile \in Sound /\ Resolve(binding.previous) \subseteq Sound
    BY DEF PromotionInv, Bindings, SoundKeys
  <2>2. QED
    BY <2>1 DEF Runs
<1>2. QED
  BY <1>1, PromotionInvariance, PTL

\* The lapse of a promotion is audited at most once, after its expiry, after its
\* grant and never after its rollback (promotion.go:593-621).
THEOREM LapsesOnce == PromotionSpec => []LapsedOnce
<1>1. PromotionInv => LapsedOnce
  BY DEF PromotionInv, TrailOrdered, LapsedOnce
<1>2. QED
  BY <1>1, PromotionInvariance, PTL

-----------------------------------------------------------------------------
(* Supervision: detectors, the panel and what a review concludes.            *)

LEMMA LeastNumber ==
  ASSUME NEW S \in SUBSET Nat, S # {}
  PROVE  \E n \in S : \A m \in S : n <= m
<1>1. PICK n \in S : \A m \in S : ~ (<<m, n>> \in OpToRel(<, Nat))
  BY NatLessThanWellFounded, WFMin
<1>2. \A m \in S : ~(m < n)
  BY <1>1 DEF OpToRel
<1> QED BY <1>2

LEMMA MaxIsGreatest ==
  ASSUME NEW S \in SUBSET Int, S # {}, \E b \in Int : \A m \in S : m <= b
  PROVE  Max(S) \in S /\ \A m \in S : m <= Max(S)
<1> PICK b \in Int : \A m \in S : m <= b OBVIOUS
<1> DEFINE D == {b - m : m \in S}
<1>1. D \in SUBSET Nat /\ D # {}
  <2>1. \A m \in S : b - m \in Nat OBVIOUS
  <2> QED BY <2>1
<1>2. PICK d \in D : \A m \in D : d <= m BY <1>1, LeastNumber
<1>3. PICK x \in S : d = b - x OBVIOUS
<1>4. \A m \in S : x >= m
  <2> TAKE m \in S
  <2>1. b - m \in D OBVIOUS
  <2> QED BY <2>1, <1>2, <1>3
<1> QED BY <1>4 DEF Max

-----------------------------------------------------------------------------
(* What the detector says of a record cites events of the record's alphabet. *)

Rules == {"denied_retry", "corrected_claim", "proposal_burst", "collector_silent"}
Suspicions == [rule : Rules, severity : {"low", "high"}, refs : SUBSET Observations]

LEMMA SuspicionShape ==
  ASSUME NEW rule \in Rules, NEW severity \in {"low", "high"}, NEW refs \in SUBSET Observations
  PROVE  Suspicion(rule, severity, refs) \in Suspicions
BY DEF Suspicion, Suspicions

LEMMA LastOfTyped ==
  ASSUME NEW events \in Seq(Observations), NEW size \in Nat
  PROVE  LastOf(events, size) \in Seq(Observations)
BY DEF LastOf

LEMMA DenialsBefore ==
  ASSUME NEW w \in Seq(Observations), NEW i \in DOMAIN w, DeniesBefore(w, i) # {}
  PROVE  Max(DeniesBefore(w, i)) \in DOMAIN w
<1> DEFINE D == DeniesBefore(w, i)
<1>1. D \in SUBSET Int /\ D # {} /\ i \in Int /\ \A m \in D : m <= i
  BY DEF DeniesBefore
<1> HIDE DEF D
<1>2. Max(D) \in D
  BY <1>1, MaxIsGreatest
<1> QED BY <1>2 DEF D, DeniesBefore

LEMMA SuspicionTyped ==
  ASSUME NEW w \in Seq(Observations), NEW s \in SuspicionsIn(w)
  PROVE  s \in Suspicions
<1>1. \A i \in DOMAIN w : w[i] \in Observations
  OBVIOUS
<1>3. ASSUME s \in DeniedRetries(w) PROVE s \in Suspicions
  <2>1. PICK i \in DOMAIN w : /\ DeniesBefore(w, i) # {}
                              /\ s = Suspicion("denied_retry", "high", {w[Max(DeniesBefore(w, i))], w[i]})
    BY <1>3 DEF DeniedRetries
  <2>2. {w[Max(DeniesBefore(w, i))], w[i]} \subseteq Observations
    BY <1>1, <2>1, DenialsBefore
  <2> QED BY <2>1, <2>2, SuspicionShape DEF Rules
<1>4. ASSUME s \in CorrectedClaims(w) PROVE s \in Suspicions
  <2>1. PICK i \in DOMAIN w :
          s = Suspicion("corrected_claim", "high", {w[i]} \cup Obs[w[i]].corrects)
    BY <1>4 DEF CorrectedClaims
  <2>2. {w[i]} \cup Obs[w[i]].corrects \subseteq Observations
    BY <1>1, DetectorAssumption DEF ObservationShapes
  <2> QED BY <2>1, <2>2, SuspicionShape DEF Rules
<1>5. ASSUME s \in ProposalBursts(w) PROVE s \in Suspicions
  <2>1. PICK t \in Workers : s = Suspicion("proposal_burst", "low", Proposals(w, t))
    BY <1>5 DEF ProposalBursts
  <2>2. Proposals(w, t) \subseteq Observations BY <1>1 DEF Proposals
  <2> QED BY <2>1, <2>2, SuspicionShape DEF Rules
<1>6. ASSUME s \in SilentCollectors(w) PROVE s \in Suspicions
  <2>1. s = Suspicion("collector_silent", "low", ToolTraffic(w))
    BY <1>6 DEF SilentCollectors
  <2>2. ToolTraffic(w) \subseteq Observations BY <1>1 DEF ToolTraffic
  <2> QED BY <2>1, <2>2, SuspicionShape DEF Rules
<1> QED BY <1>3, <1>4, <1>5, <1>6 DEF SuspicionsIn

LEMMA DetectTyped ==
  ASSUME record \in Seq(Observations)
  PROVE  Detect(record, WindowSize) \subseteq Suspicions
<1>1. LastOf(record, WindowSize) \in Seq(Observations)
  BY LastOfTyped, DetectorAssumption
<1> QED BY <1>1, SuspicionTyped DEF Detect

-----------------------------------------------------------------------------
(* The panel: what an allow takes.                                           *)

Outcomes == Verdicts \cup {"none", "not_routed", "held"}
Strict == Verdicts \ {"ALLOW"}

\* One call of Consider and the goroutine it started.
ConsultShapes ==
  [pc : {"idle", "waiting", "returned"}, panel : Panels \cup {<<>>}, mode : FailureModes \cup {"hold"},
   events : Seq(Observations), suspicions : SUBSET Suspicions,
   panelist : Verdicts \cup {"none", "running", "panicked", "held"}, answers : Seq(Answers),
   expired : BOOLEAN, outcome : Outcomes, cites : SUBSET Observations]

\* A running panel has asked the members in order and not yet the last one, of a
\* suspicious window; an allow it sent is unanimous, and only that becomes the
\* caller's allow.
ConsultSound(c) ==
  /\ c.pc = "idle" => c.panelist = "none"
  /\ c.panelist = "none" => c.answers = <<>>
  /\ c.panelist # "none" => /\ c.panel \in Panels /\ c.suspicions # {}
                            /\ Len(c.answers) <= Len(c.panel)
  /\ c.panelist = "running" => Len(c.answers) < Len(c.panel)
  /\ \A i \in DOMAIN c.answers : c.panel[i].reference => c.answers[i] \in Strict
  /\ c.panelist = "ALLOW" =>
       /\ Len(c.answers) = Len(c.panel) /\ Citable(c) # {}
       /\ \A i \in DOMAIN c.answers : c.answers[i] \in {"ALLOW", "off contract"}
  /\ c.outcome = "ALLOW" => c.panelist = "ALLOW" /\ c.cites = Citable(c)

SupervisionInv ==
  /\ record \in Seq(Observations)
  /\ consult \in [Consults -> ConsultShapes]
  /\ \A k \in Consults : ConsultSound(consult[k])

\* Ranks order the verdicts; only an allow, or a word outside the contract, is 0.
LEMMA Ranks ==
  ASSUME NEW v
  PROVE  /\ Rank(v) \in 0..3
         /\ Rank(v) = 0 => v \notin Strict
BY DEF Rank, Verdicts, Strict

\* The strictest rank is one of the ballots', and no ballot outranks it.
LEMMA StrictestRank ==
  ASSUME NEW answers \in Seq(Answers), answers # <<>>
  PROVE  LET ranks == {Rank(b) : b \in {Ballot(answers[i]) : i \in DOMAIN answers}}
         IN  /\ Max(ranks) \in 0..3
             /\ \A i \in DOMAIN answers : Rank(Ballot(answers[i])) <= Max(ranks)
<1> DEFINE ranks == {Rank(b) : b \in {Ballot(answers[i]) : i \in DOMAIN answers}}
<1>1. ranks \in SUBSET (0..3)
  BY Ranks
<1>2. \A i \in DOMAIN answers : Rank(Ballot(answers[i])) \in ranks
  OBVIOUS
<1>3. ranks # {}
  <2>1. 1 \in DOMAIN answers OBVIOUS
  <2> QED BY <2>1, <1>2
<1> SUFFICES /\ Max(ranks) \in 0..3
             /\ \A i \in DOMAIN answers : Rank(Ballot(answers[i])) <= Max(ranks)
  OBVIOUS
<1> HIDE DEF ranks
<1>4. ranks \in SUBSET Int BY <1>1
<1>5. \E b \in Int : \A m \in ranks : m <= b
  <2>1. \A m \in ranks : m <= 3 BY <1>1
  <2> QED BY <2>1
<1>6. Max(ranks) \in ranks /\ \A m \in ranks : m <= Max(ranks)
  BY <1>3, <1>4, <1>5, MaxIsGreatest
<1> QED BY <1>1, <1>2, <1>6

\* An adjudicated panel allows only when no ballot outranks an allow.
LEMMA AllowTakesAll ==
  ASSUME NEW answers \in Seq(Answers), answers # <<>>, Adjudicated(answers) = "ALLOW"
  PROVE  \A i \in DOMAIN answers : answers[i] \in {"ALLOW", "off contract"}
<1> DEFINE ranks == {Rank(b) : b \in {Ballot(answers[i]) : i \in DOMAIN answers}}
           strictest == Max(ranks)
<1>1. strictest \in 0..3 /\ \A i \in DOMAIN answers : Rank(Ballot(answers[i])) <= strictest
  BY StrictestRank
<1>2. Adjudicated(answers) = IF strictest = 0 THEN "ALLOW"
                             ELSE CHOOSE v \in Verdicts : Rank(v) = strictest
  BY Zenon DEF Adjudicated
<1> HIDE DEF strictest
<1>3. ASSUME strictest # 0 PROVE FALSE
  <2> DEFINE v == CHOOSE v \in Verdicts : Rank(v) = strictest
  <2>1. \E u \in Verdicts : Rank(u) = strictest
    BY <1>1, <1>3 DEF Rank, Verdicts
  <2>2. Rank(v) = strictest BY <2>1
  <2>3. Adjudicated(answers) = v BY <1>2, <1>3
  <2>4. Rank("ALLOW") = 0 BY DEF Rank
  <2> QED BY <2>2, <2>3, <2>4, <1>3
<1>4. ASSUME NEW i \in DOMAIN answers
      PROVE  answers[i] \in {"ALLOW", "off contract"}
  <2>1. Rank(Ballot(answers[i])) \in 0..3 BY Ranks
  <2>2. Rank(Ballot(answers[i])) = 0 BY <2>1, <1>1, <1>3
  <2>3. Ballot(answers[i]) \notin Strict BY <2>2, Ranks
  <2>4. answers[i] \in Answers OBVIOUS
  <2> QED BY <2>3, <2>4 DEF Ballot, Strict, Verdicts, Answers
<1> QED BY <1>4

\* What adjudication says is in the contract.
LEMMA AdjudicatedVerdict ==
  ASSUME NEW answers \in Seq(Answers), answers # <<>>
  PROVE  Adjudicated(answers) \in Verdicts
<1> DEFINE ranks == {Rank(b) : b \in {Ballot(answers[i]) : i \in DOMAIN answers}}
           strictest == Max(ranks)
<1>1. strictest \in 0..3
  BY StrictestRank
<1> HIDE DEF strictest
<1>2. strictest # 0 => \E u \in Verdicts : Rank(u) = strictest
  BY <1>1 DEF Rank, Verdicts
<1>3. Adjudicated(answers) = IF strictest = 0 THEN "ALLOW"
                             ELSE CHOOSE v \in Verdicts : Rank(v) = strictest
  BY Zenon DEF Adjudicated, strictest
<1> QED BY <1>2, <1>3 DEF Verdicts

\* A reference member never allows what was routed.
LEMMA ReferenceNeverAllows ==
  ASSUME NEW events, NEW suspicions, suspicions # {}
  PROVE  ReferenceVerdict(events, suspicions) \in Strict
BY DEF ReferenceVerdict, Strict, Verdicts

\* Only the call of k changes, and it stays sound.
LEMMA OneConsult ==
  ASSUME SupervisionInv, NEW k \in Consults, NEW c \in ConsultShapes,
         consult' = [consult EXCEPT ![k] = c], UNCHANGED record, ConsultSound(c)
  PROVE  SupervisionInv'
<1>1. \A j \in Consults : consult'[j] = IF j = k THEN c ELSE consult[j]
  BY DEF SupervisionInv
<1>2. consult' \in [Consults -> ConsultShapes] BY DEF SupervisionInv
<1>3. \A j \in Consults : ConsultSound(consult'[j])
  BY <1>1 DEF SupervisionInv
<1> QED BY <1>2, <1>3 DEF SupervisionInv

LEMMA CitableTyped ==
  ASSUME NEW c \in ConsultShapes
  PROVE  Citable(c) \subseteq Observations
BY DEF Citable, RefsOf, ConsultShapes, Suspicions

LEMMA ReturnSound ==
  ASSUME SupervisionInv, NEW k \in Consults, consult[k].pc = "waiting",
         NEW outcome \in Verdicts \cup {"held"}, ReturnWith(k, outcome), UNCHANGED record,
         outcome = "ALLOW" => consult[k].panelist = "ALLOW"
  PROVE  SupervisionInv'
<1> DEFINE c == consult[k]
           d == [c EXCEPT !.pc = "returned", !.outcome = outcome,
                          !.cites = IF outcome \in Verdicts THEN Citable(c) ELSE {}]
<1>1. c \in ConsultShapes /\ ConsultSound(c) BY DEF SupervisionInv
<1>2. consult' = [consult EXCEPT ![k] = d]
  BY DEF ReturnWith, SupervisionInv, ConsultShapes
<1>3. Citable(c) \subseteq Observations
  BY <1>1, CitableTyped
<1>4. /\ d.pc = "returned" /\ d.panel = c.panel /\ d.events = c.events
      /\ d.suspicions = c.suspicions /\ d.panelist = c.panelist /\ d.answers = c.answers
      /\ d.outcome = outcome
      /\ d.cites = IF outcome \in Verdicts THEN Citable(c) ELSE {}
      /\ d \in ConsultShapes
  BY <1>1, <1>3 DEF ConsultShapes, Outcomes
<1>5. Citable(d) = Citable(c) BY <1>4 DEF Citable
<1> HIDE DEF d
<1>6. outcome = "ALLOW" => d.cites = Citable(d) /\ d.panelist = "ALLOW"
  BY <1>4, <1>5 DEF Verdicts
<1>7. ConsultSound(d)
  BY <1>1, <1>4, <1>5, <1>6 DEF ConsultSound
<1> QED BY <1>2, <1>4, <1>7, OneConsult

LEMMA FallbackNeverAllows ==
  ASSUME NEW c PROVE Fallback(c) \in {"held", "DENY", "ABSTAIN"}
BY DEF Fallback

LEMMA AnswersKeepSound ==
  ASSUME SupervisionInv, NEW k \in Consults, NEW answer \in Answers, MemberAnswers(k, answer)
  PROVE  SupervisionInv'
<1> DEFINE c == consult[k]
           answers == Append(c.answers, answer)
           sent == IF Len(answers) < Len(c.panel) THEN "running"
                   ELSE IF Citable(c) = {} THEN "held" ELSE Adjudicated(answers)
           d == [c EXCEPT !.answers = answers, !.panelist = sent]
<1>1. c \in ConsultShapes /\ ConsultSound(c) /\ c.panelist = "running"
  BY DEF SupervisionInv, MemberAnswers
<1>2. consult' = [consult EXCEPT ![k] = d]
  BY DEF MemberAnswers, SupervisionInv
<1>3. /\ answers \in Seq(Answers) /\ answers # <<>>
      /\ Len(answers) = Len(c.answers) + 1 /\ Len(answers) <= Len(c.panel)
      /\ Len(c.panel) \in Nat /\ c.panel \in Panels
  <2>1. c.panel \in Seq(MemberShapes) /\ c.panel \in Panels
    BY <1>1, SupervisionAssumption DEF ConsultSound
  <2>2. Len(c.answers) < Len(c.panel) /\ c.answers \in Seq(Answers)
    BY <1>1 DEF ConsultSound, ConsultShapes
  <2> QED BY <2>1, <2>2
<1>4. \A i \in DOMAIN answers : c.panel[i].reference => answers[i] \in Strict
  <2> SUFFICES ASSUME NEW i \in DOMAIN answers, c.panel[i].reference
               PROVE  answers[i] \in Strict
    OBVIOUS
  <2>1. c.answers \in Seq(Answers) BY <1>1 DEF ConsultShapes
  <2>2. i \in DOMAIN c.answers \/ i = Len(answers) BY <2>1, <1>3
  <2>3. ASSUME i \in DOMAIN c.answers PROVE answers[i] \in Strict
    <3>1. answers[i] = c.answers[i] BY <2>1, <2>3
    <3> QED BY <2>3, <3>1, <1>1 DEF ConsultSound
  <2>4. ASSUME i = Len(answers) PROVE answers[i] \in Strict
    <3>1. answers[i] = answer BY <2>1, <2>4
    <3>2. answer \in MayAnswer(c.panel[i], c) BY <2>4 DEF MemberAnswers
    <3>3. c.suspicions # {} BY <1>1 DEF ConsultSound
    <3> QED BY <3>1, <3>2, <3>3, ReferenceNeverAllows DEF MayAnswer
  <2> QED BY <2>2, <2>3, <2>4
<1>5. /\ d.pc = c.pc /\ d.panel = c.panel /\ d.events = c.events
      /\ d.suspicions = c.suspicions /\ d.panelist = sent /\ d.answers = answers
      /\ d.outcome = c.outcome /\ d.cites = c.cites
  BY <1>1 DEF ConsultShapes
<1>6. Citable(d) = Citable(c) BY <1>5 DEF Citable
<1>7. sent = "running" => Len(answers) < Len(c.panel)
  <2>1. Adjudicated(answers) # "running"
    <3>1. ASSUME Adjudicated(answers) \notin Verdicts PROVE FALSE
      BY <3>1, AdjudicatedVerdict, <1>3
    <3> QED BY <3>1 DEF Verdicts
  <2> QED BY <2>1
<1>8. sent = "ALLOW" =>
        /\ Len(answers) = Len(c.panel) /\ Citable(c) # {}
        /\ \A i \in DOMAIN answers : answers[i] \in {"ALLOW", "off contract"}
  <2> SUFFICES ASSUME sent = "ALLOW"
               PROVE  /\ Len(answers) = Len(c.panel) /\ Citable(c) # {}
                      /\ \A i \in DOMAIN answers : answers[i] \in {"ALLOW", "off contract"}
    OBVIOUS
  <2>1. Len(answers) = Len(c.panel) /\ Citable(c) # {} /\ Adjudicated(answers) = "ALLOW"
    BY <1>3
  <2> QED BY <2>1, <1>3, AllowTakesAll
<1>9. sent # "none"
  BY <1>3, AdjudicatedVerdict DEF Verdicts
<1>13. d \in ConsultShapes
  <2>1. sent \in Verdicts \cup {"running", "held"}
    BY <1>3, AdjudicatedVerdict
  <2> QED BY <1>1, <1>3, <2>1 DEF ConsultShapes
<1>10. c.pc # "idle" /\ c.outcome # "ALLOW"
  BY <1>1 DEF ConsultSound
<1> HIDE DEF d, sent, answers
<1>11. ConsultSound(d)
  BY <1>1, <1>3, <1>4, <1>5, <1>6, <1>7, <1>8, <1>9, <1>10 DEF ConsultSound
<1>12. UNCHANGED record BY DEF MemberAnswers
<1> QED BY <1>2, <1>13, <1>11, <1>12, OneConsult

LEMMA SupervisionInitially == SupervisionInit => SupervisionInv
<1> SUFFICES ASSUME SupervisionInit PROVE SupervisionInv
  OBVIOUS
<1>1. NotConsidered \in ConsultShapes
  BY DEF NotConsidered, ConsultShapes, Outcomes
<1>2. ConsultSound(NotConsidered)
  BY DEF ConsultSound, NotConsidered
<1> QED BY <1>1, <1>2 DEF SupervisionInit, SupervisionInv

LEMMA SupervisionStep == SupervisionInv /\ [SupervisionNext]_supervisionVars => SupervisionInv'
<1> SUFFICES ASSUME SupervisionInv, [SupervisionNext]_supervisionVars PROVE SupervisionInv'
  OBVIOUS
<1>1. ASSUME NEW e \in Observations, Observe(e) PROVE SupervisionInv'
  <2>1. record' \in Seq(Observations) /\ consult' = consult
    BY <1>1 DEF Observe, SupervisionInv
  <2> QED BY <2>1 DEF SupervisionInv
<1>2. ASSUME NEW k \in Consults, NotRouted(k) PROVE SupervisionInv'
  <2> DEFINE c == consult[k]
             d == [c EXCEPT !.pc = "returned", !.outcome = "not_routed"]
  <2>1. c \in ConsultShapes /\ ConsultSound(c) BY DEF SupervisionInv
  <2>2. consult' = [consult EXCEPT ![k] = d] BY <1>2 DEF NotRouted, SupervisionInv, ConsultShapes
  <2>3. d \in ConsultShapes BY <2>1 DEF ConsultShapes, Outcomes
  <2>4. ConsultSound(d)
    BY <2>1, <1>2 DEF ConsultSound, ConsultShapes, NotRouted
  <2>5. UNCHANGED record BY <1>2 DEF NotRouted
  <2> QED BY <2>2, <2>3, <2>4, <2>5, OneConsult
<1>3. ASSUME NEW k \in Consults, NEW panel \in Panels, NEW mode \in FailureModes,
             Consider(k, panel, mode)
      PROVE  SupervisionInv'
  <2> DEFINE c == consult[k]
             d == [c EXCEPT !.pc = "waiting", !.panel = panel, !.mode = mode, !.events = record,
                            !.suspicions = Detect(record, WindowSize), !.panelist = "running"]
  <2>1. c \in ConsultShapes /\ ConsultSound(c) /\ record \in Seq(Observations)
    BY DEF SupervisionInv
  <2>2. c.pc = "idle" /\ Detect(record, WindowSize) # {} BY <1>3 DEF Consider
  <2>3. consult' = [consult EXCEPT ![k] = d] BY <1>3 DEF Consider, SupervisionInv
  <2>4. d \in ConsultShapes BY <2>1, DetectTyped DEF ConsultShapes
  <2>5. c.panelist = "none" /\ c.answers = <<>> /\ c.outcome # "ALLOW"
    BY <2>1, <2>2 DEF ConsultSound
  <2>6. panel \in Seq(MemberShapes) /\ Len(panel) >= 2
    BY SupervisionAssumption DEF Heterogeneous
  <2>7. ConsultSound(d)
    BY <2>1, <2>2, <2>5, <2>6 DEF ConsultSound, ConsultShapes
  <2>8. UNCHANGED record BY <1>3 DEF Consider
  <2> QED BY <2>3, <2>4, <2>7, <2>8, OneConsult
<1>4. ASSUME NEW k \in Consults, NEW answer \in Answers, MemberAnswers(k, answer)
      PROVE  SupervisionInv'
  BY <1>4, AnswersKeepSound
<1>5. ASSUME NEW k \in Consults, MemberPanics(k) PROVE SupervisionInv'
  <2> DEFINE c == consult[k]
             d == [c EXCEPT !.panelist = "panicked"]
  <2>1. c \in ConsultShapes /\ ConsultSound(c) BY DEF SupervisionInv
  <2>2. consult' = [consult EXCEPT ![k] = d] BY <1>5 DEF MemberPanics, SupervisionInv
  <2>3. d \in ConsultShapes BY <2>1 DEF ConsultShapes
  <2>4. c.panelist = "running" BY <1>5 DEF MemberPanics
  <2>5. ConsultSound(d)
    BY <2>1, <2>4 DEF ConsultSound, ConsultShapes
  <2>6. UNCHANGED record BY <1>5 DEF MemberPanics
  <2> QED BY <2>2, <2>3, <2>5, <2>6, OneConsult
<1>6. ASSUME NEW k \in Consults, DeadlinePasses(k) PROVE SupervisionInv'
  <2> DEFINE c == consult[k]
             d == [c EXCEPT !.expired = TRUE]
  <2>1. c \in ConsultShapes /\ ConsultSound(c) BY DEF SupervisionInv
  <2>2. consult' = [consult EXCEPT ![k] = d] BY <1>6 DEF DeadlinePasses, SupervisionInv
  <2>3. d \in ConsultShapes BY <2>1 DEF ConsultShapes
  <2>6. /\ d.pc = c.pc /\ d.panel = c.panel /\ d.events = c.events
        /\ d.suspicions = c.suspicions /\ d.panelist = c.panelist /\ d.answers = c.answers
        /\ d.outcome = c.outcome /\ d.cites = c.cites
    BY <2>1 DEF ConsultShapes
  <2>7. Citable(d) = Citable(c) BY <2>6 DEF Citable
  <2>4. ConsultSound(d)
    BY <2>1, <2>6, <2>7 DEF ConsultSound
  <2>5. UNCHANGED record BY <1>6 DEF DeadlinePasses
  <2> QED BY <2>2, <2>3, <2>4, <2>5, OneConsult
<1>7. ASSUME NEW k \in Consults, TakeResult(k) PROVE SupervisionInv'
  <2> DEFINE outcome == IF consult[k].panelist \in Verdicts THEN consult[k].panelist
                        ELSE Fallback(consult[k])
  <2>1. consult[k].pc = "waiting" /\ ReturnWith(k, outcome) /\ UNCHANGED record
    BY <1>7 DEF TakeResult
  <2>2. outcome \in Verdicts \cup {"held"} /\ (outcome = "ALLOW" => consult[k].panelist = "ALLOW")
    BY FallbackNeverAllows DEF Verdicts
  <2> QED BY <2>1, <2>2, ReturnSound
<1>8. ASSUME NEW k \in Consults, TakeDeadline(k) PROVE SupervisionInv'
  <2>1. /\ consult[k].pc = "waiting" /\ ReturnWith(k, Fallback(consult[k]))
        /\ UNCHANGED record
    BY <1>8 DEF TakeDeadline
  <2>2. Fallback(consult[k]) \in Verdicts \cup {"held"} /\ Fallback(consult[k]) # "ALLOW"
    BY FallbackNeverAllows DEF Verdicts
  <2> QED BY <2>1, <2>2, ReturnSound
<1>9. CASE UNCHANGED supervisionVars
  BY <1>9 DEF supervisionVars, SupervisionInv
<1> QED BY <1>1, <1>2, <1>3, <1>4, <1>5, <1>6, <1>7, <1>8, <1>9 DEF SupervisionNext

LEMMA SupervisionInvariant == SupervisionSpec => []SupervisionInv
BY SupervisionInitially, SupervisionStep, PTL DEF SupervisionSpec

\* Types.
THEOREM SupervisionTyped == SupervisionSpec => []SupervisionTypeOK
<1>1. SupervisionInv => SupervisionTypeOK
  BY DEF SupervisionInv, SupervisionTypeOK, ConsultShapes, Outcomes
<1> QED BY <1>1, SupervisionInvariant, PTL

\* Whatever the panel's members do and whenever the deadline passes, a routed
\* proposal is allowed only by the whole of its panel, never by a reference member,
\* and never without evidence to cite.
THEOREM AllowsAreUnanimous == SupervisionSpec => []AllowIsUnanimous
<1>1. SupervisionInv => AllowIsUnanimous
  <2> SUFFICES ASSUME SupervisionInv, NEW k \in Consults, consult[k].outcome = "ALLOW"
               PROVE  /\ Len(consult[k].answers) = Len(consult[k].panel)
                      /\ \A i \in DOMAIN consult[k].answers :
                           /\ consult[k].answers[i] \in {"ALLOW", "off contract"}
                           /\ ~consult[k].panel[i].reference
                      /\ consult[k].cites # {}
    BY DEF AllowIsUnanimous
  <2>1. ConsultSound(consult[k]) BY DEF SupervisionInv
  <2>2. consult[k].panelist = "ALLOW" BY <2>1 DEF ConsultSound
  <2> QED BY <2>1, <2>2 DEF ConsultSound, Strict, Verdicts
<1> QED BY <1>1, SupervisionInvariant, PTL

-----------------------------------------------------------------------------
(* The session review.                                                       *)

LEMMA BudgetType == Budget \in Nat
BY SessionAssumption DEF Budget

\* What a record lacks is what the structural checks find.
LEMMA NothingMissing ==
  ASSUME NEW events \in Seq(Observations), Report(events).outcome = "reviewed"
  PROVE  /\ events # <<>>
         /\ StructuralFindings(events) = {}
         /\ \A f \in TrajectoryFindings(events) : f.check # "collector_silent"
         /\ Len(events) <= Budget
         /\ Report(events).segments = Segments(events)
<1> DEFINE findings == StructuralFindings(events) \cup TrajectoryFindings(events)
           omitted == IF Len(events) > Budget THEN Len(events) - Budget ELSE 0
<1>1. events # <<>>
  BY DEF Report
<1>2. \A f \in findings : ~MissingEvidence(f)
  BY <1>1 DEF Report
<1>3. \A f \in StructuralFindings(events) : MissingEvidence(f)
  BY DEF StructuralFindings, MissingEvidence, Check
<1>4. ~(omitted > 0)
  BY <1>1 DEF Report
<1>5. Report(events).segments = Segments(events)
  BY <1>1 DEF Report
<1>6. \A f \in TrajectoryFindings(events) : f.check # "collector_silent"
  BY <1>2 DEF MissingEvidence
<1>7. Len(events) <= Budget
  BY <1>4, BudgetType
<1> QED BY <1>1, <1>2, <1>3, <1>5, <1>6, <1>7

\* Each structural check covers the events it is about.
LEMMA CoverageChecks ==
  ASSUME NEW events \in Seq(Observations), StructuralFindings(events) = {},
         NEW i \in DOMAIN events
  PROVE  /\ ~MissingDecision(events, events[i])
         /\ ~MissingReceipt(events, events[i])
         /\ ~MissingReply(events, events[i])
<1> DEFINE all == {events[j] : j \in DOMAIN events}
<1>1. events[i] \in all OBVIOUS
<1>2. ASSUME MissingDecision(events, events[i]) PROVE FALSE
  <2>1. Check("missing_decision", events[i]) \in StructuralFindings(events)
    BY <1>1, <1>2 DEF StructuralFindings
  <2> QED BY <2>1
<1>3. ASSUME MissingReceipt(events, events[i]) PROVE FALSE
  <2>1. Check("missing_receipt", events[i]) \in StructuralFindings(events)
    BY <1>1, <1>3 DEF StructuralFindings
  <2> QED BY <2>1
<1>4. ASSUME MissingReply(events, events[i]) PROVE FALSE
  <2>1. Check("missing_tool_response", events[i]) \in StructuralFindings(events)
    BY <1>1, <1>4 DEF StructuralFindings
  <2> QED BY <2>1
<1> QED BY <1>2, <1>3, <1>4

\* Worker tool traffic without a heartbeat is a finding over the whole record.
LEMMA TrafficIsWitnessed ==
  ASSUME NEW events \in Seq(Observations), NEW i \in DOMAIN events,
         \A f \in TrajectoryFindings(events) : f.check # "collector_silent",
         IsKind(events[i], "tool_request"), Obs[events[i]].worker
  PROVE  \E j \in DOMAIN events : IsKind(events[j], "collector_heartbeat")
<1> SUFFICES ASSUME \A j \in DOMAIN events : ~IsKind(events[j], "collector_heartbeat")
             PROVE  FALSE
  OBVIOUS
<1>1. LastOf(events, Len(events)) = events BY DEF LastOf
<1>2. events[i] \in ToolTraffic(events) BY DEF ToolTraffic
<1> DEFINE s == Suspicion("collector_silent", "low", ToolTraffic(events))
<1>3. s \in Detect(events, Len(events))
  BY <1>1, <1>2 DEF Detect, SuspicionsIn, SilentCollectors
<1>4. s.rule = "collector_silent" BY DEF Suspicion
<1>5. [check |-> s.rule, refs |-> s.refs] \in TrajectoryFindings(events)
  BY <1>3, <1>4 DEF TrajectoryFindings
<1> QED BY <1>4, <1>5

\* Division with remainder.
LEMMA Division ==
  ASSUME NEW a \in Nat, NEW s \in Nat \ {0}
  PROVE  \E q \in Nat, r \in 0..(s - 1) : a = q * s + r /\ a \div s = q
<1>1. a \div s \in Nat /\ a % s \in 0..(s - 1) /\ a = (a \div s) * s + (a % s)
  OBVIOUS
<1> QED BY <1>1

LEMMA Successor ==
  ASSUME NEW a \in Int, NEW s \in Int
  PROVE  (a + 1) * s = a * s + s /\ (a - 1) * s = a * s - s
OBVIOUS

\* Products grow with their first factor.
LEMMA ProductsGrow ==
  ASSUME NEW a \in Nat, NEW b \in Nat, NEW s \in Nat, a <= b
  PROVE  a * s <= b * s
OBVIOUS

\* The segments cut a record into consecutive pieces: position i is in one of them.
LEMMA SegmentsPartition ==
  ASSUME NEW events \in Seq(Observations), Len(events) <= Budget, NEW i \in DOMAIN events
  PROVE  \E n \in DOMAIN Segments(events) :
           {m \in DOMAIN Segments(events) :
              i \in Segments(events)[m].first..Segments(events)[m].last} = {n}
<1> DEFINE s == SegmentSize
           c == Len(events)
           n == ((i - 1) \div s) + 1
           count == SegmentCount(c)
<1>1. s \in Nat \ {0} /\ c \in Nat /\ i \in 1..c /\ Least(c, Budget) = c
  BY SessionAssumption, BudgetType DEF Least
<1> HIDE DEF s, c
<1>2. PICK q \in Nat, r \in 0..(s - 1) : i - 1 = q * s + r /\ n = q + 1
  <2>1. i - 1 \in Nat BY <1>1
  <2>2. \E q \in Nat, r \in 0..(s - 1) : i - 1 = q * s + r /\ (i - 1) \div s = q
    BY <1>1, <2>1, Division
  <2> QED BY <2>2
<1>3. PICK k \in Nat, t \in 0..(s - 1) : c + s - 1 = k * s + t /\ count = k
  <2>1. c + s - 1 \in Nat BY <1>1
  <2>2. \E k \in Nat, t \in 0..(s - 1) :
          c + s - 1 = k * s + t /\ (c + s - 1) \div s = k
    BY <1>1, <2>1, Division
  <2>3. count = (c + s - 1) \div s BY DEF SegmentCount, s
  <2> QED BY <2>2, <2>3
<1> HIDE DEF n
<1>4. n \in 1..count
  <2> SUFFICES ASSUME k <= q PROVE FALSE
    BY <1>2, <1>3
  <2>1. k * s <= q * s BY <1>1, <1>2, <1>3, ProductsGrow
  <2>2. k * s \in Nat /\ q * s \in Nat BY <1>1, <1>2, <1>3
  <2> QED BY <1>1, <1>2, <1>3, <2>1, <2>2
<1>5. DOMAIN Segments(events) = 1..count
  BY <1>1 DEF Segments, s, c
<1>6. ASSUME NEW m \in 1..count
      PROVE  /\ Segments(events)[m].first = (m - 1) * s + 1
             /\ Segments(events)[m].last = Least(m * s, c)
  BY <1>1, <1>6 DEF Segments, s, c
<1>7. i \in Segments(events)[n].first..Segments(events)[n].last
  <2>1. n * s = q * s + s /\ (n - 1) * s = q * s BY <1>1, <1>2, Successor
  <2>2. Segments(events)[n].first = (n - 1) * s + 1 /\ Segments(events)[n].last = Least(n * s, c)
    BY <1>4, <1>6
  <2>3. q * s \in Nat BY <1>1, <1>2
  <2> QED BY <1>1, <1>2, <2>1, <2>2, <2>3 DEF Least
<1>8. ASSUME NEW m \in 1..count, i \in Segments(events)[m].first..Segments(events)[m].last
      PROVE  m = n
  <2>1. m \in Nat \ {0} /\ count \in Nat BY <1>3
  <2>2. (m - 1) * s + 1 <= i /\ i <= m * s
    <3>1. (m - 1) * s \in Nat /\ m * s \in Nat BY <1>1, <2>1
    <3>2. i \in ((m - 1) * s + 1)..Least(m * s, c) BY <1>6, <1>8
    <3> QED BY <1>1, <3>1, <3>2 DEF Least
  <2>3. ASSUME m < n PROVE FALSE
    <3>1. m * s <= q * s BY <1>1, <1>2, <2>1, <2>3, ProductsGrow
    <3>2. m * s \in Nat /\ q * s \in Nat BY <1>1, <1>2, <2>1
    <3> QED BY <1>1, <1>2, <2>2, <3>1, <3>2
  <2>4. ASSUME m > n PROVE FALSE
    <3>1. q + 1 <= m - 1 /\ m - 1 \in Nat BY <1>2, <2>1, <2>4
    <3>2. (q + 1) * s <= (m - 1) * s BY <1>1, <1>2, <3>1, ProductsGrow
    <3>3. (q + 1) * s = q * s + s /\ q * s \in Nat /\ (m - 1) * s \in Nat
      BY <1>1, <1>2, <3>1, Successor
    <3> QED BY <1>1, <1>2, <2>2, <3>2, <3>3
  <2>5. n \in Nat BY <1>2
  <2> QED BY <2>1, <2>3, <2>4, <2>5
<1> HIDE DEF n, count
<1> QED BY <1>4, <1>5, <1>7, <1>8

\* A review calls a session reviewed only when nothing in its record is open.
THEOREM ReviewsAreComplete == SupervisionSpec => []ReviewedIsComplete
<1>1. SupervisionInv => ReviewedIsComplete
  <2> SUFFICES ASSUME record \in Seq(Observations) PROVE ReviewedIsComplete
    BY DEF SupervisionInv
  <2> DEFINE segments == Report(record).segments
  <2> SUFFICES ASSUME Report(record).outcome = "reviewed", NEW i \in DOMAIN record
               PROVE
      /\ IsKind(record[i], "proposed_action") /\ Obs[record[i]].effect # NoEffect =>
           \E j \in DOMAIN record : /\ IsKind(record[j], "broker_decision")
                                    /\ Obs[record[j]].effect = Obs[record[i]].effect
      /\ (/\ IsKind(record[i], "broker_decision") /\ Obs[record[i]].effect # NoEffect
          /\ Obs[record[i]].content = "allow")
           => \E j \in DOMAIN record : /\ IsKind(record[j], "external_receipt")
                                       /\ Obs[record[j]].effect = Obs[record[i]].effect
      /\ IsKind(record[i], "tool_request") =>
           /\ \E j \in DOMAIN record : /\ IsKind(record[j], "tool_response")
                                       /\ record[i] \in Obs[record[j]].answers
           /\ Obs[record[i]].worker =>
                \E j \in DOMAIN record : IsKind(record[j], "collector_heartbeat")
      /\ \E n \in DOMAIN segments :
           /\ segments[n].open = {}
           /\ {m \in DOMAIN segments : i \in segments[m].first..segments[m].last} = {n}
    BY Zenon DEF ReviewedIsComplete
  <2>1. /\ StructuralFindings(record) = {} /\ Len(record) <= Budget
        /\ \A f \in TrajectoryFindings(record) : f.check # "collector_silent"
        /\ segments = Segments(record)
    BY NothingMissing
  <2>2. /\ ~MissingDecision(record, record[i]) /\ ~MissingReceipt(record, record[i])
        /\ ~MissingReply(record, record[i])
    BY <2>1, CoverageChecks
  <2>3. \E n \in DOMAIN segments :
          {m \in DOMAIN segments : i \in segments[m].first..segments[m].last} = {n}
    BY <2>1, SegmentsPartition
  <2>4. \A n \in DOMAIN segments : segments[n].open = {}
    <3>1. \A n \in DOMAIN Segments(record) :
            Segments(record)[n].open \subseteq StructuralFindings(record)
      BY DEF Segments
    <3> QED BY <2>1, <3>1
  <2> HIDE DEF segments
  <2>5. IsKind(record[i], "proposed_action") /\ Obs[record[i]].effect # NoEffect =>
           \E j \in DOMAIN record : /\ IsKind(record[j], "broker_decision")
                                    /\ Obs[record[j]].effect = Obs[record[i]].effect
    BY <2>2 DEF MissingDecision, Decided
  <2>6. (/\ IsKind(record[i], "broker_decision") /\ Obs[record[i]].effect # NoEffect
         /\ Obs[record[i]].content = "allow")
           => \E j \in DOMAIN record : /\ IsKind(record[j], "external_receipt")
                                       /\ Obs[record[j]].effect = Obs[record[i]].effect
    <3>1. ASSUME IsKind(record[i], "broker_decision"), Obs[record[i]].effect # NoEffect,
                 Obs[record[i]].content = "allow"
          PROVE  Receipted(record, Obs[record[i]].effect)
      <4>1. Allowed(record, Obs[record[i]].effect) BY <3>1 DEF Allowed
      <4>2. ~MissingReceipt(record, record[i]) BY <2>2
      <4> QED BY <3>1, <4>1, <4>2, Zenon DEF MissingReceipt
    <3> QED BY <3>1 DEF Receipted
  <2>7. IsKind(record[i], "tool_request") =>
          \E j \in DOMAIN record : /\ IsKind(record[j], "tool_response")
                                   /\ record[i] \in Obs[record[j]].answers
    BY <2>2 DEF MissingReply, Answered
  <2>8. IsKind(record[i], "tool_request") /\ Obs[record[i]].worker =>
          \E j \in DOMAIN record : IsKind(record[j], "collector_heartbeat")
    BY <2>1, TrafficIsWitnessed
  <2> QED BY <2>3, <2>4, <2>5, <2>6, <2>7, <2>8
<1> QED BY <1>1, SupervisionInvariant, PTL

-----------------------------------------------------------------------------
(* The sentinel: a unit's draw decides for it in every batch.                *)

\* What the draw decides for a unit that is not risk-routed, whatever its batch.
DrawOf(u) ==
  IF design = "cluster" /\ ClusterOf[u] # NoCluster THEN drawn[ClusterOf[u]] ELSE drawn[u]

\* Every selection that is not a routing decision is what the draw says of its unit.
SelectedAsDrawn ==
  \A s \in selected : s.method # "risk_routed" =>
    s.method = IF DrawOf(s.unit) THEN "sentinel" ELSE "none"

SentinelInv == design \in SampleBy /\ SelectedAsDrawn

\* A clean unit of a batch takes its whole cluster into the draw, so the batch it
\* arrives in does not matter.
LEMMA DrawIgnoresTheBatch ==
  ASSUME NEW batch \in Draws, NEW x \in batch, ~x.routed
  PROVE  DrawnIn(batch, x) <=> DrawOf(x.unit)
BY DEF DrawnIn, DrawOf, ClustersDrawn

LEMMA SentinelStep == SentinelInv /\ [SentinelNext]_sentinelVars => SentinelInv'
<1> SUFFICES ASSUME SentinelInv, [SentinelNext]_sentinelVars PROVE SentinelInv'
  OBVIOUS
<1> USE DEF SentinelInv
<1>1. ASSUME NEW batch \in Draws, Assign(batch) PROVE SentinelInv'
  <2>1. design' = design /\ drawn' = drawn BY <1>1 DEF Assign
  <2>2. ASSUME NEW x \in batch, Method(batch, x) # "risk_routed"
        PROVE  Method(batch, x) = IF DrawOf(x.unit) THEN "sentinel" ELSE "none"
    <3>1. ~x.routed BY <2>2 DEF Method
    <3> QED BY <3>1, DrawIgnoresTheBatch DEF Method
  <2>3. \A u : DrawOf(u)' = DrawOf(u) BY <2>1 DEF DrawOf
  <2>4. \A s \in selected' : s \in selected \/ \E x \in batch : s = [unit |-> x.unit, method |-> Method(batch, x)]
    BY <1>1 DEF Assign
  <2>5. SelectedAsDrawn'
    BY <2>2, <2>3, <2>4 DEF SelectedAsDrawn
  <2> QED BY <2>1, <2>5
<1>2. CASE UNCHANGED sentinelVars
  BY <1>2 DEF sentinelVars, SelectedAsDrawn, DrawOf
<1> QED BY <1>1, <1>2 DEF SentinelNext

\* The sample is stable under every batching: what is drawn of a clean unit, or of
\* its cluster, never depends on the batch nor on who is risk-routed in it.
THEOREM DrawsAreStable == SentinelSpec => []DrawIsStable
<1>1. SentinelInit => SentinelInv
  BY DEF SentinelInit, SentinelInv, SelectedAsDrawn
<1>2. SentinelInv => DrawIsStable
  BY DEF SentinelInv, SelectedAsDrawn, DrawIsStable, DrawOf, SampleBy
<1> QED BY <1>1, <1>2, SentinelStep, PTL DEF SentinelSpec
===============================================================================
