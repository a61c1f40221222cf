------------------------------- MODULE Freshness ------------------------------
(***************************************************************************)
(* Assurance claims and their freshness (control-plane/freshness.go, fed   *)
(* by api/claims.go): a claim goes stale when its window elapses or a      *)
(* declared change touches its scope, and owes a re-evaluation suite.      *)
(* Every operation holds r.mu throughout; a tenant sees its own claims     *)
(* alone, so one tenant is modelled.                                       *)
(***************************************************************************)
EXTENDS Integers, FiniteSets

CONSTANTS
  Claims,     \* claim ids
  Assessed,   \* [Claims -> SUBSET ClaimShapes]: what assessments of a claim may say
  Changes,    \* declared changes, as the wire carries them
  Suites,     \* (workload, autonomy profile) pairs
  MaxRecords, \* bound on the audit records
  MaxHour     \* bound on the modelled clock

Triggers == {"model_identity_change", "prompt_change", "policy_change", "tool_change",
             "topology_change", "isolation_test_failure", "distribution_drift", "telemetry_gap"}
Components == {"model", "harness", "tools", "policy", "monitor", "scenario_distribution",
               "environment"}
Everywhere == "*"
Unstated == "unstated"   \* the empty component, the empty previous value

\* until 0: a valid_until that cannot be parsed, or has long passed.
ClaimShapes == [status : {"SUPPORTED_WITHIN_SCOPE", "TARGET_NOT_DEMONSTRATED", "VIOLATED",
                          "INSUFFICIENT_EVIDENCE"},
                until : Nat, triggers : SUBSET Triggers, prints : [Components -> STRING],
                suite : Suites]
ChangeShapes == [kind : STRING, component : STRING, previous : STRING]

ASSUME FreshnessAssumption ==
  /\ Assessed \in [Claims -> SUBSET ClaimShapes]
  /\ Changes \subseteq ChangeShapes
  /\ MaxRecords \in Nat /\ MaxHour \in Nat

VARIABLES
  claim,    \* [Claims -> the stored claim, or NoClaim]
  staled,   \* the audit trail: [claims, cause, nth], in no order
  owed,     \* [Suites -> the claims a scheduled suite has to re-evaluate]
  told,     \* the last answer of a read: the claim, and when it was given
  hour      \* the registry's clock

freshnessVars == <<claim, staled, owed, told, hour>>

NoClaim == [status |-> "absent"]

FreshnessInit ==
  /\ claim = [c \in Claims |-> NoClaim]
  /\ staled = {}
  /\ owed = [s \in Suites |-> {}]
  /\ told = [claim |-> NoClaim, at |-> 0]
  /\ hour = 0

-----------------------------------------------------------------------------
OnFile == {c \in Claims : claim[c] # NoClaim}
Elapsed(c) == hour > claim[c].until

\* The trigger each kind of change implicates when it names no component.
DefaultComponent ==
  [k \in Triggers |->
     CASE k = "model_identity_change"  -> "model"
       [] k = "prompt_change"          -> "harness"
       [] k = "policy_change"          -> "policy"
       [] k = "tool_change"            -> "tools"
       [] k = "topology_change"        -> "environment"
       [] k = "distribution_drift"     -> "scenario_distribution"
       [] k = "isolation_test_failure" -> Everywhere
       [] k = "telemetry_gap"          -> "monitor"]

ValidChange(ch) ==
  ch.kind \in Triggers /\ ch.component \in Components \cup {Everywhere, Unstated}

Stamped(ch) ==
  IF ch.component = Unstated THEN [ch EXCEPT !.component = DefaultComponent[ch.kind]] ELSE ch

\* A claim that declared the trigger and cannot be shown to lie outside the
\* change is inside it.
ScopeAffected(c, ch) ==
  /\ ch.kind \in claim[c].triggers
  /\ \/ ch.component = Everywhere
     \/ ch.previous = Unstated
     \/ claim[c].prints[ch.component] = ch.previous

\* Mutation: a new invalidation replaces the suites scheduled before.
ScheduledAnew(cs) == [s \in Suites |-> {c \in cs : claim[c].suite = s}]

\* One suite per workload and profile, naming each claim once.
Scheduled(cs) == [s \in Suites |-> owed[s] \cup {c \in cs : claim[c].suite = s}]

Staled(cs) == [c \in Claims |-> IF c \in cs THEN [claim[c] EXCEPT !.status = "STALE"] ELSE claim[c]]

\* The audit row of one invalidation.
Row(cs, cause) == staled \cup {[claims |-> cs, cause |-> cause, nth |-> Cardinality(staled) + 1]}
Recordable == Cardinality(staled) < MaxRecords

-----------------------------------------------------------------------------
(* Operations                                                                *)

\* An assessment stores its claim over whatever the id held.
Put(c, v) ==
  /\ claim' = [claim EXCEPT ![c] = v]
  /\ UNCHANGED <<staled, owed, told, hour>>

\* A read expires the claim first.
ReadClaim(c) ==
  /\ c \in OnFile
  /\ Recordable
  /\ LET expiring == {d \in {c} : Elapsed(d) /\ claim[d].status # "STALE"} IN
     /\ claim' = Staled(expiring)
     /\ owed' = Scheduled(expiring)
     /\ staled' = IF expiring = {} THEN staled ELSE Row(expiring, "valid_until_elapsed")
  /\ told' = [claim |-> claim'[c], at |-> hour]
  /\ UNCHANGED hour

\* Already stale claims are listed, and owe the suite, again.
Invalidate(ch) ==
  /\ Recordable
  /\ ValidChange(ch)
  /\ LET affected == {c \in OnFile : ScopeAffected(c, Stamped(ch))} IN
     /\ claim' = Staled(affected)
     /\ owed' = Scheduled(affected)
     /\ staled' = Row(affected, ch.kind)
  /\ UNCHANGED <<told, hour>>

PassHour ==
  /\ hour < MaxHour
  /\ hour' = hour + 1
  /\ UNCHANGED <<claim, staled, owed, told>>

FreshnessNext ==
  \/ \E c \in Claims : \E v \in Assessed[c] : Put(c, v)
  \/ \E c \in Claims : ReadClaim(c)
  \/ \E ch \in Changes : Invalidate(ch)
  \/ PassHour

FreshnessSpec == FreshnessInit /\ [][FreshnessNext]_freshnessVars

-----------------------------------------------------------------------------
(* Properties                                                                *)

FreshnessTypeOK ==
  /\ \A c \in Claims : claim[c] = NoClaim \/
       (claim[c].status = "STALE" /\ claim[c].suite \in Suites) \/ claim[c] \in Assessed[c]
  /\ owed \in [Suites -> SUBSET Claims]
  /\ hour \in 0..MaxHour
  /\ \A row \in staled : row.claims \subseteq Claims

\* A stale claim is named by an audit row and by the suite of its own workload
\* and profile, whatever was assessed, read and declared before, and a suite owes
\* no claim the registry never found stale (freshness.go:90-92).
StaleIsOwed ==
  /\ \A c \in Claims : claim[c].status = "STALE" =>
       c \in owed[claim[c].suite] /\ \E row \in staled : c \in row.claims
  /\ \A s \in Suites : \A c \in owed[s] : \E row \in staled : c \in row.claims

\* A read never presents a claim as anything but stale once its window elapsed,
\* however it was assessed over or invalidated in between (freshness.go:138-141).
ReadsAreFresh ==
  told.claim # NoClaim => told.claim.status = "STALE" \/ told.at <= told.claim.until
=============================================================================
