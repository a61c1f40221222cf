------------------------------- MODULE KeyCustody -----------------------------
(***************************************************************************)
(* The signing-key service (keycustody/service.go).  The lock is held only *)
(* to reach the map: Sign and Rotate read a key's retirement after they    *)
(* let go of it, and Rotate creates the successor in between, so each is   *)
(* several steps.  A call is a process; a key is the number of its         *)
(* creation.                                                               *)
(***************************************************************************)
EXTENDS Integers

CONSTANTS
  Usages,
  Signers, Rotators,   \* calls of Sign and of Rotate that may be in flight
  MaxKeys              \* bound on the keys created

ASSUME KeyAssumption == MaxKeys \in Nat

VARIABLES
  created,    \* how many keys there are
  usage,      \* [1..MaxKeys -> Usages \cup {NoUsage}]
  retired,    \* keys whose RetiredAt is set
  signing,    \* [Signers -> SignCall]
  rotating,   \* [Rotators -> RotateCall]
  signatures  \* [key, late]: late when the key was retired before the call began

keyVars == <<created, usage, retired, signing, rotating, signatures>>

NoUsage == "none"
Keys == 1..created
Known(k) == k \in Keys

\* late: the key was already retired when the call came in; pc says what it does next.
SignCall == [pc : {"idle", "check", "sign"}, key : 0..MaxKeys, late : BOOLEAN]
RotateCall == [pc : {"idle", "check", "create", "retire"}, key : 0..MaxKeys]

KeyInit ==
  /\ created = 0 /\ usage = [k \in 1..MaxKeys |-> NoUsage] /\ retired = {}
  /\ signing = [p \in Signers |-> [pc |-> "idle", key |-> 0, late |-> FALSE]]
  /\ rotating = [p \in Rotators |-> [pc |-> "idle", key |-> 0]]
  /\ signatures = {}

-----------------------------------------------------------------------------
NewKey(u) ==
  /\ created < MaxKeys
  /\ created' = created + 1
  /\ usage' = [usage EXCEPT ![created + 1] = u]

CreateKey(u) == NewKey(u) /\ UNCHANGED <<retired, signing, rotating, signatures>>

\* Sign: the key is looked up under the lock ...
SignLookup(p, k) ==
  /\ signing[p].pc = "idle" /\ Known(k)
  /\ signing' = [signing EXCEPT ![p] = [pc |-> "check", key |-> k, late |-> k \in retired]]
  /\ UNCHANGED <<created, usage, retired, rotating, signatures>>

\* ... its retirement read without it ...
Retired(k) == k \in retired
SignCheck(p) ==
  /\ signing[p].pc = "check"
  /\ signing' = [signing EXCEPT ![p].pc = IF Retired(signing[p].key) THEN "idle" ELSE "sign"]
  /\ UNCHANGED <<created, usage, retired, rotating, signatures>>

\* ... and the message signed whatever happened since.
SignFinish(p) ==
  /\ signing[p].pc = "sign"
  /\ signing' = [signing EXCEPT ![p].pc = "idle"]
  /\ signatures' = signatures \cup {[key |-> signing[p].key, late |-> signing[p].late]}
  /\ UNCHANGED <<created, usage, retired, rotating>>

RotateLookup(p, k) ==
  /\ rotating[p].pc = "idle" /\ Known(k)
  /\ rotating' = [rotating EXCEPT ![p] = [pc |-> "check", key |-> k]]
  /\ UNCHANGED <<created, usage, retired, signing, signatures>>

RotateCheck(p) ==
  /\ rotating[p].pc = "check"
  /\ rotating' = [rotating EXCEPT ![p].pc = IF Retired(rotating[p].key) THEN "idle" ELSE "create"]
  /\ UNCHANGED <<created, usage, retired, signing, signatures>>

\* Mutation: the rotation goes on without its successor.
SucceedUnmade(p) ==
  UNCHANGED <<created, usage>> /\ rotating' = [rotating EXCEPT ![p].pc = "retire"]

\* The successor comes first; if it cannot be made, nothing is retired.
Succeed(p) == NewKey(usage[rotating[p].key]) /\ rotating' = [rotating EXCEPT ![p].pc = "retire"]

RotateCreate(p) ==
  /\ rotating[p].pc = "create"
  /\ \/ Succeed(p)
     \/ rotating' = [rotating EXCEPT ![p].pc = "idle"] /\ UNCHANGED <<created, usage>>
  /\ UNCHANGED <<retired, signing, signatures>>

RotateRetire(p) ==
  /\ rotating[p].pc = "retire"
  /\ retired' = retired \cup {rotating[p].key}
  /\ rotating' = [rotating EXCEPT ![p].pc = "idle"]
  /\ UNCHANGED <<created, usage, signing, signatures>>

KeyNext ==
  \/ \E u \in Usages : CreateKey(u)
  \/ \E p \in Signers : (\E k \in 1..MaxKeys : SignLookup(p, k)) \/ SignCheck(p) \/ SignFinish(p)
  \/ \E p \in Rotators :
       (\E k \in 1..MaxKeys : RotateLookup(p, k)) \/ RotateCheck(p) \/ RotateCreate(p)
                                                  \/ RotateRetire(p)

KeySpec == KeyInit /\ [][KeyNext]_keyVars

-----------------------------------------------------------------------------
(* Properties                                                                *)

KeyTypeOK ==
  /\ created \in 0..MaxKeys
  /\ usage \in [1..MaxKeys -> Usages \cup {NoUsage}]
  /\ \A k \in Keys : usage[k] \in Usages
  /\ retired \subseteq Keys
  /\ signing \in [Signers -> SignCall]
  /\ rotating \in [Rotators -> RotateCall]
  /\ \A p \in Rotators : rotating[p].pc # "idle" => rotating[p].key \in Keys
  /\ \A p \in Signers : signing[p].pc # "idle" => signing[p].key \in Keys

\* A retired key has a newer key for its usage, however rotations overlap and
\* whichever of them fail: the newest key of a usage always signs
\* (service.go:158-161).
SuccessorFirst == \A k \in retired : \E j \in Keys : j > k /\ usage[j] = usage[k]

\* A Sign that begins after a key was retired never signs with it, however it
\* overlaps rotations (service.go:160-161).
LateSignRefused == \A s \in signatures : ~s.late
=============================================================================
