---------------------------- MODULE EffectRecords ----------------------------
(***************************************************************************)
(* The effect record of the broker (broker/contract.go, broker/broker.go): *)
(* the states of its lifecycle, the legal edges between them, and the      *)
(* fields the broker's decisions read.  Text, digests, journal entries and *)
(* timestamps are left out.  Tenants never share a key (effectKey), so one *)
(* tenant is modelled.                                                     *)
(***************************************************************************)
EXTENDS Integers, FiniteSets

CONSTANTS
  NumProposals,   \* effect ids callers may propose under: 1..NumProposals
  Runs,           \* run contexts the broker serves
  Ops,            \* operations a proposal may name
  Artifacts,      \* resource@destination pairs
  Delegations,    \* delegations minted before the modelled behaviour starts
  Policies,       \* policy documents an operator may install
  None            \* "no such reference"

Proposals == 1..NumProposals

\* The stop protocol mints one fresh id per compensated target.
StopId(e) == e + NumProposals

Ids == 1..(2 * NumProposals)

ASSUME RecordsAssumption ==
  /\ NumProposals \in Nat \ {0}
  /\ None \notin Ids
  /\ None \notin Runs
  /\ None \notin Delegations
  /\ None \notin [exp : Nat, pol : Policies]

States == {"NONE", "PROPOSED", "DENIED", "AUTHORIZED", "PREPARED", "COMMITTING",
           "COMPENSATING", "COMMITTED", "CANCELLED", "EXPIRED", "UNKNOWN"}

Permits == [exp : Nat, pol : Policies]

Effects == [st       : States,
            run      : Runs \cup {None},
            op       : Ops \cup {None},
            of       : Ids \cup {None},           \* compensation_of
            del      : Delegations \cup {None},   \* delegation_id
            review   : {"none", "ALLOW", "DENY", "WATCH"},
            permit   : Permits \cup {None},
            receipt  : BOOLEAN]                  \* a reconciled receipt is attached

NoEffect == [st |-> "NONE", run |-> None, op |-> None, of |-> None, del |-> None,
             review |-> "none", permit |-> None, receipt |-> FALSE]

\* A proposal as it arrives: identity and action only, nothing decided.
Shapes == [run : Runs, op : Ops, of : Proposals \cup {None},
           del : Delegations \cup {None}]

Proposed(s) == [NoEffect EXCEPT !.st = "PROPOSED", !.run = s.run, !.op = s.op,
                                !.of = s.of, !.del = s.del]

Allowed ==
  [s \in States |->
     CASE s = "PROPOSED"   -> {"DENIED", "AUTHORIZED"}
       [] s = "AUTHORIZED" -> {"PREPARED", "COMMITTING", "COMPENSATING",
                               "EXPIRED", "CANCELLED", "UNKNOWN"}
       [] s = "PREPARED"   -> {"COMMITTING", "COMPENSATING", "CANCELLED",
                               "EXPIRED", "UNKNOWN"}
       [] s \in {"COMMITTING", "COMPENSATING"} -> {"COMMITTED", "CANCELLED", "UNKNOWN"}
       [] s = "UNKNOWN"    -> {"COMMITTED", "CANCELLED"}
       [] OTHER            -> {}]

\* An edge the lifecycle does not have leaves the record as it is, silently.
TransitionTo(x, s) == IF s \in Allowed[x.st] THEN [x EXCEPT !.st = s] ELSE x

Final == {"DENIED", "COMMITTED", "CANCELLED", "EXPIRED"}
=============================================================================
