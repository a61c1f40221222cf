------------------------------- MODULE Recorder -------------------------------
(***************************************************************************)
(* The evidence recorder of one tenant (evidence-plane/recorder.go,        *)
(* evidence-plane/retention.go): batches of events appended to a hash      *)
(* chain, per-source sequence frontiers and signed checkpoints, the        *)
(* findings the recorder derives itself, retention and legal holds.        *)
(* Every handler holds r.mu from its first access to the store to its      *)
(* return, so one action is one handler; a batch refused in the middle     *)
(* keeps whatever its earlier events changed.                              *)
(***************************************************************************)
EXTENDS Integers, FiniteSets, SequencesExt

CONSTANTS
  Events,      \* event ids
  Ev,          \* [Events -> EventShapes]: what each event says
  Sources, EvidenceRuns,
  Roles,       \* the authenticated callers' roles
  Batches,     \* the sequences of events a caller may deliver, retries included
  Sealed,      \* a payload sealer is configured, and may fail
  Skew,        \* skewTolerance
  MaxQuiet,    \* the quiet time a liveness sweep is asked about
  Windows,     \* the retention windows callers ask for
  HoldEnds,    \* when the holds they set may end
  MaxNow       \* bound on the modelled clock

EventShapes == [source : Sources, seq : Nat, run : EvidenceRuns, beat : BOOLEAN,
                payload : {"metadata_only", "object_ref", "inline"},
                label : {"collector_fact", "monitor_interpretation", "worker_claim"},
                at : Nat]

ASSUME RecorderAssumption ==
  /\ Ev \in [Events -> EventShapes]
  /\ Batches \subseteq Seq(Events)
  /\ Sealed \in BOOLEAN
  /\ Skew \in Nat /\ MaxQuiet \in Nat \ {0} /\ MaxNow \in Nat
  /\ Windows \subseteq Nat \ {0} /\ HoldEnds \subseteq 1..(MaxNow + 1)

VARIABLES
  log,          \* store.events: [event, prev], prev the chain head it was hashed onto
  head,         \* store.chainHead, as the events hashed into it
  byID,         \* ids the store answers for
  seen,         \* [Sources -> sequences claimed]
  last,         \* [Sources -> the frontier, -1 before any event]
  beat,         \* [Sources -> the heartbeat that arrived last, or NoBeat]
  reported,     \* sources whose silence has been reported (staleReported)
  findings,     \* gap, late and skew findings
  silences,     \* [Events -> silence findings that cite this heartbeat]
  checkpoints,  \* signed [source, from, to] claims
  live,         \* [Events -> what the reader-facing copy still holds]
  holds,        \* [EvidenceRuns -> the time its legal hold ends; 0 when there is none]
  now,
  unsealed,     \* events a sealing failure dropped after their sequence was claimed
  halved        \* some batch was refused after it had changed the store

storeVars == <<log, head, byID, seen, last, beat, reported, checkpoints, unsealed, halved>>
recorderVars == <<storeVars, findings, silences, live, holds, now>>

\* A hold without an expiry; one that ended, or was released, protects nothing.
Forever == MaxNow + 1
NoBeat == "never"
Slot(e) == <<Ev[e].source, Ev[e].seq>>

RecorderInit ==
  /\ log = <<>> /\ head = <<>> /\ byID = {}
  /\ seen = [s \in Sources |-> {}]
  /\ last = [s \in Sources |-> -1]
  /\ beat = [s \in Sources |-> NoBeat]
  /\ reported = {} /\ findings = {} /\ checkpoints = {}
  /\ silences = [e \in Events |-> 0]
  /\ live = [e \in Events |-> "absent"]
  /\ holds = [r \in EvidenceRuns |-> 0]
  /\ now = 0
  /\ unsealed = {} /\ halved = FALSE

-----------------------------------------------------------------------------
(* One batch, in delivery order.  bad: the events whose sealing fails now.   *)

\* Who may put which trust label on an event.
MayLabel(role, label) ==
  CASE label = "collector_fact"         -> role = "collector"
    [] label = "monitor_interpretation" -> role \in {"collector", "service", "operator"}
    [] label = "worker_claim"           -> TRUE

\* Neither stored nor delivered earlier in this batch.
Fresh(b, i) == b[i] \notin byID /\ \A j \in 1..(i - 1) : b[j] # b[i]

\* A fresh id that claims a sequence its source has already used.
SequenceTaken(b, i) ==
  \/ Ev[b[i]].seq \in seen[Ev[b[i]].source]
  \/ \E j \in 1..(i - 1) : Fresh(b, j) /\ Slot(b[j]) = Slot(b[i])

Sealable(b) == {e \in Range(b) : Sealed /\ Ev[e].payload = "inline"}
SealFails(b, i, bad) == b[i] \in bad

Stops(b, i, bad) == Fresh(b, i) /\ (SequenceTaken(b, i) \/ SealFails(b, i, bad))

\* The position the loop returns at: past the end when every event goes in.
End(b, bad) ==
  CHOOSE k \in 1..(Len(b) + 1) :
    /\ k = Len(b) + 1 \/ Stops(b, k, bad)
    /\ \A i \in 1..(k - 1) : ~Stops(b, i, bad)

\* The positions whose event is stored, and those that move a frontier: the
\* sequence is claimed before the payload is sealed, the event stored after.
Stored(b, bad) == {i \in 1..(End(b, bad) - 1) : Fresh(b, i)}
Claimed(b, bad) ==
  Stored(b, bad) \cup
    {i \in {End(b, bad)} : i <= Len(b) /\ ~SequenceTaken(b, i)}

\* From here on, the positions that were claimed or stored are given.
\* Sequences of s claimed before position i, and the frontier there.
SeenBefore(b, claimed, s, i) ==
  seen[s] \cup {Ev[b[j]].seq : j \in {k \in claimed : k < i /\ Ev[b[k]].source = s}}
Frontier(sequences) == IF sequences = {} THEN -1 ELSE Max(sequences)
FrontierBefore(b, claimed, i) == Frontier(SeenBefore(b, claimed, Ev[b[i]].source, i))

Finding(kind, e, from, to) ==
  [kind |-> kind, event |-> e, source |-> Ev[e].source, from |-> from, to |-> to]

\* Mutation: a single missing sequence is overlooked.
GapFindingsWide(b, claimed) ==
  {Finding("gap", b[i], FrontierBefore(b, claimed, i) + 1, Ev[b[i]].seq - 1) :
     i \in {j \in claimed : Ev[b[j]].seq > FrontierBefore(b, claimed, j) + 2}}

\* A jump past the frontier names the range that never arrived.
GapFindings(b, claimed) ==
  {Finding("gap", b[i], FrontierBefore(b, claimed, i) + 1, Ev[b[i]].seq - 1) :
     i \in {j \in claimed : Ev[b[j]].seq > FrontierBefore(b, claimed, j) + 1}}

\* An arrival below the frontier is stored as delivered and reported.
LateFindings(b, claimed) ==
  {Finding("late", b[i], Ev[b[i]].seq, Ev[b[i]].seq) :
     i \in {j \in claimed : Ev[b[j]].seq < FrontierBefore(b, claimed, j)}}

\* The source's clock and the recorder's disagree.
SkewFindings(b, stored) ==
  {Finding("skew", b[i], 0, 0) :
     i \in {j \in stored : now - Ev[b[j]].at > Skew \/ Ev[b[j]].at - now > Skew}}

\* The events a batch stores, in order; an entry is hashed onto the head the one
\* before it left.
Nth(positions, k) == CHOOSE i \in positions : Cardinality({j \in positions : j < i}) = k - 1
Kept(b, stored) == [k \in 1..Cardinality(stored) |-> b[Nth(stored, k)]]
Entries(kept) ==
  [k \in DOMAIN kept |-> [event |-> kept[k], prev |-> head \o SubSeq(kept, 1, k - 1)]]

\* Mutation: the chain is advanced before the payload is sealed.
NewHeadClaimed(b, claimed, stored) == head \o Kept(b, claimed)

NewHead(b, claimed, stored) == head \o Kept(b, stored)

\* The heartbeat a source is left with: the last one delivered, whatever it says
\* of the time.
Beats(b, claimed, s) == {i \in claimed : Ev[b[i]].beat /\ Ev[b[i]].source = s}
NewBeat(b, beats, s) == IF beats = {} THEN beat[s] ELSE b[Max(beats)]

\* Mutation: the last sequence seen is signed for, gaps below it or not.
SignedToLast(s, sequences) ==
  IF sequences = {} THEN {} ELSE {[source |-> s, from |-> Min(sequences), to |-> Max(sequences)]}

\* What is signed for s: from its first sequence up to the first one missing.
Signed(s, sequences) ==
  {[source |-> s, from |-> w[1], to |-> w[2]] :
     w \in {p \in sequences \X sequences : /\ \A n \in sequences : p[1] <= n
                                           /\ p[1]..p[2] \subseteq sequences
                                           /\ p[2] + 1 \notin sequences}}

Touched(b) == {Ev[e].source : e \in Range(b)}

-----------------------------------------------------------------------------
(* Handlers                                                                  *)

\* Every event's label is checked before any state moves.  Findings are local to
\* the call until the loop ends: a refusal drops them.
Ingest(role, b, bad) ==
  /\ \A e \in Range(b) : MayLabel(role, Ev[e].label)
  /\ LET stored == Stored(b, bad)
         claimed == Claimed(b, bad)
         sequences == [s \in Sources |-> SeenBefore(b, claimed, s, Len(b) + 1)]
         beats == [s \in Sources |-> Beats(b, claimed, s)]
         kept == {b[i] : i \in stored}
     IN
     /\ log' = log \o Entries(Kept(b, stored))
     /\ head' = NewHead(b, claimed, stored)
     /\ byID' = byID \cup kept
     /\ live' = [e \in Events |-> IF e \in kept THEN "whole" ELSE live[e]]
     /\ seen' = sequences
     /\ last' = [s \in Sources |-> Frontier(sequences[s])]
     /\ beat' = [s \in Sources |-> NewBeat(b, beats[s], s)]
     /\ reported' = {s \in reported : beats[s] = {}}
     /\ unsealed' = unsealed \cup {b[i] : i \in claimed \ stored}
     /\ IF End(b, bad) <= Len(b)
        THEN /\ halved' = (halved \/ claimed # {})
             /\ UNCHANGED <<findings, checkpoints>>
        ELSE /\ findings' = findings \cup GapFindings(b, claimed) \cup LateFindings(b, claimed)
                                     \cup SkewFindings(b, stored)
             /\ checkpoints' = checkpoints \cup UNION {Signed(s, sequences[s]) : s \in Touched(b)}
             /\ UNCHANGED halved
  /\ UNCHANGED <<silences, holds, now>>

\* One finding per source whose last heartbeat is older than maxQuiet, and none
\* again until another heartbeat arrives.
Silent(s) == beat[s] # NoBeat /\ s \notin reported /\ now - Ev[beat[s]].at > MaxQuiet

CheckCollectorLiveness ==
  /\ \E s \in Sources : Silent(s)
  /\ silences' = [e \in Events |->
                    silences[e] + Cardinality({s \in Sources : Silent(s) /\ beat[s] = e})]
  /\ reported' = reported \cup {s \in Sources : Silent(s)}
  /\ UNCHANGED <<log, head, byID, seen, last, beat, checkpoints, unsealed, halved,
                 findings, live, holds, now>>

\* Payload bytes of object references older than the horizon are deleted.
Lapsed(e, kind, window) ==
  e \in byID /\ Ev[e].payload = kind /\ live[e] = "whole" /\ Ev[e].at < now - window

ApplyRetention(window) ==
  /\ live' = [e \in Events |-> IF Lapsed(e, "object_ref", window) THEN "deleted" ELSE live[e]]
  /\ UNCHANGED <<storeVars, findings, silences, holds, now>>

Held(e) == holds[Ev[e].run] > now

\* The pass with two windows, which skips the events of a held run.
ApplyRetentionPolicy(raw, detailed) ==
  /\ live' = [e \in Events |->
                IF Held(e) THEN live[e]
                ELSE IF Lapsed(e, "object_ref", raw) THEN "deleted"
                ELSE IF Lapsed(e, "inline", detailed) THEN "redacted"
                ELSE live[e]]
  /\ UNCHANGED <<storeVars, findings, silences, holds, now>>

SetLegalHold(r, until) ==
  /\ until > now
  /\ holds' = [holds EXCEPT ![r] = until]
  /\ UNCHANGED <<storeVars, findings, silences, live, now>>

ReleaseLegalHold(r) ==
  /\ holds' = [holds EXCEPT ![r] = 0]
  /\ UNCHANGED <<storeVars, findings, silences, live, now>>

RecorderTick ==
  /\ now < MaxNow
  /\ now' = now + 1
  /\ UNCHANGED <<storeVars, findings, silences, live, holds>>

RecorderNext ==
  \/ \E role \in Roles, b \in Batches : \E bad \in SUBSET Sealable(b) : Ingest(role, b, bad)
  \/ CheckCollectorLiveness
  \/ \E w \in Windows : ApplyRetention(w)
  \/ \E raw, detailed \in Windows : ApplyRetentionPolicy(raw, detailed)
  \/ \E r \in EvidenceRuns, until \in HoldEnds : SetLegalHold(r, until)
  \/ \E r \in EvidenceRuns : ReleaseLegalHold(r)
  \/ RecorderTick

RecorderSpec == RecorderInit /\ [][RecorderNext]_recorderVars

-----------------------------------------------------------------------------
(* Properties                                                                *)

RecorderTypeOK ==
  /\ log \in Seq([event : Events, prev : Seq(Events)])
  /\ head \in Seq(Events)
  /\ byID \subseteq Events
  /\ seen \in [Sources -> SUBSET Nat]
  /\ last \in [Sources -> Nat \cup {-1}]
  /\ beat \in [Sources -> Events \cup {NoBeat}]
  /\ reported \subseteq Sources
  /\ silences \in [Events -> Nat]
  /\ live \in [Events -> {"absent", "whole", "deleted", "redacted"}]
  /\ holds \in [EvidenceRuns -> 0..Forever]
  /\ now \in 0..MaxNow
  /\ unsealed \subseteq Events
  /\ halved \in BOOLEAN
  /\ \A c \in checkpoints : c.source \in Sources /\ c.from \in Nat /\ c.to \in Nat

\* Verify finds the chain intact after any mixture of duplicates, reuses and
\* sealing failures: every entry links to the one before, the head is the last
\* one, and the ids the store answers for are exactly the chained ones.
ChainVerifies ==
  /\ head = [i \in DOMAIN log |-> log[i].event]
  /\ \A i \in DOMAIN log : log[i].prev = SubSeq(head, 1, i - 1)
  /\ byID = Range(head)

\* No two stored events share a sequence of their source.
SlotsUnique == \A e, f \in byID : Slot(e) = Slot(f) => e = f

\* Each sequence of a signed range was claimed by exactly one event.  It is stored,
\* or a sealing failure dropped it after the claim (recorder.go:377-380, 393-398):
\* the range may reach over such a gap, see CheckpointsCoverStored.
CheckpointsHonest ==
  \A c \in checkpoints : \A n \in c.from..c.to :
    Cardinality({e \in byID \cup unsealed : Slot(e) = <<c.source, n>>}) = 1

\* recorder.go:482-484: a checkpoint "never claims coverage over a gap: signing
\* [from, to] asserts every sequence in between is present".
CheckpointsCoverStored ==
  \A c \in checkpoints : \A n \in c.from..c.to : \E e \in byID : Slot(e) = <<c.source, n>>

\* The recorder's own findings miss nothing and say nothing twice: every sequence
\* missing below a frontier is named by a gap finding, however deliveries were
\* ordered, unless a batch was refused midway (recorder.go:339-345), and no heartbeat
\* is cited by two silence findings (recorder.go:738-739).
GapsDeclared ==
  halved \/ \A s \in Sources : \A n \in (0..last[s]) \ seen[s] :
              \E f \in findings : f.kind = "gap" /\ f.source = s /\ n \in f.from..f.to
SilenceReportedOnce == \A e \in Events : silences[e] <= 1
FindingsExact == GapsDeclared /\ SilenceReportedOnce
=============================================================================
