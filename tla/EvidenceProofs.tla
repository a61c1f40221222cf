---------------------------- MODULE EvidenceProofs ----------------------------
(***************************************************************************)
(* Proofs about the evidence plane: key custody, the recorder's chain,     *)
(* checkpoints and findings, and the verifier's rule for choosing between  *)
(* evidence, for every value of their constants.                           *)
(***************************************************************************)
EXTENDS KeyCustody, Recorder, Verifier, FiniteSetTheorems, SequenceTheorems, TLAPS

-----------------------------------------------------------------------------
(* Key custody: a key is retired after its successor is made.                *)

\* A key newer than k that serves k's usage.
HasSuccessor(k) == \E j \in Keys : j > k /\ usage[j] = usage[k]

\* A rotation about to retire its key has made the successor.
RotationPrepared == \A p \in Rotators : rotating[p].pc = "retire" => HasSuccessor(rotating[p].key)

\* A call that began after the retirement is stopped by the check.
LateCallsStop ==
  \A p \in Signers :
    /\ signing[p].pc = "check" /\ signing[p].late => signing[p].key \in retired
    /\ signing[p].pc = "sign" => ~signing[p].late

KeyInv == KeyTypeOK /\ RotationPrepared /\ SuccessorFirst /\ LateCallsStop /\ LateSignRefused

LEMMA KeyInitially == KeyInit => KeyInv
  BY KeyAssumption DEF KeyInit, KeyInv, KeyTypeOK, RotationPrepared, SuccessorFirst, LateCallsStop,
    LateSignRefused, Keys, SignCall, RotateCall, NoUsage

\* Making a key leaves every older key's usage and successor alone.
LEMMA NewKeyKeeps ==
  ASSUME KeyTypeOK, NEW u \in Usages, NewKey(u)
  PROVE  /\ created' \in 0..MaxKeys
         /\ usage' \in [1..MaxKeys -> Usages \cup {NoUsage}]
         /\ \A k \in Keys' : usage'[k] \in Usages
         /\ Keys \subseteq Keys'
         /\ \A k \in Keys : usage'[k] = usage[k]
         /\ \A k \in Keys : HasSuccessor(k) => HasSuccessor(k)'
         /\ \A k \in Keys : usage[k] = u => HasSuccessor(k)'
<1>1. created' \in 0..MaxKeys /\ created' = created + 1 /\ created \in Nat
  BY KeyAssumption DEF NewKey, KeyTypeOK
<1>2. usage' \in [1..MaxKeys -> Usages \cup {NoUsage}] BY DEF NewKey, KeyTypeOK
<1>3. Keys' = Keys \cup {created + 1} /\ created + 1 \in 1..MaxKeys
  BY <1>1 DEF Keys
<1>4. \A k \in Keys : usage'[k] = usage[k] /\ k \in 1..MaxKeys /\ k < created + 1
  <2> SUFFICES ASSUME NEW k \in Keys
               PROVE  usage'[k] = usage[k] /\ k \in 1..MaxKeys /\ k < created + 1
    OBVIOUS
  <2>1. k \in 1..MaxKeys /\ k < created + 1 /\ k # created + 1
    BY KeyAssumption, <1>1 DEF Keys, KeyTypeOK
  <2> QED BY <2>1 DEF NewKey, KeyTypeOK
<1>5. usage'[created + 1] = u BY <1>3 DEF NewKey, KeyTypeOK
<1>6. \A k \in Keys' : usage'[k] \in Usages BY <1>3, <1>4, <1>5 DEF KeyTypeOK
<1>7. \A k \in Keys : HasSuccessor(k) => HasSuccessor(k)'
  BY <1>3, <1>4 DEF HasSuccessor
<1>8. \A k \in Keys : usage[k] = u => HasSuccessor(k)'
  BY <1>3, <1>4, <1>5 DEF HasSuccessor
<1> QED BY <1>1, <1>2, <1>3, <1>4, <1>6, <1>7, <1>8

LEMMA KeyStep == KeyInv /\ [KeyNext]_keyVars => KeyInv'
<1> SUFFICES ASSUME KeyInv, [KeyNext]_keyVars PROVE KeyInv'
  OBVIOUS
<1> USE DEF KeyInv
<1>1. ASSUME NEW u \in Usages, CreateKey(u) PROVE KeyInv'
  <2>1. NewKey(u) /\ UNCHANGED <<retired, signing, rotating, signatures>> BY <1>1 DEF CreateKey
  <2>2. KeyTypeOK' BY <2>1, NewKeyKeeps DEF KeyTypeOK
  <2>3. RotationPrepared'
    BY <2>1, NewKeyKeeps DEF RotationPrepared, KeyTypeOK, RotateCall
  <2>4. SuccessorFirst'
    BY <2>1, NewKeyKeeps DEF SuccessorFirst, HasSuccessor, KeyTypeOK
  <2>5. LateCallsStop' /\ LateSignRefused' BY <2>1 DEF LateCallsStop, LateSignRefused
  <2> QED BY <2>2, <2>3, <2>4, <2>5
<1>2. ASSUME NEW p \in Signers, NEW k \in 1..MaxKeys, SignLookup(p, k) PROVE KeyInv'
  <2>1. signing' \in [Signers -> SignCall]
    BY <1>2, KeyAssumption DEF SignLookup, KeyTypeOK, SignCall
  <2>2. k \in Keys /\ UNCHANGED <<created, usage, retired, rotating, signatures>>
    BY <1>2 DEF SignLookup, Known
  <2>3. \A q \in Signers : IF q = p THEN signing'[q].pc = "check" /\ signing'[q].key = k
                                         /\ signing'[q].late = (k \in retired)
                                    ELSE signing'[q] = signing[q]
    BY <1>2 DEF SignLookup, KeyTypeOK
  <2>4. KeyTypeOK' BY <2>1, <2>2, <2>3 DEF KeyTypeOK, Keys
  <2>5. LateCallsStop' BY <2>2, <2>3 DEF LateCallsStop
  <2>6. RotationPrepared' /\ SuccessorFirst' /\ LateSignRefused'
    BY <2>2 DEF RotationPrepared, HasSuccessor, Keys, SuccessorFirst, LateSignRefused
  <2> QED BY <2>4, <2>5, <2>6
<1>3. ASSUME NEW p \in Signers, SignCheck(p) PROVE KeyInv'
  BY <1>3 DEF SignCheck, Retired, KeyTypeOK, Keys, RotationPrepared, HasSuccessor, SuccessorFirst,
    LateCallsStop, LateSignRefused, SignCall
<1>4. ASSUME NEW p \in Signers, SignFinish(p) PROVE KeyInv'
  BY <1>4 DEF SignFinish, KeyTypeOK, Keys, RotationPrepared, HasSuccessor, SuccessorFirst,
    LateCallsStop, LateSignRefused, SignCall
<1>5. ASSUME NEW p \in Rotators, NEW k \in 1..MaxKeys, RotateLookup(p, k) PROVE KeyInv'
  BY <1>5, KeyAssumption DEF RotateLookup, KeyTypeOK, Known, Keys, RotationPrepared, HasSuccessor,
    SuccessorFirst, LateCallsStop, LateSignRefused, RotateCall
<1>6. ASSUME NEW p \in Rotators, RotateCheck(p) PROVE KeyInv'
  BY <1>6 DEF RotateCheck, Retired, KeyTypeOK, Keys, RotationPrepared, HasSuccessor,
    SuccessorFirst, LateCallsStop, LateSignRefused, RotateCall
<1>7. ASSUME NEW p \in Rotators, RotateCreate(p) PROVE KeyInv'
  <2>1. rotating[p].pc = "create" /\ rotating[p].key \in Keys
    BY <1>7 DEF RotateCreate, KeyTypeOK
  <2>2. UNCHANGED <<retired, signing, signatures>> BY <1>7 DEF RotateCreate
  <2>3. CASE Succeed(p)
    <3> DEFINE u == usage[rotating[p].key]
    <3>1. u \in Usages /\ NewKey(u) BY <2>1, <2>3 DEF Succeed, KeyTypeOK
    <3>2. rotating' = [rotating EXCEPT ![p].pc = "retire"] BY <2>3 DEF Succeed
    <3>3. KeyTypeOK'
      <4>1. rotating' \in [Rotators -> RotateCall] BY <3>2 DEF KeyTypeOK, RotateCall
      <4>2. \A q \in Rotators : rotating'[q].pc # "idle" => rotating[q].key \in Keys
        BY <2>1, <3>2 DEF KeyTypeOK, RotateCall
      <4>3. \A q \in Rotators : rotating'[q].key = rotating[q].key
        BY <3>2 DEF KeyTypeOK, RotateCall
      <4>4. /\ created' \in 0..MaxKeys /\ usage' \in [1..MaxKeys -> Usages \cup {NoUsage}]
            /\ \A k \in Keys' : usage'[k] \in Usages
            /\ Keys \subseteq Keys'
        BY <3>1, NewKeyKeeps
      <4> HIDE DEF u
      <4> QED BY <2>2, <4>1, <4>2, <4>3, <4>4 DEF KeyTypeOK
    <3>4. \A q \in Rotators : rotating'[q].key = rotating[q].key
                              /\ (q # p => rotating'[q].pc = rotating[q].pc)
      BY <3>2 DEF KeyTypeOK, RotateCall
    <3>5. RotationPrepared'
      <4> SUFFICES ASSUME NEW q \in Rotators, rotating'[q].pc = "retire"
                   PROVE  HasSuccessor(rotating[q].key)'
        BY <3>4 DEF RotationPrepared, HasSuccessor
      <4>1. CASE q = p BY <4>1, <2>1, <3>1, <3>4, NewKeyKeeps DEF HasSuccessor
      <4>2. CASE q # p
        <5>1. rotating[q].pc = "retire" /\ rotating[q].key \in Keys BY <4>2, <3>4 DEF KeyTypeOK
        <5> QED BY <5>1, <3>1, <3>4, NewKeyKeeps DEF RotationPrepared, HasSuccessor
      <4> QED BY <4>1, <4>2
    <3>6. SuccessorFirst' BY <2>2, <3>1, NewKeyKeeps DEF SuccessorFirst, HasSuccessor, KeyTypeOK
    <3>7. LateCallsStop' /\ LateSignRefused' BY <2>2 DEF LateCallsStop, LateSignRefused
    <3> QED BY <3>3, <3>5, <3>6, <3>7
  <2>4. CASE rotating' = [rotating EXCEPT ![p].pc = "idle"] /\ UNCHANGED <<created, usage>>
    BY <2>2, <2>4 DEF KeyTypeOK, Keys, RotationPrepared, HasSuccessor, SuccessorFirst,
      LateCallsStop, LateSignRefused, RotateCall
  <2> QED BY <1>7, <2>3, <2>4 DEF RotateCreate
<1>8. ASSUME NEW p \in Rotators, RotateRetire(p) PROVE KeyInv'
  <2>1. rotating[p].key \in Keys /\ HasSuccessor(rotating[p].key)
    BY <1>8 DEF RotateRetire, KeyTypeOK, RotationPrepared
  <2> QED
    BY <1>8, <2>1 DEF RotateRetire, KeyTypeOK, Keys, RotationPrepared, HasSuccessor, SuccessorFirst,
      LateCallsStop, LateSignRefused, RotateCall
<1>9. CASE UNCHANGED keyVars
  BY <1>9 DEF keyVars, KeyTypeOK, Keys, RotationPrepared, HasSuccessor, SuccessorFirst,
    LateCallsStop, LateSignRefused
<1> QED
  BY <1>1, <1>2, <1>3, <1>4, <1>5, <1>6, <1>7, <1>8, <1>9 DEF KeyNext

\* The inductive invariant of key custody (keycustody/service.go): types, a
\* successor for every retired key and for every key about to be retired, and no
\* signature by a call that began too late.
THEOREM KeyInvariance == KeySpec => []KeyInv
  BY KeyInitially, KeyStep, PTL DEF KeySpec

\* Every reachable state of the key service is well typed.
THEOREM KeyTypes == KeySpec => []KeyTypeOK
<1>1. KeyInv => KeyTypeOK BY DEF KeyInv
<1> QED BY <1>1, KeyInvariance, PTL

\* A retired key always has a newer key of its usage, however rotations overlap
\* and whichever of them fail (service.go:158-161).
THEOREM RetiredHasSuccessor == KeySpec => []SuccessorFirst
<1>1. KeyInv => SuccessorFirst BY DEF KeyInv
<1> QED BY <1>1, KeyInvariance, PTL

\* A Sign that begins after the retirement never signs with the key
\* (service.go:160-161).
THEOREM LateSignsRefused == KeySpec => []LateSignRefused
<1>1. KeyInv => LateSignRefused BY DEF KeyInv
<1> QED BY <1>1, KeyInvariance, PTL

-----------------------------------------------------------------------------
(* Sets of numbers.                                                          *)

\* A set of natural numbers has a least one.
LEMMA LeastNumber ==
  ASSUME NEW S \in SUBSET Nat, S # {}
  PROVE  \E n \in S : \A m \in S : n <= m
<1>1. PICK n \in S : \A m \in S : ~ (<<m, n>> \in OpToRel(<, Nat))
  BY NatLessThanWellFounded, WFMin
<1>2. \A m \in S : ~(m < n)
  BY <1>1 DEF OpToRel
<1> QED BY <1>2

\* The Max of a bounded set of integers is its greatest member.
LEMMA MaxIsGreatest ==
  ASSUME NEW S \in SUBSET Int, S # {}, \E b \in Int : \A m \in S : m <= b
  PROVE  Max(S) \in S /\ \A m \in S : m <= Max(S)
<1>1. PICK b \in Int : \A m \in S : m <= b
  OBVIOUS
<1> DEFINE D == {b - m : m \in S}
<1>2. D \in SUBSET Nat /\ D # {}
  BY <1>1
<1>3. PICK d \in D : \A c \in D : d <= c
  BY <1>2, LeastNumber
<1>4. PICK x \in S : d = b - x
  BY <1>3
<1>5. \A m \in S : b - m \in D
  OBVIOUS
<1>6. \A m \in S : m <= x
  BY <1>3, <1>4, <1>5
<1>7. Max(S) = CHOOSE y \in S : \A m \in S : m <= y
  BY Zenon DEF Max
<1> QED BY <1>6, <1>7

-----------------------------------------------------------------------------
(* The recorder: positions of a batch in order. *)

LEMMA EnumerationCovers ==
  ASSUME NEW S \in SUBSET Nat, IsFiniteSet(S)
  PROVE  /\ Cardinality(S) \in Nat
         /\ \A k \in 1..Cardinality(S) : Nth(S, k) \in S
         /\ \A i \in S : \E k \in 1..Cardinality(S) : Nth(S, k) = i
<1> DEFINE below(i) == {j \in S : j < i}
           n == Cardinality(S)
           rank == [i \in S |-> Cardinality(below(i)) + 1]
<1>1. n \in Nat
  BY FS_CardinalityType
<1>2. ASSUME NEW i \in S
      PROVE  IsFiniteSet(below(i)) /\ Cardinality(below(i)) \in Nat /\ rank[i] \in 1..n
  <2>1. below(i) \in SUBSET S /\ below(i) # S
    OBVIOUS
  <2> HIDE DEF below
  <2>2. IsFiniteSet(below(i)) /\ Cardinality(below(i)) <= n /\ Cardinality(below(i)) # n
    BY <2>1, FS_Subset
  <2>3. Cardinality(below(i)) \in Nat
    BY <2>2, FS_CardinalityType
  <2> QED BY <1>1, <2>2, <2>3
<1>3. ASSUME NEW i \in S, NEW j \in S, i < j PROVE rank[i] < rank[j]
  <2>4. i \in Nat /\ j \in Nat /\ \A m \in S : m \in Nat
    OBVIOUS
  <2>5. \A m \in S : m < i => m < j
    BY <1>3, <2>4
  <2>6. below(i) \in SUBSET below(j)
    BY <2>5
  <2>7. i \in below(j) /\ i \notin below(i)
    BY <1>3, <2>4
  <2>1. below(i) \in SUBSET below(j) /\ i \in below(j) /\ i \notin below(i)
    BY <2>6, <2>7
  <2>3. IsFiniteSet(below(j))
    BY <1>2
  <2> HIDE DEF below
  <2>2. /\ Cardinality(below(i)) <= Cardinality(below(j))
        /\ Cardinality(below(i)) # Cardinality(below(j))
    BY <2>1, <2>3, FS_Subset
  <2> QED BY <1>2, <2>2
<1>4. rank \in Injection(S, 1..n)
  <2>1. rank \in [S -> 1..n]
    BY <1>2
  <2>2. \A i, j \in S : rank[i] \in Int /\ i \in Int
    BY <1>2
  <2>3. \A i, j \in S : rank[i] = rank[j] => i = j
    BY <1>3, <2>2
  <2> QED BY <2>1, <2>3 DEF Injection, IsInjective
<1>5. rank \in Surjection(S, 1..n)
  <2>1. IsFiniteSet(1..n) /\ Cardinality(1..n) = n
    BY <1>1, FS_Interval
  <2> QED BY <1>4, <2>1, FS_Injection
<1>6. \A k \in 1..n : \E i \in S : rank[i] = k
  BY <1>5 DEF Surjection
<1>7. \A k \in 1..n : \A i \in S : rank[i] = k <=> Cardinality(below(i)) = k - 1
  BY <1>2
<1>8. \A k \in 1..n : Nth(S, k) = CHOOSE i \in S : Cardinality(below(i)) = k - 1
  BY DEF Nth
<1>9. \A i, j \in S : rank[i] = rank[j] => i = j
  BY <1>4 DEF Injection, IsInjective
<1>10. \A i \in S : rank[i] \in 1..n
  BY <1>2
<1> HIDE DEF rank, below
<1>11. \A k \in 1..n : Nth(S, k) \in S /\ rank[Nth(S, k)] = k
  BY <1>6, <1>7, <1>8
<1> QED BY <1>1, <1>9, <1>10, <1>11

-----------------------------------------------------------------------------
(* One batch *)

\* What a batch claims is new and claimed once; what it stores, it has claimed.
LEMMA BatchClaims ==
  ASSUME NEW b \in Seq(Events), NEW bad
  PROVE  /\ End(b, bad) \in 1..(Len(b) + 1)
         /\ Stored(b, bad) \subseteq Claimed(b, bad)
         /\ Claimed(b, bad) \subseteq 1..Len(b)
         /\ \A i \in Claimed(b, bad) :
              /\ b[i] \in Events /\ b[i] \notin byID
              /\ Ev[b[i]].seq \notin seen[Ev[b[i]].source]
              /\ \A j \in Claimed(b, bad) : j < i => Slot(b[j]) # Slot(b[i])
<1> DEFINE n == Len(b)
           ends == {k \in 1..(n + 1) : k = n + 1 \/ Stops(b, k, bad)}
<1>1. n \in Nat /\ \A i \in 1..n : b[i] \in Events
  OBVIOUS
<1>2. n + 1 \in ends /\ ends \in SUBSET Nat
  BY <1>1
<1>3. PICK k \in ends : \A m \in ends : k <= m
  BY <1>2, LeastNumber
<1>4. \A i \in 1..(k - 1) : ~Stops(b, i, bad)
  BY <1>1, <1>3
<1>5. /\ End(b, bad) \in 1..(n + 1)
      /\ End(b, bad) = n + 1 \/ Stops(b, End(b, bad), bad)
      /\ \A i \in 1..(End(b, bad) - 1) : ~Stops(b, i, bad)
  <2>1. k \in 1..(n + 1) /\ (k = n + 1 \/ Stops(b, k, bad))
    BY <1>3
  <2> QED BY <1>4, <2>1 DEF End
<1> DEFINE x == End(b, bad)
           claimed == Claimed(b, bad)
<1> HIDE DEF n, ends, x, claimed
<1>6. ASSUME NEW i \in Stored(b, bad)
      PROVE  i \in 1..n /\ i < x /\ Fresh(b, i) /\ ~SequenceTaken(b, i)
  BY <1>1, <1>5 DEF Stored, Stops, x
<1>7. ASSUME NEW i \in claimed, i \notin Stored(b, bad)
      PROVE  i = x /\ i \in 1..n /\ Fresh(b, i) /\ ~SequenceTaken(b, i)
  BY <1>1, <1>5, <1>7 DEF Claimed, Stops, x, claimed, n
<1>8. \A i \in claimed : i \in 1..n /\ Fresh(b, i) /\ ~SequenceTaken(b, i)
  BY <1>6, <1>7
<1>9. ASSUME NEW i \in claimed
      PROVE  /\ b[i] \in Events /\ b[i] \notin byID
             /\ Ev[b[i]].seq \notin seen[Ev[b[i]].source]
  BY <1>1, <1>8 DEF Fresh, SequenceTaken
<1>10. ASSUME NEW i \in claimed, NEW j \in claimed, j < i
       PROVE  Slot(b[j]) # Slot(b[i])
  <2>1. j \in 1..(i - 1)
    BY <1>1, <1>8, <1>10
  <2> QED BY <1>8, <2>1 DEF SequenceTaken
<1>11. Stored(b, bad) \subseteq claimed
  BY DEF Claimed, claimed
<1> QED BY <1>5, <1>8, <1>9, <1>10, <1>11 DEF n, claimed

\* A set of numbers that none exceeds some number.
Bounded(S) == \E m \in Int : \A k \in S : k <= m

\* The frontier of a bounded set of sequences is at least every one of them.
LEMMA FrontierIsLast ==
  ASSUME NEW S \in SUBSET Nat, Bounded(S)
  PROVE  /\ Frontier(S) \in Nat \cup {-1}
         /\ \A m \in S : m <= Frontier(S)
         /\ Frontier(S) \in S \/ S = {}
<1>1. CASE S = {}
  BY <1>1 DEF Frontier
<1>2. CASE S # {}
  <2>1. S \in SUBSET Int
    OBVIOUS
  <2>2. Max(S) \in S /\ \A m \in S : m <= Max(S)
    BY <1>2, <2>1, MaxIsGreatest DEF Bounded
  <2> QED BY <1>2, <2>2 DEF Frontier
<1> QED BY <1>1, <1>2

\* One sequence more.
LEMMA FrontierMoves ==
  ASSUME NEW S \in SUBSET Nat, Bounded(S), NEW q \in Nat
  PROVE  /\ Bounded(S \cup {q})
         /\ Frontier(S \cup {q}) = IF q > Frontier(S) THEN q ELSE Frontier(S)
<1>1. /\ Frontier(S) \in Nat \cup {-1} /\ \A m \in S : m <= Frontier(S)
      /\ Frontier(S) \in S \/ (S = {} /\ Frontier(S) = -1)
  BY FrontierIsLast DEF Frontier
<1> DEFINE T == S \cup {q}
<1>2. Bounded(T)
  <2>1. PICK m \in Int : \A k \in S : k <= m
    BY DEF Bounded
  <2>2. CASE q <= m
    BY <2>1, <2>2 DEF Bounded
  <2>3. CASE ~(q <= m)
    <3>1. \A k \in T : k <= q
      BY <2>1, <2>3
    <3> QED BY <3>1 DEF Bounded
  <2> QED BY <2>2, <2>3
<1>3. T \in SUBSET Nat /\ T # {} /\ q \in T /\ S \subseteq T
  OBVIOUS
<1>4. /\ Frontier(T) \in T /\ \A m \in T : m <= Frontier(T)
      /\ Frontier(T) \in Nat
  BY <1>2, <1>3, FrontierIsLast
<1>5. Frontier(T) = q \/ Frontier(T) \in S
  BY <1>4
<1> HIDE DEF T
<1>6. q <= Frontier(T) /\ Frontier(S) <= Frontier(T)
  BY <1>1, <1>3, <1>4
<1>7. Frontier(T) = q \/ Frontier(T) <= Frontier(S)
  BY <1>1, <1>5
<1>8. Frontier(T) = IF q > Frontier(S) THEN q ELSE Frontier(S)
  BY <1>1, <1>4, <1>6, <1>7
<1> QED BY <1>2, <1>8 DEF T

\* The sequences of s that are claimed at a position are those before it and its own.
LEMMA SeenAt ==
  ASSUME NEW b \in Seq(Events), NEW claimed \in SUBSET (1..Len(b)), NEW s \in Sources
  PROVE  \A i \in 1..Len(b) :
           /\ i \in claimed /\ Ev[b[i]].source = s =>
                SeenBefore(b, claimed, s, i + 1) = SeenBefore(b, claimed, s, i) \cup {Ev[b[i]].seq}
           /\ ~(i \in claimed /\ Ev[b[i]].source = s) =>
                SeenBefore(b, claimed, s, i + 1) = SeenBefore(b, claimed, s, i)
<1> TAKE i \in 1..Len(b)
<1> DEFINE before(p) == {k \in claimed : k < p /\ Ev[b[k]].source = s}
<1>1. before(i + 1) = IF i \in claimed /\ Ev[b[i]].source = s THEN before(i) \cup {i} ELSE before(i)
  <2>1. \A k \in claimed : k \in Int /\ (k < i + 1 <=> k < i \/ k = i)
    OBVIOUS
  <2> QED BY <2>1
<1>2. \A p : SeenBefore(b, claimed, s, p) = seen[s] \cup {Ev[b[j]].seq : j \in before(p)}
  BY DEF SeenBefore
<1> HIDE DEF before
<1>3. CASE i \in claimed /\ Ev[b[i]].source = s
  <2>1. before(i + 1) = before(i) \cup {i}
    BY <1>1, <1>3
  <2> QED BY <1>2, <1>3, <2>1
<1>4. CASE ~(i \in claimed /\ Ev[b[i]].source = s)
  <2>1. before(i + 1) = before(i)
    BY <1>1, <1>4
  <2> QED BY <1>2, <1>4, <2>1
<1> QED BY <1>3, <1>4

LEMMA SeenFirst ==
  ASSUME NEW b \in Seq(Events), NEW claimed \in SUBSET (1..Len(b)), NEW s \in Sources
  PROVE  SeenBefore(b, claimed, s, 1) = seen[s]
<1>1. \A k \in claimed : ~(k < 1)
  OBVIOUS
<1> DEFINE before == {k \in claimed : k < 1 /\ Ev[b[k]].source = s}
<1>2. before = {}
  BY <1>1
<1>3. SeenBefore(b, claimed, s, 1) = seen[s] \cup {Ev[b[j]].seq : j \in before}
  BY DEF SeenBefore
<1> HIDE DEF before
<1> QED BY <1>2, <1>3

\* The sequences stay bounded along a batch, and every one missing below the frontier
\* is named by a gap finding.
LEMMA BatchGaps ==
  ASSUME NEW b \in Seq(Events), NEW claimed \in SUBSET (1..Len(b)), NEW s \in Sources,
         seen[s] \in SUBSET Nat, Bounded(seen[s])
  PROVE  LET Missing(S) == (0..Frontier(S)) \ S
             Named(k) == \E f \in findings \cup GapFindings(b, claimed) :
                           f.kind = "gap" /\ f.source = s /\ k \in f.from..f.to
             after == SeenBefore(b, claimed, s, Len(b) + 1)
         IN  /\ after \in SUBSET Nat /\ Bounded(after)
             /\ (\A k \in Missing(seen[s]) : Named(k)) => (\A k \in Missing(after) : Named(k))
<1> DEFINE Missing(S) == (0..Frontier(S)) \ S
           Named(k) == \E f \in findings \cup GapFindings(b, claimed) :
                         f.kind = "gap" /\ f.source = s /\ k \in f.from..f.to
           S(i) == SeenBefore(b, claimed, s, i)
           Good(i) == /\ S(i) \in SUBSET Nat /\ Bounded(S(i))
                      /\ (\A k \in Missing(seen[s]) : Named(k)) => (\A k \in Missing(S(i)) : Named(k))
           n == Len(b)
<1>1. n \in Nat
  OBVIOUS
<1>2. Good(1)
  BY SeenFirst
<1>3. ASSUME NEW i \in 1..n, Good(i) PROVE Good(i + 1)
  <2>1. CASE ~(i \in claimed /\ Ev[b[i]].source = s)
    <3>1. S(i + 1) = S(i)
      BY <2>1, SeenAt
    <3> HIDE DEF S, Missing, Named
    <3> QED BY <1>3, <3>1
  <2>2. CASE i \in claimed /\ Ev[b[i]].source = s
    <3> DEFINE q == Ev[b[i]].seq
               F == Frontier(S(i))
    <3>1. S(i + 1) = S(i) \cup {q}
      BY <2>2, SeenAt
    <3>2. q \in Nat
      BY RecorderAssumption DEF EventShapes
    <3>3. F \in Nat \cup {-1}
      BY <1>3, FrontierIsLast
    <3>4. FrontierBefore(b, claimed, i) = F
      BY <2>2 DEF FrontierBefore
    <3>5. ASSUME NEW k \in (F + 1)..(q - 1), q > F + 1 PROVE Named(k)
      <4> DEFINE f == Finding("gap", b[i], F + 1, q - 1)
      <4>1. f \in GapFindings(b, claimed)
        BY <2>2, <3>4, <3>5 DEF GapFindings
      <4>2. f.kind = "gap" /\ f.source = s /\ f.from = F + 1 /\ f.to = q - 1
        BY <2>2 DEF Finding
      <4> HIDE DEF f
      <4> QED BY <4>1, <4>2
    <3> HIDE DEF Named, S, q
    <3>6. /\ S(i + 1) \in SUBSET Nat /\ Bounded(S(i + 1))
          /\ Frontier(S(i + 1)) = IF q > F THEN q ELSE F
      BY <1>3, <3>1, <3>2, FrontierMoves
    <3>7. ASSUME \A k \in Missing(S(i)) : Named(k), NEW k \in Missing(S(i + 1)) PROVE Named(k)
      <4>1. k \in Nat /\ k \notin S(i) /\ k # q /\ k <= Frontier(S(i + 1))
        BY <3>1, <3>2, <3>3, <3>6
      <4>2. CASE k <= F
        BY <3>3, <3>7, <4>1, <4>2
      <4>3. CASE ~(k <= F)
        BY <3>2, <3>3, <3>5, <3>6, <4>1, <4>3
      <4> QED BY <4>2, <4>3
    <3> HIDE DEF Missing, F
    <3> QED BY <1>3, <3>6, <3>7
  <2> QED BY <2>1, <2>2
<1> HIDE DEF Good
<1>4. Good(n + 1)
  <2> DEFINE bad == {i \in 1..(n + 1) : ~Good(i)}
  <2> SUFFICES ASSUME bad # {} PROVE FALSE
    BY <1>1
  <2>1. bad \in SUBSET Nat
    BY <1>1
  <2>2. PICK i \in bad : \A j \in bad : i <= j
    BY <2>1, LeastNumber
  <2>3. i - 1 \in 1..n /\ i - 1 \notin bad
    BY <1>1, <1>2, <2>2
  <2>4. Good(i - 1 + 1) /\ i - 1 + 1 = i
    BY <1>1, <1>3, <2>3
  <2> QED BY <2>2, <2>4
<1> QED BY <1>4 DEF Good

-----------------------------------------------------------------------------
(* The invariant *)

\* The events whose sequence is claimed.
Claiming == byID \cup unsealed

ClaimsExact ==
  /\ \A e, f \in Claiming : Slot(e) = Slot(f) => e = f
  /\ \A s \in Sources : seen[s] = {Ev[e].seq : e \in {x \in Claiming : Ev[x].source = s}}

FrontiersExact ==
  \A s \in Sources : last[s] = Frontier(seen[s]) /\ Bounded(seen[s])

SignedSeen ==
  \A c \in checkpoints : c.from..c.to \subseteq seen[c.source]

\* A heartbeat whose silence may still be reported is claimed, and cited by no finding.
SilenceOpen ==
  /\ \A s \in Sources : beat[s] # NoBeat =>
       /\ beat[s] \in Claiming /\ Ev[beat[s]].source = s
       /\ s \notin reported => silences[beat[s]] = 0
  /\ \A e \in Events : silences[e] <= 1 /\ (silences[e] # 0 => e \in Claiming)

RecorderInv ==
  /\ RecorderTypeOK /\ ChainVerifies /\ ClaimsExact /\ FrontiersExact
  /\ SignedSeen /\ SilenceOpen /\ GapsDeclared

\* What a batch claims is claimed by nothing before, and no slot twice.
LEMMA NewClaims ==
  ASSUME RecorderInv, NEW b \in Seq(Events), NEW bad
  PROVE  LET K == {b[i] : i \in Claimed(b, bad)} IN
         /\ K \in SUBSET Events
         /\ \A k \in K : k \notin Claiming /\ Ev[k].seq \notin seen[Ev[k].source]
         /\ \A k, l \in K : Slot(k) = Slot(l) => k = l
         /\ \A e \in Claiming, k \in K : Slot(e) # Slot(k)
<1> DEFINE K == {b[i] : i \in Claimed(b, bad)}
           claimed == Claimed(b, bad)
<1>1. \A i \in claimed :
              /\ i \in Int
              /\ b[i] \in Events /\ b[i] \notin byID
              /\ Ev[b[i]].seq \notin seen[Ev[b[i]].source]
              /\ \A j \in claimed : j < i => Slot(b[j]) # Slot(b[i])
  BY BatchClaims
<1> HIDE DEF claimed
<1>2. K = {b[i] : i \in claimed}
  BY DEF claimed
<1> HIDE DEF K
<1>3. K \in SUBSET Events /\ \A k \in K : Ev[k].seq \notin seen[Ev[k].source]
  BY <1>1, <1>2
<1>4. ASSUME NEW e \in Claiming, NEW k \in K PROVE Slot(e) # Slot(k)
  <2>1. e \in Events
    BY DEF RecorderInv, RecorderTypeOK, Claiming
  <2>2. Ev[e].source \in Sources
    BY <2>1, RecorderAssumption DEF EventShapes
  <2>3. Ev[e].seq \in seen[Ev[e].source]
    BY <2>2 DEF RecorderInv, ClaimsExact
  <2> QED BY <1>3, <2>3 DEF Slot
<1>5. \A k \in K : k \notin Claiming
  BY <1>4
<1>6. ASSUME NEW k \in K, NEW l \in K, Slot(k) = Slot(l) PROVE k = l
  <2>1. PICK i \in claimed, j \in claimed : k = b[i] /\ l = b[j]
    BY <1>2
  <2>2. i = j \/ i < j \/ j < i
    BY <1>1
  <2> QED BY <1>1, <1>6, <2>1, <2>2
<1> QED BY <1>3, <1>4, <1>5, <1>6 DEF K

\* The recorder's claims after a batch.
LEMMA IngestClaims ==
  ASSUME RecorderInv, NEW role \in Roles, NEW b \in Batches, NEW bad, Ingest(role, b, bad)
  PROVE  LET K == {b[i] : i \in Claimed(b, bad)} IN
         /\ Claiming' = Claiming \cup K
         /\ byID' = byID \cup {b[i] : i \in Stored(b, bad)}
         /\ unsealed' \subseteq unsealed \cup K
         /\ \A s \in Sources :
              /\ seen'[s] = SeenBefore(b, Claimed(b, bad), s, Len(b) + 1)
              /\ seen'[s] = seen[s] \cup {Ev[k].seq : k \in {x \in K : Ev[x].source = s}}
              /\ last'[s] = Frontier(seen'[s])
<1> DEFINE claimed == Claimed(b, bad)
           stored == Stored(b, bad)
           K == {b[i] : i \in claimed}
<1>1. b \in Seq(Events) /\ Len(b) \in Nat
  BY RecorderAssumption
<1>2. stored \subseteq claimed /\ claimed \subseteq 1..Len(b)
  BY <1>1, BatchClaims
<1>3. /\ byID' = byID \cup {b[i] : i \in stored}
      /\ unsealed' = unsealed \cup {b[i] : i \in claimed \ stored}
      /\ seen' = [s \in Sources |-> SeenBefore(b, claimed, s, Len(b) + 1)]
      /\ last' = [s \in Sources |->
                    Frontier([t \in Sources |-> SeenBefore(b, claimed, t, Len(b) + 1)][s])]
  BY Zenon DEF Ingest
<1> HIDE DEF claimed, stored
<1>4. \A i \in claimed : i < Len(b) + 1
  BY <1>1, <1>2
<1>5. ASSUME NEW s \in Sources
      PROVE  /\ seen'[s] = SeenBefore(b, claimed, s, Len(b) + 1)
             /\ seen'[s] = seen[s] \cup {Ev[k].seq : k \in {x \in K : Ev[x].source = s}}
             /\ last'[s] = Frontier(seen'[s])
  <2>1. seen'[s] = SeenBefore(b, claimed, s, Len(b) + 1) /\ last'[s] = Frontier(seen'[s])
    BY <1>3
  <2>2. SeenBefore(b, claimed, s, Len(b) + 1) =
          seen[s] \cup {Ev[b[j]].seq : j \in {k \in claimed : k < Len(b) + 1 /\ Ev[b[k]].source = s}}
    BY DEF SeenBefore
  <2>3. {k \in claimed : k < Len(b) + 1 /\ Ev[b[k]].source = s}
          = {k \in claimed : Ev[b[k]].source = s}
    BY <1>4
  <2>4. {Ev[b[j]].seq : j \in {k \in claimed : Ev[b[k]].source = s}}
          = {Ev[k].seq : k \in {x \in K : Ev[x].source = s}}
    OBVIOUS
  <2> QED BY <2>1, <2>2, <2>3, <2>4
<1>6. Claiming' = Claiming \cup K /\ unsealed' \subseteq unsealed \cup K
  BY <1>2, <1>3 DEF Claiming
<1> QED BY <1>3, <1>5, <1>6 DEF claimed, stored

LEMMA IngestKeepsClaims ==
  ASSUME RecorderInv, NEW role \in Roles, NEW b \in Batches, NEW bad, Ingest(role, b, bad)
  PROVE  ClaimsExact'
<1> DEFINE K == {b[i] : i \in Claimed(b, bad)}
<1>0. b \in Seq(Events)
  BY RecorderAssumption
<1>1. /\ Claiming' = Claiming \cup K
      /\ \A s \in Sources : seen'[s] = seen[s] \cup {Ev[k].seq : k \in {x \in K : Ev[x].source = s}}
  BY IngestClaims
<1>2. /\ \A k, l \in K : Slot(k) = Slot(l) => k = l
      /\ \A e \in Claiming, k \in K : Slot(e) # Slot(k)
  BY <1>0, NewClaims
<1> HIDE DEF K
<1>3. \A e, f \in Claiming' : Slot(e) = Slot(f) => e = f
  BY <1>1, <1>2 DEF RecorderInv, ClaimsExact
<1>4. ASSUME NEW s \in Sources
      PROVE  seen'[s] = {Ev[e].seq : e \in {x \in Claiming' : Ev[x].source = s}}
  BY <1>1 DEF RecorderInv, ClaimsExact
<1> QED BY <1>3, <1>4 DEF ClaimsExact

LEMMA SequencesTyped ==
  ASSUME RecorderInv, NEW s \in Sources
  PROVE  seen[s] \in SUBSET Nat /\ Bounded(seen[s]) /\ last[s] = Frontier(seen[s])
BY DEF RecorderInv, RecorderTypeOK, FrontiersExact

LEMMA IngestKeepsFrontiers ==
  ASSUME RecorderInv, NEW role \in Roles, NEW b \in Batches, NEW bad, Ingest(role, b, bad)
  PROVE  /\ FrontiersExact' /\ seen' \in [Sources -> SUBSET Nat]
         /\ last' \in [Sources -> Nat \cup {-1}]
<1> DEFINE claimed == Claimed(b, bad)
<1>1. b \in Seq(Events) /\ claimed \in SUBSET (1..Len(b))
  BY RecorderAssumption, BatchClaims
<1> HIDE DEF claimed
<1>2. \A s \in Sources : /\ seen'[s] = SeenBefore(b, claimed, s, Len(b) + 1)
                         /\ last'[s] = Frontier(seen'[s])
  BY IngestClaims DEF claimed
<1>3. ASSUME NEW s \in Sources PROVE seen'[s] \in SUBSET Nat /\ Bounded(seen'[s])
  <2>1. seen[s] \in SUBSET Nat /\ Bounded(seen[s])
    BY SequencesTyped
  <2> DEFINE after == SeenBefore(b, claimed, s, Len(b) + 1)
  <2>2. after \in SUBSET Nat /\ Bounded(after)
    BY <1>1, <2>1, BatchGaps
  <2> HIDE DEF after
  <2>3. seen'[s] = after
    BY <1>2 DEF after
  <2> QED BY <2>2, <2>3
<1>4. FrontiersExact'
  BY <1>2, <1>3 DEF FrontiersExact
<1>5. \A s \in Sources : last'[s] \in Nat \cup {-1}
  BY <1>2, <1>3, FrontierIsLast
<1>6. (\E f : seen' = [s \in Sources |-> f[s]]) /\ (\E f : last' = [s \in Sources |-> f[s]])
  <2>1. /\ seen' = [s \in Sources |-> SeenBefore(b, Claimed(b, bad), s, Len(b) + 1)]
        /\ last' = [s \in Sources |->
                    Frontier([t \in Sources |-> SeenBefore(b, Claimed(b, bad), t, Len(b) + 1)][s])]
    BY Zenon DEF Ingest
  <2>2. seen' = [s \in Sources |-> seen'[s]] /\ last' = [s \in Sources |-> last'[s]]
    BY <2>1
  <2> QED BY <2>2
<1>7. seen' = [s \in Sources |-> seen'[s]] /\ last' = [s \in Sources |-> last'[s]]
  BY <1>6
<1> QED BY <1>3, <1>4, <1>5, <1>7

LEMMA IngestKeepsSigned ==
  ASSUME RecorderInv, NEW role \in Roles, NEW b \in Batches, NEW bad, Ingest(role, b, bad)
  PROVE  /\ SignedSeen'
         /\ \A c \in checkpoints' : c.source \in Sources /\ c.from \in Nat /\ c.to \in Nat
<1> DEFINE claimed == Claimed(b, bad)
           sequences == [s \in Sources |-> SeenBefore(b, claimed, s, Len(b) + 1)]
<1>0. b \in Seq(Events) /\ \A e \in Range(b) : e \in Events
  BY RecorderAssumption DEF Range
<1>1. checkpoints' \subseteq checkpoints \cup UNION {Signed(s, sequences[s]) : s \in Touched(b)}
  <2>1. \/ checkpoints' = checkpoints
        \/ checkpoints' = checkpoints \cup UNION {Signed(s, sequences[s]) : s \in Touched(b)}
    BY Zenon DEF Ingest
  <2> HIDE DEF sequences
  <2> QED BY <2>1
<1>2. \A s \in Sources : /\ seen'[s] = sequences[s] /\ seen[s] \subseteq seen'[s]
                         /\ sequences[s] \in SUBSET Nat
  <2>1. \A s \in Sources : seen'[s] = sequences[s] /\ seen[s] \subseteq seen'[s]
    BY IngestClaims
  <2>2. \A s \in Sources : seen'[s] \in SUBSET Nat
    BY IngestKeepsFrontiers
  <2> HIDE DEF sequences
  <2> QED BY <2>1, <2>2
<1>3. Touched(b) \subseteq Sources
  <2>1. \A e \in Events : Ev[e].source \in Sources
    BY RecorderAssumption DEF EventShapes
  <2> QED BY <1>0, <2>1 DEF Touched
<1> HIDE DEF sequences
<1>4. ASSUME NEW s \in Touched(b), NEW c \in Signed(s, sequences[s])
      PROVE  /\ c.source \in Sources /\ c.from \in Nat /\ c.to \in Nat
             /\ c.from..c.to \subseteq seen'[c.source]
  <2>1. PICK w \in sequences[s] \X sequences[s] :
          /\ c = [source |-> s, from |-> w[1], to |-> w[2]]
          /\ w[1]..w[2] \subseteq sequences[s]
    BY DEF Signed
  <2>2. c.source = s /\ c.from = w[1] /\ c.to = w[2] /\ s \in Sources
    BY <1>3, <2>1
  <2>3. w[1] \in Nat /\ w[2] \in Nat
    BY <1>2, <2>2
  <2> QED BY <1>2, <2>1, <2>2, <2>3
<1>5. ASSUME NEW c \in checkpoints
      PROVE  /\ c.source \in Sources /\ c.from \in Nat /\ c.to \in Nat
             /\ c.from..c.to \subseteq seen'[c.source]
  <2>1. c.source \in Sources /\ c.from \in Nat /\ c.to \in Nat
    BY DEF RecorderInv, RecorderTypeOK
  <2>2. c.from..c.to \subseteq seen[c.source]
    BY DEF RecorderInv, SignedSeen
  <2> QED BY <1>2, <2>1, <2>2
<1>6. \A c \in checkpoints' :
             /\ c.source \in Sources /\ c.from \in Nat /\ c.to \in Nat
             /\ c.from..c.to \subseteq seen'[c.source]
  BY <1>1, <1>4, <1>5
<1> QED BY <1>6 DEF SignedSeen

LEMMA IngestKeepsGaps ==
  ASSUME RecorderInv, NEW role \in Roles, NEW b \in Batches, NEW bad, Ingest(role, b, bad)
  PROVE  GapsDeclared'
<1> DEFINE claimed == Claimed(b, bad)
           Missing(S) == (0..Frontier(S)) \ S
           Named(s, k, fs) == \E f \in fs : f.kind = "gap" /\ f.source = s /\ k \in f.from..f.to
<1>1. b \in Seq(Events) /\ claimed \in SUBSET (1..Len(b))
  BY RecorderAssumption, BatchClaims
<1>2. \A s \in Sources : /\ seen'[s] = SeenBefore(b, claimed, s, Len(b) + 1)
                         /\ last'[s] = Frontier(seen'[s])
  BY IngestClaims
<1>3. \/ halved' = (halved \/ claimed # {}) /\ findings' = findings
      \/ /\ findings' = findings \cup GapFindings(b, claimed) \cup LateFindings(b, claimed)
                                 \cup SkewFindings(b, Stored(b, bad))
         /\ halved' = halved
  BY Zenon DEF Ingest
<1> HIDE DEF claimed
<1> SUFFICES ASSUME ~halved', NEW s \in Sources, NEW k \in (0..last'[s]) \ seen'[s]
             PROVE  Named(s, k, findings')
  BY DEF GapsDeclared
<1>4. ~halved
  BY <1>3
<1>5. \A j \in Missing(seen[s]) : Named(s, j, findings)
  BY <1>4, SequencesTyped DEF RecorderInv, GapsDeclared
<1>6. k \in Missing(SeenBefore(b, claimed, s, Len(b) + 1))
  BY <1>2
<1>7. CASE claimed = {} /\ findings' = findings
  <2>1. SeenBefore(b, claimed, s, Len(b) + 1) = seen[s]
    <3>1. {i \in claimed : i < Len(b) + 1 /\ Ev[b[i]].source = s} = {}
      BY <1>7
    <3> QED BY <3>1 DEF SeenBefore
  <2> HIDE DEF Missing, Named
  <2> QED BY <1>5, <1>6, <1>7, <2>1
<1>8. CASE findings \cup GapFindings(b, claimed) \subseteq findings'
  <2>1. \A j \in Missing(seen[s]) : Named(s, j, findings \cup GapFindings(b, claimed))
    BY <1>5
  <2>2. Named(s, k, findings \cup GapFindings(b, claimed))
    BY <1>1, <1>6, <2>1, SequencesTyped, BatchGaps
  <2> QED BY <1>8, <2>2
<1>9. claimed = {} \/ findings \cup GapFindings(b, claimed) \subseteq findings'
  BY <1>3
<1> QED BY <1>3, <1>7, <1>8

LEMMA IngestKeepsSilence ==
  ASSUME RecorderInv, NEW role \in Roles, NEW b \in Batches, NEW bad, Ingest(role, b, bad)
  PROVE  SilenceOpen' /\ beat' \in [Sources -> Events \cup {NoBeat}] /\ reported' \subseteq Sources
<1> DEFINE claimed == Claimed(b, bad)
           K == {b[i] : i \in claimed}
           beats == [s \in Sources |-> Beats(b, claimed, s)]
<1>0. b \in Seq(Events) /\ claimed \in SUBSET (1..Len(b))
  BY RecorderAssumption, BatchClaims
<1>1. /\ beat' = [s \in Sources |-> NewBeat(b, beats[s], s)]
      /\ reported' = {s \in reported : beats[s] = {}}
      /\ silences' = silences
  BY Zenon DEF Ingest
<1>2. Claiming' = Claiming \cup K
  BY IngestClaims
<1>3. K \in SUBSET Events /\ \A k \in K : k \notin Claiming
  BY <1>0, NewClaims
<1>4. ASSUME NEW s \in Sources
      PROVE  /\ beats[s] = {} => beat'[s] = beat[s] /\ (s \in reported => s \in reported')
             /\ beats[s] # {} => beat'[s] \in K /\ Ev[beat'[s]].source = s
  <2>1. CASE beats[s] = {}
    BY <1>1, <2>1 DEF NewBeat
  <2>2. CASE beats[s] # {}
    <3> DEFINE S == beats[s]
    <3>1. S \in SUBSET Int /\ S \subseteq claimed /\ \A i \in S : i <= Len(b) /\ Ev[b[i]].source = s
      BY <1>0 DEF Beats
    <3>2. \E m \in Int : \A i \in S : i <= m
      BY <1>0, <3>1
    <3>3. beat'[s] = b[Max(S)]
      BY <1>1, <2>2 DEF NewBeat
    <3> HIDE DEF S, claimed, beats
    <3>4. S # {}
      BY <2>2 DEF S
    <3>5. Max(S) \in S
      BY <3>1, <3>2, <3>4, MaxIsGreatest
    <3> QED BY <2>2, <3>1, <3>3, <3>5
  <2> QED BY <2>1, <2>2
<1>5. silences \in [Events -> Nat] /\ reported \subseteq Sources /\ beat \in [Sources -> Events \cup {NoBeat}]
  BY DEF RecorderInv, RecorderTypeOK
<1> HIDE DEF claimed, K, beats
<1>6. \A k \in K : silences[k] = 0
  BY <1>3 DEF RecorderInv, SilenceOpen
<1>7. ASSUME NEW s \in Sources, beat'[s] # NoBeat
      PROVE  /\ beat'[s] \in Claiming' /\ Ev[beat'[s]].source = s
             /\ s \notin reported' => silences'[beat'[s]] = 0
  <2>1. CASE beats[s] = {}
    BY <1>1, <1>2, <1>4, <1>7, <2>1 DEF RecorderInv, SilenceOpen
  <2>2. CASE beats[s] # {}
    BY <1>1, <1>2, <1>4, <1>6, <2>2
  <2> QED BY <2>1, <2>2
<1>8. \A e \in Events : silences'[e] <= 1 /\ (silences'[e] # 0 => e \in Claiming')
  BY <1>1, <1>2 DEF RecorderInv, SilenceOpen
<1>9. SilenceOpen'
  BY <1>7, <1>8 DEF SilenceOpen
<1>10. \A s \in Sources : beat'[s] \in Events \cup {NoBeat}
  BY <1>3, <1>4, <1>5
<1>11. beat' = [s \in Sources |-> beat'[s]]
  BY <1>1
<1> QED BY <1>1, <1>5, <1>9, <1>10, <1>11

\* What a batch adds to the log.
LEMMA KeptCovers ==
  ASSUME NEW b \in Seq(Events), NEW stored \in SUBSET (1..Len(b))
  PROVE  /\ Kept(b, stored) \in Seq(Events)
         /\ Range(Kept(b, stored)) = {b[i] : i \in stored}
<1> DEFINE n == Cardinality(stored)
<1>1. IsFiniteSet(stored) /\ stored \in SUBSET Nat
  <2>1. Len(b) \in Nat
    OBVIOUS
  <2>2. IsFiniteSet(1..Len(b))
    BY <2>1, FS_Interval
  <2>3. IsFiniteSet(stored)
    BY <2>2, FS_Subset
  <2> QED BY <2>3
<1>2. /\ n \in Nat /\ \A k \in 1..n : Nth(stored, k) \in stored
      /\ \A i \in stored : \E k \in 1..n : Nth(stored, k) = i
  BY <1>1, EnumerationCovers
<1> DEFINE item(k) == b[Nth(stored, k)]
<1>3. Kept(b, stored) = [k \in 1..n |-> item(k)]
  BY DEF Kept
<1>4. \A i \in stored : b[i] \in Events
  OBVIOUS
<1>5. \A k \in 1..n : item(k) \in Events
  BY <1>2, <1>4
<1>6. {b[i] : i \in stored} = {item(k) : k \in 1..n}
  BY <1>2
<1> HIDE DEF n, item
<1>7. Kept(b, stored) \in Seq(Events)
  BY <1>2, <1>3, <1>5
<1>8. Range(Kept(b, stored)) = {item(k) : k \in 1..n}
  BY <1>3 DEF Range
<1> QED BY <1>6, <1>7, <1>8

\* The first n elements of a sequence.
LEMMA Prefix ==
  ASSUME NEW S, NEW s \in Seq(S), NEW n \in 0..Len(s)
  PROVE  /\ SubSeq(s, 1, n) \in Seq(S) /\ Len(SubSeq(s, 1, n)) = n
         /\ \A j \in 1..n : SubSeq(s, 1, n)[j] = s[j] /\ j \in 1..Len(s)
<1>1. Len(s) \in Nat /\ n \in Int /\ 1 \in Int
  BY LenProperties
<1>2. \A j \in 1..n : j \in 1..Len(s)
  BY <1>1
<1>3. \A j \in 1..n : s[j] \in S
  BY <1>2, ElementOfSeq
<1>4. /\ SubSeq(s, 1, n) \in Seq(S)
      /\ Len(SubSeq(s, 1, n)) = IF 1 <= n THEN n - 1 + 1 ELSE 0
      /\ \A j \in 1..(n - 1 + 1) : SubSeq(s, 1, n)[j] = s[1 + j - 1]
  BY ONLY <1>1, <1>3, SubSeqProperties
<1>5. Len(SubSeq(s, 1, n)) = n
  BY <1>1, <1>4
<1>6. n - 1 + 1 = n /\ \A j \in 1..n : 1 + j - 1 = j
  BY <1>1
<1>7. \A j \in 1..n : SubSeq(s, 1, n)[j] = s[j]
  BY <1>4, <1>6
<1> QED BY <1>2, <1>4, <1>5, <1>7

\* Two sequences joined, element by element.
LEMMA Joined ==
  ASSUME NEW S, NEW s \in Seq(S), NEW t \in Seq(S)
  PROVE  /\ s \o t \in Seq(S) /\ Len(s \o t) = Len(s) + Len(t)
         /\ \A j \in 1..Len(s) : j \in 1..(Len(s) + Len(t)) /\ (s \o t)[j] = s[j]
         /\ \A j \in 1..Len(t) : Len(s) + j \in 1..(Len(s) + Len(t)) /\ (s \o t)[Len(s) + j] = t[j]
         /\ \A j \in 1..(Len(s) + Len(t)) :
               j \in 1..Len(s) \/ \E k \in 1..Len(t) : j = Len(s) + k
<1> DEFINE m == Len(s)
           n == Len(t)
           u == s \o t
<1>1. m \in Nat /\ n \in Nat
  BY LenProperties
<1>2. /\ u \in Seq(S) /\ Len(u) = m + n
      /\ \A j \in 1..(m + n) : u[j] = IF j <= m THEN s[j] ELSE t[j - m]
  BY ConcatProperties
<1> HIDE DEF m, n, u
<1>3. ASSUME NEW j \in 1..m PROVE j \in 1..(m + n) /\ u[j] = s[j]
  <2>1. j \in 1..(m + n) /\ j <= m
    BY <1>1
  <2> QED BY <1>2, <2>1
<1>4. ASSUME NEW j \in 1..n PROVE m + j \in 1..(m + n) /\ u[m + j] = t[j]
  <2>1. m + j \in 1..(m + n) /\ ~(m + j <= m) /\ (m + j) - m = j
    BY <1>1
  <2>2. u[m + j] = t[(m + j) - m]
    BY <1>2, <2>1
  <2> QED BY <2>1, <2>2
<1>5. ASSUME NEW j \in 1..(m + n) PROVE j \in 1..m \/ \E k \in 1..n : j = m + k
  <2>1. CASE j <= m
    BY <1>1, <2>1
  <2>2. CASE ~(j <= m)
    <3>1. j - m \in 1..n /\ j = m + (j - m)
      BY <1>1, <2>2
    <3> QED BY <3>1
  <2> QED BY <2>1, <2>2
<1> QED BY <1>2, <1>3, <1>4, <1>5 DEF m, n, u

LEMMA JoinedRange ==
  ASSUME NEW S, NEW s \in Seq(S), NEW t \in Seq(S)
  PROVE  Range(s \o t) = Range(s) \cup Range(t)
<1> DEFINE u == s \o t
<1>1. /\ \A j \in 1..Len(s) : j \in 1..(Len(s) + Len(t)) /\ u[j] = s[j]
      /\ \A j \in 1..Len(t) : Len(s) + j \in 1..(Len(s) + Len(t)) /\ u[Len(s) + j] = t[j]
      /\ \A j \in 1..(Len(s) + Len(t)) : j \in 1..Len(s) \/ \E k \in 1..Len(t) : j = Len(s) + k
      /\ u \in Seq(S) /\ Len(u) = Len(s) + Len(t)
  BY Joined
<1> HIDE DEF u
<1>2. /\ DOMAIN s = 1..Len(s) /\ DOMAIN t = 1..Len(t) /\ DOMAIN u = 1..(Len(s) + Len(t))
  BY <1>1, LenProperties
<1>3. /\ Range(s) = {s[j] : j \in 1..Len(s)} /\ Range(t) = {t[j] : j \in 1..Len(t)}
      /\ Range(u) = {u[j] : j \in 1..(Len(s) + Len(t))}
  BY <1>2 DEF Range
<1>4. Range(u) \subseteq Range(s) \cup Range(t)
  <2>1. ASSUME NEW j \in 1..(Len(s) + Len(t)) PROVE u[j] \in Range(s) \cup Range(t)
    <3>1. CASE j \in 1..Len(s)
      BY <1>1, <1>3, <3>1
    <3>2. CASE \E k \in 1..Len(t) : j = Len(s) + k
      BY <1>1, <1>3, <3>2
    <3> QED BY <1>1, <3>1, <3>2
  <2> QED BY <1>3, <2>1
<1>5. Range(s) \subseteq Range(u)
  BY <1>1, <1>3
<1>6. Range(t) \subseteq Range(u)
  BY <1>1, <1>3
<1>7. Range(u) = Range(s) \cup Range(t)
  BY <1>4, <1>5, <1>6
<1> QED BY <1>7 DEF u

\* A prefix of the joined sequence ends in the first part or in the second.
LEMMA JoinedPrefix ==
  ASSUME NEW S, NEW s \in Seq(S), NEW t \in Seq(S)
  PROVE  /\ \A n \in 0..Len(s) : SubSeq(s \o t, 1, n) = SubSeq(s, 1, n)
         /\ \A n \in 0..Len(t) : SubSeq(s \o t, 1, Len(s) + n) = s \o SubSeq(t, 1, n)
<1> DEFINE u == s \o t
<1>1. /\ \A j \in 1..Len(s) : j \in 1..(Len(s) + Len(t)) /\ u[j] = s[j]
      /\ \A j \in 1..Len(t) : Len(s) + j \in 1..(Len(s) + Len(t)) /\ u[Len(s) + j] = t[j]
      /\ u \in Seq(S) /\ Len(u) = Len(s) + Len(t)
  BY Joined
<1>2. Len(s) \in Nat /\ Len(t) \in Nat
  BY LenProperties
<1> HIDE DEF u
<1>3. ASSUME NEW n \in 0..Len(s) PROVE SubSeq(u, 1, n) = SubSeq(s, 1, n)
  <2> DEFINE p == SubSeq(u, 1, n)
             q == SubSeq(s, 1, n)
  <2>1. n \in 0..Len(u)
    BY <1>1, <1>2
  <2>2. p \in Seq(S) /\ Len(p) = n /\ \A j \in 1..n : p[j] = u[j]
    BY <1>1, <2>1, Prefix
  <2>3. q \in Seq(S) /\ Len(q) = n /\ \A j \in 1..n : q[j] = s[j] /\ j \in 1..Len(s)
    BY Prefix
  <2> HIDE DEF p, q
  <2>4. \A j \in 1..Len(p) : p[j] = q[j]
    BY <1>1, <2>2, <2>3
  <2>5. p = q
    BY <2>2, <2>3, <2>4, SeqEqual
  <2> QED BY <2>5 DEF p, q
<1>4. ASSUME NEW n \in 0..Len(t) PROVE SubSeq(u, 1, Len(s) + n) = s \o SubSeq(t, 1, n)
  <2> DEFINE p == SubSeq(u, 1, Len(s) + n)
             r == SubSeq(t, 1, n)
             q == s \o r
  <2>1. Len(s) + n \in 0..Len(u)
    BY <1>1, <1>2
  <2>2. p \in Seq(S) /\ Len(p) = Len(s) + n /\ \A j \in 1..(Len(s) + n) : p[j] = u[j]
    BY <1>1, <2>1, Prefix
  <2>3. r \in Seq(S) /\ Len(r) = n /\ \A j \in 1..n : r[j] = t[j] /\ j \in 1..Len(t)
    BY Prefix
  <2> HIDE DEF p, r
  <2>4. /\ \A j \in 1..Len(s) : q[j] = s[j]
        /\ \A j \in 1..Len(r) : q[Len(s) + j] = r[j]
        /\ \A j \in 1..(Len(s) + Len(r)) : j \in 1..Len(s) \/ \E k \in 1..Len(r) : j = Len(s) + k
        /\ q \in Seq(S) /\ Len(q) = Len(s) + Len(r)
    <3>1. r \in Seq(S)
      BY <2>3
    <3>2. \A x \in Seq(S) :
            /\ \A j \in 1..Len(s) : (s \o x)[j] = s[j]
            /\ \A j \in 1..Len(x) : (s \o x)[Len(s) + j] = x[j]
            /\ \A j \in 1..(Len(s) + Len(x)) :
                  j \in 1..Len(s) \/ \E k \in 1..Len(x) : j = Len(s) + k
            /\ s \o x \in Seq(S) /\ Len(s \o x) = Len(s) + Len(x)
      BY Joined
    <3> QED BY <3>1, <3>2, Zenon
  <2> HIDE DEF q
  <2>5. ASSUME NEW j \in 1..Len(p) PROVE p[j] = q[j]
    <3>1. p[j] = u[j] /\ (j \in 1..Len(s) \/ \E k \in 1..n : j = Len(s) + k)
      BY <2>2, <2>3, <2>4
    <3>2. CASE j \in 1..Len(s)
      BY <1>1, <2>4, <3>1, <3>2
    <3>3. ASSUME NEW k \in 1..n, j = Len(s) + k PROVE p[j] = q[j]
      <4>1. q[j] = r[k] /\ r[k] = t[k] /\ k \in 1..Len(t)
        BY <2>3, <2>4, <3>3
      <4> QED BY <1>1, <3>1, <3>3, <4>1
    <3> QED BY <3>1, <3>2, <3>3
  <2>6. p = q
    BY <2>2, <2>3, <2>4, <2>5, SeqEqual
  <2> QED BY <2>6 DEF p, q, r
<1> QED BY <1>3, <1>4 DEF u
\* The chain grows by entries that link to what is before them.
LEMMA ChainGrows ==
  ASSUME ChainVerifies, log \in Seq([event : Events, prev : Seq(Events)]), head \in Seq(Events),
         NEW kept \in Seq(Events),
         log' = log \o Entries(kept), head' = head \o kept, byID' = byID \cup Range(kept)
  PROVE  ChainVerifies' /\ log' \in Seq([event : Events, prev : Seq(Events)]) /\ head' \in Seq(Events)
<1> DEFINE m == Len(head)
           k == Len(kept)
           E == [event : Events, prev : Seq(Events)]
           entry(i) == [event |-> kept[i], prev |-> head \o SubSeq(kept, 1, i - 1)]
           new == Entries(kept)
<1>1. /\ m \in Nat /\ k \in Nat /\ DOMAIN log = 1..Len(log) /\ Len(log) \in Nat
      /\ DOMAIN head = 1..m /\ DOMAIN kept = 1..k
  BY LenProperties
<1>2. Len(log) = m
  <2>1. head = [i \in 1..Len(log) |-> log[i].event]
    BY <1>1 DEF ChainVerifies
  <2> QED BY <1>1, <2>1
<1>3. \A i \in 1..m : head[i] = log[i].event /\ log[i].prev = SubSeq(head, 1, i - 1)
  BY <1>1, <1>2 DEF ChainVerifies
<1>4. ASSUME NEW i \in 1..k PROVE entry(i) \in E
  <2>1. i - 1 \in 0..Len(kept) /\ kept[i] \in Events
    BY <1>1
  <2>2. SubSeq(kept, 1, i - 1) \in Seq(Events)
    BY <2>1, Prefix
  <2>3. head \o SubSeq(kept, 1, i - 1) \in Seq(Events)
    BY <2>2, ConcatProperties
  <2> QED BY <2>1, <2>3
<1>5. new = [i \in 1..k |-> entry(i)]
  BY <1>1 DEF Entries
<1>6. \A i \in 1..k : entry(i).event = kept[i] /\ entry(i).prev = head \o SubSeq(kept, 1, i - 1)
  OBVIOUS
<1>7. log \in Seq(E) /\ log' = log \o new
  OBVIOUS
<1> HIDE DEF E, entry, new
<1>8. new \in Seq(E) /\ Len(new) = k /\ \A i \in 1..k : new[i] = entry(i)
  BY <1>1, <1>4, <1>5
<1>9. /\ log' \in Seq(E) /\ Len(log') = m + k
      /\ \A i \in 1..m : log'[i] = log[i]
      /\ \A i \in 1..k : log'[m + i] = entry(i)
  <2>1. /\ log \o new \in Seq(E) /\ Len(log \o new) = Len(log) + Len(new)
        /\ \A j \in 1..Len(log) : (log \o new)[j] = log[j]
        /\ \A j \in 1..Len(new) : (log \o new)[Len(log) + j] = new[j]
    <3>1. \A x \in Seq(E) :
            /\ log \o x \in Seq(E) /\ Len(log \o x) = Len(log) + Len(x)
            /\ \A j \in 1..Len(log) : (log \o x)[j] = log[j]
            /\ \A j \in 1..Len(x) : (log \o x)[Len(log) + j] = x[j]
      BY <1>7, Joined
    <3> QED BY <1>8, <3>1, Zenon
  <2> HIDE DEF m, k
  <2> QED BY <1>2, <1>7, <1>8, <2>1
<1>10. /\ head' \in Seq(Events) /\ Len(head') = m + k
       /\ \A i \in 1..m : head'[i] = head[i]
       /\ \A i \in 1..k : head'[m + i] = kept[i]
       /\ \A i \in 1..(m + k) : i \in 1..m \/ \E j \in 1..k : i = m + j
  BY Joined
<1>11. /\ \A n \in 0..m : SubSeq(head', 1, n) = SubSeq(head, 1, n)
       /\ \A n \in 0..k : SubSeq(head', 1, m + n) = head \o SubSeq(kept, 1, n)
  BY JoinedPrefix
<1>12. DOMAIN log' = 1..(m + k) /\ DOMAIN head' = 1..(m + k)
  BY <1>9, <1>10, LenProperties
<1> HIDE DEF m, k
<1>13. ASSUME NEW i \in 1..m PROVE head'[i] = log'[i].event /\ log'[i].prev = SubSeq(head', 1, i - 1)
  <2>1. i - 1 \in 0..m
    BY <1>1
  <2>2. SubSeq(head', 1, i - 1) = SubSeq(head, 1, i - 1)
    BY <1>11, <2>1
  <2> QED BY <1>3, <1>9, <1>10, <2>2
<1>14. ASSUME NEW i \in 1..(m + k), NEW j \in 1..k, i = m + j
       PROVE  head'[i] = log'[i].event /\ log'[i].prev = SubSeq(head', 1, i - 1)
  <2>1. j - 1 \in 0..k /\ i - 1 = m + (j - 1)
    BY <1>1, <1>14
  <2>2. SubSeq(head', 1, i - 1) = head \o SubSeq(kept, 1, j - 1)
    BY <1>11, <2>1
  <2>3. log'[i] = entry(j) /\ head'[i] = kept[j]
    BY <1>9, <1>10, <1>14
  <2> QED BY <1>6, <2>2, <2>3
<1>15. \A i \in 1..(m + k) : head'[i] = log'[i].event /\ log'[i].prev = SubSeq(head', 1, i - 1)
  <2> TAKE i \in 1..(m + k)
  <2>1. CASE i \in 1..m
    BY <1>13, <2>1
  <2>2. CASE \E j \in 1..k : i = m + j
    BY <1>14, <2>2
  <2> QED BY <1>10, <2>1, <2>2
<1>16. head' = [i \in DOMAIN log' |-> log'[i].event]
  <2>1. head' = [i \in 1..(m + k) |-> head'[i]]
    <3>1. head' \in [1..(m + k) -> Events]
      BY <1>10, LenProperties
    <3> QED BY <3>1
  <2> QED BY <1>12, <1>15, <2>1
<1>17. byID' = Range(head')
  <2>1. Range(head') = Range(head) \cup Range(kept)
    BY JoinedRange
  <2> QED BY <2>1 DEF ChainVerifies
<1> QED BY <1>9, <1>10, <1>12, <1>15, <1>16, <1>17 DEF ChainVerifies, E

LEMMA IngestKeepsChain ==
  ASSUME RecorderInv, NEW role \in Roles, NEW b \in Batches, NEW bad, Ingest(role, b, bad)
  PROVE  ChainVerifies' /\ log' \in Seq([event : Events, prev : Seq(Events)]) /\ head' \in Seq(Events)
<1> DEFINE claimed == Claimed(b, bad)
           stored == Stored(b, bad)
           kept == Kept(b, stored)
<1>1. b \in Seq(Events) /\ stored \in SUBSET (1..Len(b))
  BY RecorderAssumption, BatchClaims
<1>2. /\ log' = log \o Entries(kept) /\ head' = NewHead(b, claimed, stored)
      /\ byID' = byID \cup {b[i] : i \in stored}
  BY Zenon DEF Ingest
<1> HIDE DEF claimed, stored
<1>3. kept \in Seq(Events) /\ Range(kept) = {b[i] : i \in stored}
  BY <1>1, KeptCovers
<1>4. head' = head \o kept
  BY <1>2 DEF NewHead
<1> HIDE DEF kept
<1>5. log' = log \o Entries(kept) /\ byID' = byID \cup Range(kept)
  BY <1>2, <1>3 DEF kept
<1>6. /\ ChainVerifies /\ log \in Seq([event : Events, prev : Seq(Events)])
      /\ head \in Seq(Events)
  BY DEF RecorderInv, RecorderTypeOK
<1> QED BY <1>3, <1>4, <1>5, <1>6, ChainGrows

LEMMA IngestKeepsTypes ==
  ASSUME RecorderInv, NEW role \in Roles, NEW b \in Batches, NEW bad, Ingest(role, b, bad)
  PROVE  RecorderTypeOK'
<1> DEFINE kept == {b[i] : i \in Stored(b, bad)}
           dropped == {b[i] : i \in Claimed(b, bad) \ Stored(b, bad)}
<1>1. b \in Seq(Events) /\ Claimed(b, bad) \subseteq 1..Len(b)
      /\ Stored(b, bad) \subseteq Claimed(b, bad)
  BY RecorderAssumption, BatchClaims
<1>2. \A i \in 1..Len(b) : b[i] \in Events
  BY <1>1
<1>3. kept \subseteq Events /\ dropped \subseteq Events
  BY <1>1, <1>2
<1>4. /\ byID' = byID \cup kept
      /\ live' = [e \in Events |-> IF e \in kept THEN "whole" ELSE live[e]]
      /\ unsealed' = unsealed \cup dropped
      /\ halved' = halved \/ halved' = (halved \/ Claimed(b, bad) # {})
      /\ silences' = silences /\ holds' = holds /\ now' = now
  BY Zenon DEF Ingest
<1> HIDE DEF kept, dropped
<1>5. RecorderTypeOK
  BY DEF RecorderInv
<1>6. byID' \subseteq Events /\ unsealed' \subseteq Events /\ halved' \in BOOLEAN
  BY <1>3, <1>4, <1>5 DEF RecorderTypeOK
<1>7. live' \in [Events -> {"absent", "whole", "deleted", "redacted"}]
  BY <1>4, <1>5 DEF RecorderTypeOK
<1>8. /\ silences' \in [Events -> Nat] /\ now' \in 0..MaxNow
      /\ holds' \in [EvidenceRuns -> 0..Forever']
  BY <1>4, <1>5 DEF RecorderTypeOK, Forever
<1>9. /\ log' \in Seq([event : Events, prev : Seq(Events)]) /\ head' \in Seq(Events)
      /\ seen' \in [Sources -> SUBSET Nat] /\ last' \in [Sources -> Nat \cup {-1}]
      /\ beat' \in [Sources -> Events \cup {NoBeat}] /\ reported' \subseteq Sources
      /\ \A c \in checkpoints' : c.source \in Sources /\ c.from \in Nat /\ c.to \in Nat
  <2>1. log' \in Seq([event : Events, prev : Seq(Events)]) /\ head' \in Seq(Events)
    BY IngestKeepsChain
  <2>2. seen' \in [Sources -> SUBSET Nat] /\ last' \in [Sources -> Nat \cup {-1}]
    BY IngestKeepsFrontiers
  <2>3. beat' \in [Sources -> Events \cup {NoBeat}] /\ reported' \subseteq Sources
    BY IngestKeepsSilence
  <2>4. \A c \in checkpoints' : c.source \in Sources /\ c.from \in Nat /\ c.to \in Nat
    BY IngestKeepsSigned
  <2> QED BY <2>1, <2>2, <2>3, <2>4
<1> QED BY <1>6, <1>7, <1>8, <1>9 DEF RecorderTypeOK, NoBeat

LEMMA IngestKeepsInv ==
  ASSUME RecorderInv, NEW role \in Roles, NEW b \in Batches, NEW bad, Ingest(role, b, bad)
  PROVE  RecorderInv'
<1>1. RecorderTypeOK'
  BY IngestKeepsTypes
<1>2. ChainVerifies'
  BY IngestKeepsChain
<1>3. ClaimsExact'
  BY IngestKeepsClaims
<1>4. FrontiersExact'
  BY IngestKeepsFrontiers
<1>5. SignedSeen'
  BY IngestKeepsSigned
<1>6. SilenceOpen'
  BY IngestKeepsSilence
<1>7. GapsDeclared'
  BY IngestKeepsGaps
<1> QED BY <1>1, <1>2, <1>3, <1>4, <1>5, <1>6, <1>7 DEF RecorderInv

\* A sweep cites the last heartbeat of each source that has fallen silent, once.
LEMMA SweepKeepsInv ==
  ASSUME RecorderInv, CheckCollectorLiveness
  PROVE  RecorderInv'
<1> DEFINE cited(e) == {s \in Sources : Silent(s) /\ beat[s] = e}
<1>1. /\ silences' = [e \in Events |-> silences[e] + Cardinality(cited(e))]
      /\ reported' = reported \cup {s \in Sources : Silent(s)}
      /\ UNCHANGED <<log, head, byID, seen, last, beat, checkpoints, unsealed, halved,
                     findings, live, holds, now>>
  BY DEF CheckCollectorLiveness
<1>2. ASSUME NEW e \in Events
      PROVE  \/ cited(e) = {} /\ silences'[e] = silences[e]
             \/ /\ silences[e] = 0 /\ silences'[e] = 1 /\ e \in Claiming
                /\ \A s \in Sources : beat[s] = e /\ e # NoBeat => s \in reported'
  <2>1. silences[e] \in Nat /\ silences'[e] = silences[e] + Cardinality(cited(e))
    BY <1>1 DEF RecorderInv, RecorderTypeOK
  <2>2. CASE cited(e) = {}
    BY <2>1, <2>2, FS_EmptySet
  <2>3. CASE cited(e) # {}
    <3>1. PICK s \in Sources : Silent(s) /\ beat[s] = e
      BY <2>3
    <3>2. e # NoBeat /\ silences[e] = 0 /\ e \in Claiming /\ Ev[e].source = s
      BY <3>1 DEF Silent, RecorderInv, SilenceOpen
    <3>3. \A x \in Sources : beat[x] = e => x = s
      BY <3>2 DEF RecorderInv, SilenceOpen
    <3>4. cited(e) = {s}
      BY <3>1, <3>3
    <3>5. Cardinality({s}) = 1
      BY FS_Singleton
    <3>6. s \in reported'
      BY <1>1, <3>1
    <3> QED BY <2>1, <3>2, <3>3, <3>4, <3>5, <3>6
  <2> QED BY <2>2, <2>3
<1>3. silences' \in [Events -> Nat]
  <2>1. \A e \in Events : silences'[e] \in Nat
    BY <1>2 DEF RecorderInv, RecorderTypeOK
  <2> HIDE DEF cited
  <2> QED BY <1>1, <2>1
<1>4. Claiming' = Claiming
  BY <1>1 DEF Claiming
<1>5. SilenceOpen'
  <2>1. \A e \in Events : silences'[e] <= 1 /\ (silences'[e] # 0 => e \in Claiming)
    BY <1>2 DEF RecorderInv, SilenceOpen
  <2>2. ASSUME NEW s \in Sources, beat[s] # NoBeat, s \notin reported'
        PROVE  silences'[beat[s]] = 0
    <3>1. beat[s] \in Events /\ s \notin reported /\ silences[beat[s]] = 0
      BY <1>1, <2>2 DEF RecorderInv, SilenceOpen, RecorderTypeOK
    <3> QED BY <1>2, <2>2, <3>1
  <2> QED BY <1>1, <1>4, <2>1, <2>2 DEF RecorderInv, SilenceOpen
<1>6. RecorderTypeOK'
  <2>1. reported' \subseteq Sources
    BY <1>1 DEF RecorderInv, RecorderTypeOK
  <2> QED BY <1>1, <1>3, <2>1 DEF RecorderInv, RecorderTypeOK, Forever
<1>7. ChainVerifies' /\ ClaimsExact' /\ FrontiersExact' /\ SignedSeen' /\ GapsDeclared'
  <2>1. ChainVerifies'
    BY <1>1 DEF RecorderInv, ChainVerifies
  <2>2. ClaimsExact'
    BY <1>1, <1>4 DEF RecorderInv, ClaimsExact
  <2>3. FrontiersExact' /\ SignedSeen' /\ GapsDeclared'
    BY <1>1 DEF RecorderInv, FrontiersExact, SignedSeen, GapsDeclared
  <2> QED BY <2>1, <2>2, <2>3
<1> QED BY <1>5, <1>6, <1>7 DEF RecorderInv

\* The store's own state, as the invariant sees it, is what ingest and the sweep change.
LEMMA StoreKeepsInv ==
  ASSUME RecorderInv, UNCHANGED <<storeVars, findings, silences>>,
         live' \in [Events -> {"absent", "whole", "deleted", "redacted"}],
         holds' \in [EvidenceRuns -> 0..Forever], now' \in 0..MaxNow
  PROVE  RecorderInv'
<1>1. UNCHANGED <<log, head, byID, seen, last, beat, reported, checkpoints, unsealed, halved,
                  findings, silences>>
  BY DEF storeVars
<1>2. RecorderTypeOK'
  BY <1>1 DEF RecorderInv, RecorderTypeOK, Forever
<1>3. ChainVerifies'
  BY <1>1 DEF RecorderInv, ChainVerifies
<1>4. Claiming' = Claiming
  BY <1>1 DEF Claiming
<1>5. ClaimsExact' /\ SilenceOpen'
  BY <1>1, <1>4 DEF RecorderInv, ClaimsExact, SilenceOpen
<1>6. FrontiersExact' /\ SignedSeen' /\ GapsDeclared'
  BY <1>1 DEF RecorderInv, FrontiersExact, SignedSeen, GapsDeclared
<1> QED BY <1>2, <1>3, <1>5, <1>6 DEF RecorderInv

LEMMA RecorderStep ==
  ASSUME RecorderInv, [RecorderNext]_recorderVars
  PROVE  RecorderInv'
<1>0. /\ live \in [Events -> {"absent", "whole", "deleted", "redacted"}]
      /\ holds \in [EvidenceRuns -> 0..Forever] /\ now \in 0..MaxNow
  BY DEF RecorderInv, RecorderTypeOK
<1>1. ASSUME NEW role \in Roles, NEW b \in Batches, NEW bad \in SUBSET Sealable(b),
             Ingest(role, b, bad)
      PROVE  RecorderInv'
  BY <1>1, IngestKeepsInv
<1>2. CASE CheckCollectorLiveness
  BY <1>2, SweepKeepsInv
<1>3. ASSUME NEW w \in Windows, ApplyRetention(w)
      PROVE  RecorderInv'
  <2>1. live' \in [Events -> {"absent", "whole", "deleted", "redacted"}]
    BY <1>0, <1>3 DEF ApplyRetention
  <2> QED BY <1>0, <1>3, <2>1, StoreKeepsInv DEF ApplyRetention
<1>4. ASSUME NEW raw \in Windows, NEW detailed \in Windows, ApplyRetentionPolicy(raw, detailed)
      PROVE  RecorderInv'
  <2>1. live' \in [Events -> {"absent", "whole", "deleted", "redacted"}]
    BY <1>0, <1>4 DEF ApplyRetentionPolicy
  <2> QED BY <1>0, <1>4, <2>1, StoreKeepsInv DEF ApplyRetentionPolicy
<1>5. ASSUME NEW r \in EvidenceRuns, NEW until \in HoldEnds, SetLegalHold(r, until)
      PROVE  RecorderInv'
  <2>1. until \in 0..Forever
    BY RecorderAssumption DEF Forever
  <2>2. holds' \in [EvidenceRuns -> 0..Forever]
    BY <1>0, <1>5, <2>1 DEF SetLegalHold
  <2> QED BY <1>0, <1>5, <2>2, StoreKeepsInv DEF SetLegalHold
<1>6. ASSUME NEW r \in EvidenceRuns, ReleaseLegalHold(r)
      PROVE  RecorderInv'
  <2>1. 0 \in 0..Forever
    BY RecorderAssumption DEF Forever
  <2>2. holds' \in [EvidenceRuns -> 0..Forever]
    BY <1>0, <1>6, <2>1 DEF ReleaseLegalHold
  <2> QED BY <1>0, <1>6, <2>2, StoreKeepsInv DEF ReleaseLegalHold
<1>7. CASE RecorderTick
  <2>1. now' \in 0..MaxNow
    BY <1>0, <1>7, RecorderAssumption DEF RecorderTick
  <2> QED BY <1>0, <1>7, <2>1, StoreKeepsInv DEF RecorderTick
<1>8. CASE UNCHANGED recorderVars
  BY <1>0, <1>8, StoreKeepsInv DEF recorderVars
<1> QED BY <1>1, <1>2, <1>3, <1>4, <1>5, <1>6, <1>7, <1>8 DEF RecorderNext

LEMMA RecorderStarts == RecorderInit => RecorderInv
<1> SUFFICES ASSUME RecorderInit PROVE RecorderInv
  OBVIOUS
<1>1. RecorderTypeOK
  <2>1. 0 \in 0..MaxNow /\ 0 \in 0..Forever
    BY RecorderAssumption DEF Forever
  <2>2. log \in Seq([event : Events, prev : Seq(Events)]) /\ head \in Seq(Events)
    BY EmptySeq DEF RecorderInit
  <2> QED BY <2>1, <2>2 DEF RecorderInit, RecorderTypeOK
<1>2. ChainVerifies
  BY DEF RecorderInit, ChainVerifies, Range
<1>3. Claiming = {}
  BY DEF RecorderInit, Claiming
<1>4. ClaimsExact /\ SilenceOpen /\ SignedSeen
  BY <1>3 DEF RecorderInit, ClaimsExact, SilenceOpen, SignedSeen
<1>5. FrontiersExact
  BY DEF RecorderInit, FrontiersExact, Frontier, Bounded
<1>6. GapsDeclared
  BY DEF RecorderInit, GapsDeclared
<1> QED BY <1>1, <1>2, <1>4, <1>5, <1>6 DEF RecorderInv

LEMMA RecorderHolds == RecorderSpec => []RecorderInv
BY RecorderStarts, RecorderStep, PTL DEF RecorderSpec

\* The recorder's state has its type: ingest, sweeps, retention and legal holds
\* (recorder.go, retention.go) never leave it.
THEOREM RecorderTyped == RecorderSpec => []RecorderTypeOK
<1>1. RecorderInv => RecorderTypeOK
  BY DEF RecorderInv
<1> QED BY <1>1, RecorderHolds, PTL

\* The chain Verify walks (recorder.go:650) is intact after any deliveries: each entry
\* links to the one before it, and the ids the store answers for are the chained ones.
THEOREM ChainAlwaysVerifies == RecorderSpec => []ChainVerifies
<1>1. RecorderInv => ChainVerifies
  BY DEF RecorderInv
<1> QED BY <1>1, RecorderHolds, PTL

\* No two stored events of a source share a sequence (recorder.go:360-371).
THEOREM SlotsAreUnique == RecorderSpec => []SlotsUnique
<1>1. RecorderInv => SlotsUnique
  BY DEF RecorderInv, ClaimsExact, SlotsUnique, Claiming
<1> QED BY <1>1, RecorderHolds, PTL

\* Every sequence of a signed range is claimed by exactly one event: a checkpoint never
\* spans a gap and never counts two events for one sequence (recorder.go:482-484).
THEOREM CheckpointsAreHonest == RecorderSpec => []CheckpointsHonest
<1>1. ASSUME RecorderInv PROVE CheckpointsHonest
  <2>1. ASSUME NEW c \in checkpoints, NEW n \in c.from..c.to
        PROVE  Cardinality({e \in Claiming : Slot(e) = <<c.source, n>>}) = 1
    <3>1. c.source \in Sources /\ n \in seen[c.source]
      BY <1>1, <2>1 DEF RecorderInv, RecorderTypeOK, SignedSeen
    <3>2. PICK e \in Claiming : Ev[e].source = c.source /\ Ev[e].seq = n
      BY <1>1, <3>1 DEF RecorderInv, ClaimsExact
    <3>3. Slot(e) = <<c.source, n>>
      BY <3>2 DEF Slot
    <3>4. \A f \in Claiming : Slot(f) = Slot(e) => f = e
      BY <1>1 DEF RecorderInv, ClaimsExact
    <3>5. {f \in Claiming : Slot(f) = <<c.source, n>>} = {e}
      BY <3>3, <3>4
    <3> QED BY <3>5, FS_Singleton
  <2> QED BY <2>1 DEF CheckpointsHonest, Claiming
<1> QED BY <1>1, RecorderHolds, PTL

\* Every sequence missing below a frontier is named by a gap finding unless a batch was
\* refused midway, and no heartbeat is cited by two silence findings (recorder.go:339-345,
\* 738-739).
THEOREM FindingsAreExact == RecorderSpec => []FindingsExact
<1>1. RecorderInv => FindingsExact
  BY DEF RecorderInv, FindingsExact, SilenceOpen, SilenceReportedOnce
<1> QED BY <1>1, RecorderHolds, PTL

-----------------------------------------------------------------------------
(* The verifier: evidence comes in the order of its strength.                *)

Evidences == [kind : {"external_state", "service_receipt", "deterministic_fixture",
                      "semantic_grader"},
              result : {"supports", "contradicts", "errored"}]

\* A list of evidence whose strengths lie between lo and hi and never grow weaker to
\* stronger.
Ranked(items, lo, hi) ==
  /\ items \in Seq(Evidences)
  /\ \A i \in DOMAIN items : Strength(items[i].kind) \in lo..hi
  /\ \A i, j \in DOMAIN items : i <= j => Strength(items[i].kind) <= Strength(items[j].kind)

VerifierInv ==
  /\ receipts \in Seq([trusted : BOOLEAN, landed : BOOLEAN])
  /\ verdict.verdict = Combined(verdict.evidence)
  /\ Ranked(verdict.evidence, 0, 3)

LEMMA StrengthType ==
  ASSUME NEW item \in Evidences
  PROVE  Strength(item.kind) \in 0..3
BY DEF Strength, Evidences

LEMMA RankedConcat ==
  ASSUME NEW s, NEW t, NEW a \in Int, NEW b \in Int, NEW c \in Int, NEW d \in Int,
         Ranked(s, a, b), Ranked(t, c, d), a <= b, b <= c, c <= d
  PROVE  Ranked(s \o t, a, d)
<1> DEFINE u == s \o t
           n == Len(s)
<1>1. s \in Seq(Evidences) /\ t \in Seq(Evidences) BY DEF Ranked
<1>2. /\ u \in Seq(Evidences) /\ n \in Nat /\ Len(t) \in Nat /\ Len(u) = n + Len(t)
      /\ DOMAIN s = 1..n /\ DOMAIN t = 1..Len(t) /\ DOMAIN u = 1..Len(u)
  BY <1>1
<1>3. \A i \in DOMAIN u : \/ i \in DOMAIN s /\ u[i] = s[i]
                          \/ i > n /\ i - n \in DOMAIN t /\ u[i] = t[i - n]
  BY <1>1, <1>2
<1> HIDE DEF u, n
<1>4. ASSUME NEW i \in DOMAIN u PROVE Strength(u[i].kind) \in a..d
  BY <1>3, <1>4 DEF Ranked
<1>5. ASSUME NEW i \in DOMAIN u, NEW j \in DOMAIN u, i <= j
      PROVE  Strength(u[i].kind) <= Strength(u[j].kind)
  <2>1. i \in Int /\ j \in Int BY <1>2
  <2>2. ASSUME i \in DOMAIN s, u[i] = s[i], j \in DOMAIN s, u[j] = s[j]
        PROVE  Strength(u[i].kind) <= Strength(u[j].kind)
    BY <1>5, <2>2 DEF Ranked
  <2>3. ASSUME i \in DOMAIN s, u[i] = s[i], j - n \in DOMAIN t, u[j] = t[j - n]
        PROVE  Strength(u[i].kind) <= Strength(u[j].kind)
    <3>1. Strength(s[i].kind) \in a..b /\ Strength(t[j - n].kind) \in c..d
      BY <2>3 DEF Ranked
    <3> QED BY <2>3, <3>1
  <2>4. ASSUME i - n \in DOMAIN t, u[i] = t[i - n], j - n \in DOMAIN t, u[j] = t[j - n]
        PROVE  Strength(u[i].kind) <= Strength(u[j].kind)
    <3>1. i - n <= j - n BY <1>2, <1>5, <2>1
    <3> QED BY <2>4, <3>1 DEF Ranked
  <2>5. ~(i > n /\ j \in DOMAIN s) BY <1>2, <1>5, <2>1
  <2> QED BY <1>3, <2>2, <2>3, <2>4, <2>5
<1>6. u \in Seq(Evidences) BY <1>2
<1> QED BY <1>4, <1>5, <1>6 DEF Ranked, u

\* Items of one kind.
LEMMA OneKind ==
  ASSUME NEW items \in Seq(Evidences), NEW k \in Int,
         \A i \in DOMAIN items : Strength(items[i].kind) = k
  PROVE  Ranked(items, k, k)
BY DEF Ranked

EvidenceKinds ==
  {"external_state", "service_receipt", "deterministic_fixture", "semantic_grader"}

LEMMA ItemTyped ==
  ASSUME NEW kind \in EvidenceKinds, NEW result \in {"supports", "contradicts", "errored"}
  PROVE  Item(kind, result) \in Evidences /\ Item(kind, result).kind = kind
BY DEF Item, Evidences, EvidenceKinds

LEMMA ReadingTyped ==
  ASSUME NEW kind \in EvidenceKinds, NEW reading, NEW wanted
  PROVE  Reading(kind, reading, wanted) \in Evidences /\ Reading(kind, reading, wanted).kind = kind
<1> DEFINE result == IF reading = "error" THEN "errored" ELSE Result((reading = "yes") = wanted)
<1>1. result \in {"supports", "contradicts", "errored"} BY DEF Result
<1>2. Reading(kind, reading, wanted) = Item(kind, result) BY Zenon DEF Reading
<1> HIDE DEF result
<1> QED BY <1>1, <1>2, ItemTyped

LEMMA EvidenceRanked ==
  ASSUME receipts \in Seq([trusted : BOOLEAN, landed : BOOLEAN]),
         NEW wanted, NEW readable, NEW n \in Nat, NEW states \in [1..n -> Readings],
         NEW fixture \in Optional, NEW grader \in Optional
  PROVE  Ranked(Evidence(states, readable, fixture, grader, wanted), 0, 3)
<1>1. \A m, w : Result(m) \in {"supports", "contradicts"} BY DEF Result
<1>2. Ranked(StateItems(states, wanted), 0, 0)
  <2> DEFINE item(i) == Reading("external_state", states[i], wanted)
  <2>1. \A i \in 1..n : item(i) \in Evidences /\ item(i).kind = "external_state"
    BY ReadingTyped DEF EvidenceKinds
  <2>2. StateItems(states, wanted) = [i \in 1..n |-> item(i)] BY DEF StateItems
  <2> HIDE DEF item
  <2>3. StateItems(states, wanted) \in Seq(Evidences) BY <2>1, <2>2
  <2>4. \A i \in DOMAIN StateItems(states, wanted) :
          StateItems(states, wanted)[i].kind = "external_state"
    BY <2>1, <2>2
  <2>5. Strength("external_state") = 0 BY DEF Strength
  <2> QED BY <2>3, <2>4, <2>5, OneKind
<1> DEFINE received == IF readable THEN ReceiptItems(wanted)
                       ELSE <<Item("service_receipt", "errored")>>
<1>3. Ranked(received, 1, 1)
  <2>1. Trusted \subseteq 1..Len(receipts) /\ Len(receipts) \in Nat BY DEF Trusted
  <2>2. Cardinality(Trusted) \in Nat
    <3>1. IsFiniteSet(1..Len(receipts)) BY <2>1, FS_Interval
    <3>2. IsFiniteSet(Trusted) BY <2>1, <3>1, FS_Subset
    <3> QED BY <3>2, FS_CardinalityType
  <2> DEFINE nth(k) == CHOOSE i \in Trusted : Cardinality({j \in Trusted : j < i}) = k - 1
             item(k) == Item("service_receipt", Result(receipts[nth(k)].landed = wanted))
             count == Cardinality(Trusted)
  <2>10. ReceiptItems(wanted) = [k \in 1..count |-> item(k)] BY DEF ReceiptItems
  <2>11. \A k \in 1..count : item(k) \in Evidences /\ item(k).kind = "service_receipt"
    <3> SUFFICES ASSUME NEW k \in 1..count
                 PROVE  item(k) \in Evidences /\ item(k).kind = "service_receipt"
      OBVIOUS
    <3> DEFINE result == Result(receipts[nth(k)].landed = wanted)
    <3>1. result \in {"supports", "contradicts", "errored"} BY <1>1
    <3>2. item(k) = Item("service_receipt", result) OBVIOUS
    <3> HIDE DEF result, item
    <3> QED BY <3>1, <3>2, ItemTyped DEF EvidenceKinds
  <2>12. count \in Nat BY <2>2
  <2> HIDE DEF item, count
  <2>3. ReceiptItems(wanted) \in Seq(Evidences) BY <2>10, <2>11, <2>12
  <2>4. \A i \in DOMAIN ReceiptItems(wanted) : ReceiptItems(wanted)[i].kind = "service_receipt"
    BY <2>10, <2>11
  <2>5. PICK x \in Evidences : x = Item("service_receipt", "errored") /\ x.kind = "service_receipt"
    BY ItemTyped DEF EvidenceKinds
  <2>6. <<x>> \in Seq(Evidences) /\ \A i \in DOMAIN <<x>> : <<x>>[i].kind = "service_receipt"
    BY <2>5
  <2>9. received = IF readable THEN ReceiptItems(wanted) ELSE <<x>> BY <2>5
  <2>7. received \in Seq(Evidences) /\ \A i \in DOMAIN received : received[i].kind = "service_receipt"
    BY <2>3, <2>4, <2>6, <2>9
  <2>8. Strength("service_receipt") = 1 BY DEF Strength
  <2> HIDE DEF received
  <2> QED BY <2>7, <2>8, OneKind
<1>4. ASSUME NEW kind \in {"deterministic_fixture", "semantic_grader"}, NEW answer \in Optional
      PROVE  Ranked(IfAsked(kind, answer), Strength(kind), Strength(kind))
  <2> DEFINE x == Reading(kind, answer, TRUE)
  <2>4. x \in Evidences /\ x.kind = kind BY ReadingTyped DEF EvidenceKinds
  <2>5. IfAsked(kind, answer) = IF answer = "not asked" THEN <<>> ELSE <<x>> BY DEF IfAsked
  <2> HIDE DEF x
  <2>6. <<x>> \in Seq(Evidences) /\ \A i \in DOMAIN <<x>> : <<x>>[i].kind = kind BY <2>4
  <2>7. <<>> \in Seq(Evidences) /\ DOMAIN <<>> = {} OBVIOUS
  <2> DEFINE items == IfAsked(kind, answer)
  <2>8. items = <<>> \/ items = <<x>> BY <2>5
  <2> HIDE DEF items
  <2>1. items \in Seq(Evidences) BY <2>6, <2>7, <2>8
  <2>2. \A i \in DOMAIN items : items[i].kind = kind
    <3>1. CASE items = <<>> BY <2>7, <3>1
    <3>2. CASE items = <<x>> BY <2>6, <3>2
    <3> QED BY <2>8, <3>1, <3>2
  <2>3. Strength(kind) \in Int BY DEF Strength
  <2> QED BY <2>1, <2>2, <2>3, OneKind DEF items
<1>5. Strength("deterministic_fixture") = 2 /\ Strength("semantic_grader") = 3
  BY DEF Strength
<1>6. /\ Ranked(IfAsked("deterministic_fixture", fixture), 2, 2)
      /\ Ranked(IfAsked("semantic_grader", grader), 3, 3)
  BY <1>4, <1>5
<1>7. Evidence(states, readable, fixture, grader, wanted) =
        StateItems(states, wanted) \o received \o IfAsked("deterministic_fixture", fixture)
        \o IfAsked("semantic_grader", grader)
  BY DEF Evidence
<1> HIDE DEF received
<1>8. Ranked(StateItems(states, wanted) \o received, 0, 1) BY <1>2, <1>3, RankedConcat
<1>9. Ranked(StateItems(states, wanted) \o received \o IfAsked("deterministic_fixture", fixture), 0, 2)
  BY <1>6, <1>8, RankedConcat
<1>10. Ranked(StateItems(states, wanted) \o received \o IfAsked("deterministic_fixture", fixture)
              \o IfAsked("semantic_grader", grader), 0, 3)
  BY <1>6, <1>9, RankedConcat
<1> QED BY <1>7, <1>10

LEMMA VerifierStep == VerifierInv /\ [VerifierNext]_verifierVars => VerifierInv'
<1> SUFFICES ASSUME VerifierInv, [VerifierNext]_verifierVars PROVE VerifierInv'
  OBVIOUS
<1>0. Ranked(<<>>, 0, 3) /\ Combined(<<>>) = "unknown"
  BY DEF Ranked, Combined
<1>1. ASSUME NEW trusted \in BOOLEAN, NEW landed \in BOOLEAN, RecordReceipt(trusted, landed)
      PROVE  VerifierInv'
  <2>1. receipts' \in Seq([trusted : BOOLEAN, landed : BOOLEAN]) /\ verdict' = verdict
    BY <1>1 DEF RecordReceipt, VerifierInv
  <2> QED BY <2>1 DEF VerifierInv
<1>2. ASSUME NEW good \in Readings, NEW bad \in Readings, Ask(good, bad) PROVE VerifierInv'
  <2>1. ASSUME NEW wanted \in BOOLEAN, NEW readable \in BOOLEAN, NEW n \in 0..Queries,
               NEW fixture \in Optional, NEW grader \in Optional,
               NEW states \in [1..n -> Readings],
               Verify(wanted, states, readable, fixture, grader)
        PROVE  VerifierInv'
    <3> DEFINE evidence == Evidence(states, readable, fixture, grader, wanted)
    <3>1. Ranked(evidence, 0, 3)
      <4>1. n \in Nat BY VerifierAssumption
      <4> QED BY <4>1, EvidenceRanked DEF VerifierInv
    <3>2. verdict'.verdict = Combined(evidence) /\ verdict'.evidence = evidence
      BY <2>1 DEF Verify
    <3>3. receipts' = receipts BY <2>1 DEF Verify
    <3> HIDE DEF evidence
    <3> QED BY <3>1, <3>2, <3>3 DEF VerifierInv
  <2>2. ASSUME VerifyUnhealthy PROVE VerifierInv'
    BY <1>0, <2>2 DEF VerifyUnhealthy, Pending, VerifierInv
  <2> QED BY <1>2, <2>1, <2>2 DEF Ask
<1>3. CASE UNCHANGED verifierVars
  BY <1>3 DEF verifierVars, VerifierInv
<1> QED BY <1>1, <1>2, <1>3 DEF VerifierNext

LEMMA VerifierInvariant == VerifierSpec => []VerifierInv
<1>1. VerifierInit => VerifierInv
  BY DEF VerifierInit, VerifierInv, Pending, Ranked, Combined
<1> QED BY <1>1, VerifierStep, PTL DEF VerifierSpec

\* However many receipts arrive, and whatever the sources answer, the verdict agrees
\* with the strongest authoritative answer there is.
THEOREM StrongestEvidenceDecides == VerifierSpec => []StrongestDecides
<1>1. VerifierInv => StrongestDecides
  <2> SUFFICES ASSUME VerifierInv PROVE StrongestDecides
    OBVIOUS
  <2> DEFINE e == verdict.evidence
             answered == {i \in DOMAIN e : Authoritative(e[i])}
             first == CHOOSE i \in answered : \A j \in answered : i <= j
             said == IF verdict.verdict = "passed" THEN "supports" ELSE "contradicts"
             agreeing == {i \in answered : e[i].result = said}
  <2>1. /\ Ranked(e, 0, 3)
        /\ verdict.verdict = IF answered = {} THEN "unknown"
                             ELSE IF e[first].result = "supports" THEN "passed" ELSE "failed"
    BY DEF VerifierInv, Combined
  <2>2. ASSUME answered # {} PROVE first \in answered /\ \A j \in answered : first <= j
    <3>1. answered \in SUBSET Nat BY <2>1 DEF Ranked
    <3> QED BY <2>2, <3>1, LeastNumber
  <2>3. ASSUME answered # {} PROVE first \in agreeing
    <3>4. first \in DOMAIN e /\ Authoritative(e[first]) BY <2>2, <2>3
    <3>5. e \in Seq(Evidences) BY <2>1 DEF Ranked
    <3> HIDE DEF first, e
    <3>1. e[first] \in Evidences /\ e[first].result # "errored"
      BY <3>4, <3>5 DEF Authoritative
    <3>2. e[first].result \in {"supports", "contradicts"} BY <3>1 DEF Evidences
    <3>3. e[first].result = said BY <2>1, <2>3, <3>2
    <3> QED BY <2>2, <2>3, <3>3
  <2>4. ASSUME answered # {}
        PROVE  \A j \in answered : Strength(e[first].kind) <= Strength(e[j].kind)
    BY <2>1, <2>2, <2>4 DEF Ranked
  <2>5. answered # {} => verdict.verdict # "unknown" BY <2>1
  <2> SUFFICES IF verdict.verdict = "unknown" THEN answered = {}
               ELSE \E i \in agreeing : \A j \in answered : Strength(e[i].kind) <= Strength(e[j].kind)
    BY Zenon DEF StrongestDecides
  <2> HIDE DEF agreeing, first
  <2> QED BY <2>1, <2>3, <2>4, <2>5
<1> QED BY <1>1, VerifierInvariant, PTL
===============================================================================
