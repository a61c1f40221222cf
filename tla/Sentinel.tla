-------------------------------- MODULE Sentinel -------------------------------
(***************************************************************************)
(* The sentinel sampler (supervisor/sentinel.go): deep review drawn        *)
(* uniformly over clean traffic, by unit or by cluster, batch after batch; *)
(* risk-routed units are reviewed besides.  The keyed hash is any function *)
(* of the sampling id, fixed when the sampler is built.                    *)
(***************************************************************************)
EXTENDS Integers, FiniteSets

CONSTANTS
  Units,
  ClusterOf,   \* [Units -> the unit's cluster, or NoCluster]
  Draws        \* the batches that may be assigned: sets of [unit, routed]

NoCluster == "none"
SampleBy == {"unit", "cluster"}
SamplingIds == Units \cup {ClusterOf[u] : u \in Units}

\* A unit appears once in a batch.
ASSUME SentinelAssumption ==
  /\ \A batch \in Draws : batch \subseteq [unit : Units, routed : BOOLEAN]
  /\ \A batch \in Draws : \A x, y \in batch : x.unit = y.unit => x = y

VARIABLES
  drawn,     \* [SamplingIds -> BOOLEAN]: the ids whose hash falls below the rate
  design,    \* unit or cluster sampling
  selected   \* every selection any batch has produced

sentinelVars == <<drawn, design, selected>>

SentinelInit ==
  /\ drawn \in [SamplingIds -> BOOLEAN]
  /\ design \in SampleBy
  /\ selected = {}

\* Mutation: a cluster with a risk-routed unit is left out of the draw.
ClustersUnrouted(batch) ==
  {c \in {ClusterOf[x.unit] : x \in batch} :
     c # NoCluster /\ drawn[c] /\ \A y \in batch : ClusterOf[y.unit] = c => ~y.routed}

\* One draw per cluster that has a clean unit in the batch.
ClustersDrawn(batch) ==
  {c \in {ClusterOf[x.unit] : x \in {y \in batch : ~y.routed}} : c # NoCluster /\ drawn[c]}

DrawnIn(batch, x) ==
  IF design = "cluster" /\ ClusterOf[x.unit] # NoCluster
  THEN ClusterOf[x.unit] \in ClustersDrawn(batch)
  ELSE drawn[x.unit]

Method(batch, x) ==
  IF x.routed THEN "risk_routed" ELSE IF DrawnIn(batch, x) THEN "sentinel" ELSE "none"

Assign(batch) ==
  /\ selected' = selected \cup {[unit |-> x.unit, method |-> Method(batch, x)] : x \in batch}
  /\ UNCHANGED <<drawn, design>>

SentinelNext == \E batch \in Draws : Assign(batch)

SentinelSpec == SentinelInit /\ [][SentinelNext]_sentinelVars

-----------------------------------------------------------------------------
\* However the traffic is batched, and whoever else in the batch is risk-routed, a
\* clean unit is always in the sample or always out, and in cluster sampling with
\* the whole of its cluster (sentinel.go:6-8, 148-149).
DrawIsStable ==
  \A s, t \in selected :
    /\ s.method # "risk_routed" /\ t.method # "risk_routed"
    /\ s.unit = t.unit \/ (design = "cluster" /\ ClusterOf[s.unit] = ClusterOf[t.unit]
                           /\ ClusterOf[s.unit] # NoCluster)
    => s.method = t.method
=============================================================================
