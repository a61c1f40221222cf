---------------------------- MODULE MCDelegation ----------------------------
(* Values for the constants of Delegation: run r1 has a root budget, r2 has    *)
(* none.  Requests build a chain d1 - d2 - d3, or d3 as a second tree, and try  *)
(* to widen a list, to raise a ceiling, to delegate what another actor holds   *)
(* and to go deeper.                                                           *)
EXTENDS Delegation, TLC

CONSTANTS r1, r2, d1, d2, d3, d4

TwoRuns == {r1, r2}
Four == {d1, d2, d3, d4}

\* The classes and resources match themselves, the destinations by prefix.
Lists == {"write", "api", "api/x", "doc"}
Named == {"write", "api/x", "api/y", "doc"}
Matches == [l \in Lists |-> IF l = "api" THEN {"api/x", "api/y"} ELSE {l}]

Caps(dests) == [k \in Kinds |-> CASE k = "class" -> {"write"}
                                  [] k = "destination" -> dests
                                  [] k = "resource" -> {"doc"}]

Classes == [r \in TwoRuns |-> {"write"}]
Roots == [r \in TwoRuns |-> Caps(IF r = r1 THEN Lists ELSE {"api", "api/x"})]

Ceiling(effects, cost) == [effects |-> effects, tokens |-> 1, cost |-> cost, currency |-> "usd"]

RootCeilings == [r \in TwoRuns |-> IF r = r1 THEN Ceiling(1, 2) ELSE None]

Mint(id, r, parent, by, dests, budget) ==
  [id |-> id, run |-> r, parent |-> parent, by |-> by,
   to |-> IF parent = None THEN "a1" ELSE IF parent = d1 THEN "a2" ELSE "a3", caps |-> Caps(dests), budget |-> budget]

Requests ==
  {Mint(d1, r1, None, "a0", {"api", "api/x"}, Ceiling(1, 2)),
   Mint(d1, r2, None, "a0", {"api", "api/x"}, Ceiling(2, 2)),
   Mint(d2, r2, d1, "a1", {}, Ceiling(1, 2)),
   Mint(d2, r2, d1, "a0", {"api"}, Ceiling(2, 2)),
   Mint(d4, r2, d3, "a3", {"api"}, Ceiling(1, 1))}
  \cup UNION {{Mint(d2, r, d1, "a1", {"api/x"}, Ceiling(1, 1)),
              Mint(d2, r, d1, "a1", {"api"}, Ceiling(2, 2)),
              Mint(d3, r, d2, "a2", {"api"}, Ceiling(1, 1)),
              Mint(d3, r, d2, "a2", {"api/x"}, Ceiling(1, 1)),
              Mint(d3, r, None, "a0", {"api"}, Ceiling(1, 2))} : r \in TwoRuns}

Proposal(r, actor, d, dest, compensates) ==
  [run |-> r, actor |-> actor, delegation |-> d, compensates |-> compensates,
   target |-> [k \in Kinds |-> CASE k = "class" -> "write"
                                 [] k = "destination" -> dest
                                 [] k = "resource" -> "doc"]]

Proposed ==
  {Proposal(r1, "a1", d1, "api/y", FALSE), Proposal(r1, "a2", d2, "api/x", FALSE),
   Proposal(r1, "a1", d3, "api/x", TRUE), Proposal(r2, "a1", d1, "api/x", FALSE),
   Proposal(r2, "a2", d2, "api/x", FALSE), Proposal(r2, "a3", d3, "api/x", FALSE),
   Proposal(r2, "a0", None, "api/y", TRUE)}
Symmetry == Permutations(Effects)
=============================================================================
