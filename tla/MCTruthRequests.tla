-------------------------- MODULE MCTruthRequests --------------------------
(* Instances of TruthRequests for TLC.                                      *)
EXTENDS TruthRequests, TLC

CONSTANTS c1, c2, a1, a2, t1, r1, r2, r3

TruthKeys == [k \in Keys |-> CASE k \in {c1, c2} -> "create"
                               [] k \in {a1, a2} -> "activate"
                               [] k = t1 -> "task"]

\* Requests and sources are interchangeable.
Symmetry == Permutations(Requests) \cup Permutations({c1, c2})
              \cup Permutations({a1, a2})
=============================================================================
