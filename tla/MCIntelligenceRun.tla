------------------------- MODULE MCIntelligenceRun -------------------------
(* IntelligenceRun on a small instance; instances, requests and row ids    *)
(* are each interchangeable.                                               *)
EXTENDS IntelligenceRun, TLC

Symmetry == Permutations(Instances) \cup Permutations(Requests) \cup Permutations(RunIds)
=============================================================================
