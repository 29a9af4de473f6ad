-------------------------- MODULE MCWorkerManager --------------------------
(* Instances of WorkerManager for TLC *)
EXTENDS WorkerManager, TLC
CONSTANTS m1, m2, a, c1, c2, c3
MCBytes == [m \in Models |-> IF m = Boot THEN 2 ELSE 1]
Symmetry == Permutations(Callers)
=============================================================================
