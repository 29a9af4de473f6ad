---------------------------- MODULE MCScheduler ----------------------------
(* Instances of Scheduler. -1 and 0 are one class after the clamp, 12 is    *)
(* the lowest one.                                                          *)
EXTENDS Scheduler, TLC

CONSTANTS i1, i2, i3, i4

IdSymmetry == Permutations(Ids)
PrioritiesUsed == {-1, 0, 12}
=============================================================================
