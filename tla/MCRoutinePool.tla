---------------------------- MODULE MCRoutinePool ----------------------------
(* Values for RoutinePool's constants on small instances.                  *)
EXTENDS RoutinePool, TLC

MCIntervals     == {-1, 0, 2}
MCLiveIntervals == {0, 2}
MCIterations    == {0, 1, 2}
MCLiveIterations == {0}
MCDeltas         == {1}
MCLiveDeltas     == {0, 1}
MCSymmetry      == Permutations(Routines)
=============================================================================
