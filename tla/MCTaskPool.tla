----------------------------- MODULE MCTaskPool -------------------------------
(* Values for TaskPool's constants on small instances.                     *)
EXTENDS TaskPool, TLC

MCIntervals  == {0, 2}
MCIterations == {0, 2}
MCDeltas     == {1}
MCSymmetry   == Permutations(Tasks) \cup Permutations(Entities) \cup Permutations(Funcs)
=============================================================================
