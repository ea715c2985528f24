------------------------------- MODULE MCPlugin -------------------------------
(* Values for Plugin's constants on small instances.                       *)
EXTENDS Plugin

CONSTANT a

(* Lists of none or of one script, which is delayed; what it and others    *)
(* queue, delayed or not, makes more levels than MaxLevels.                *)
MCListed == {[mPath |-> a, mDelay |-> TRUE]}

MCTracks == {-1, 0, 2}

(* The other scripts are alike.  The liveness property and what is asked of*)
(* fairness speak of the life cycle alone, tell none of these from another,*)
(* and no step of the life cycle leads from a state to the same one with   *)
(* two scripts exchanged.                                                  *)
MCSymmetry ==
  Permutations(Paths \ {a}) \cup Permutations(Managers) \cup Permutations(Listeners)
=============================================================================
