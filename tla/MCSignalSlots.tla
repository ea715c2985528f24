---------------------------- MODULE MCSignalSlots ----------------------------
(* Values for SignalSlots' constants on small instances.                   *)
EXTENDS SignalSlots, TLC

(* One environment, as many functions as listeners: MatchThis accepts all  *)
(* of them, MatchSlot and MatchFunc one.                                   *)
MCMatchers == {{l} : l \in Listeners} \cup {Listeners}
MCSymmetry == Permutations(Listeners)
=============================================================================
