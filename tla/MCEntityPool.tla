---------------------------- MODULE MCEntityPool -----------------------------
(* Values for EntityPool's constants on small instances.                   *)
EXTENDS EntityPool, TLC

MCSymmetry == Permutations(Handles)
=============================================================================
