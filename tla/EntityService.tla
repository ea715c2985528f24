---------------------------- MODULE EntityService -----------------------------
(***************************************************************************)
(* What the pools of entities and of tasks promise each other: an entity is*)
(* there or not, tasks are bound to entities that are there, and an entity *)
(* that goes takes its tasks with it in the same step, whatever scripts are*)
(* doing at the time.  EntityPool keeps the promise with a set of bound    *)
(* identifiers for the tasks, TaskPool with entities that come and go.     *)
(***************************************************************************)
CONSTANT
  Entities   (* the entities there may be                                  *)

VARIABLES
  present,   (* the entities scripts can reach                             *)
  bound      (* the entities that have tasks                               *)

vars == <<present, bound>>

Init ==
  /\ present = {}
  /\ bound = {}

Arrive(e) ==
  /\ e \notin present
  /\ present' = present \cup {e}
  /\ UNCHANGED bound

Bind(e) ==
  /\ e \in present
  /\ bound' = bound \cup {e}
  /\ UNCHANGED present

(* The last task of an entity ends.                                        *)
Unbind(e) ==
  /\ bound' = bound \ {e}
  /\ UNCHANGED present

Depart(e) ==
  /\ e \in present
  /\ present' = present \ {e}
  /\ bound' = bound \ {e}

(* The scripts are stopped, and all tasks with them.                       *)
Clear ==
  /\ bound' = {}
  /\ UNCHANGED present

Next ==
  \/ \E e \in Entities : Arrive(e) \/ Bind(e) \/ Unbind(e) \/ Depart(e)
  \/ Clear

Spec == Init /\ [][Next]_vars
=============================================================================
