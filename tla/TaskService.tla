----------------------------- MODULE TaskService ------------------------------
(***************************************************************************)
(* What a script may rely on when it hands a callback to MakeTask, without *)
(* slots, timers or scans: a task is bound to one entity from its start to *)
(* its end, is called only while that entity is there and, when it was     *)
(* given a number of iterations, not more often than that; and the end of  *)
(* an entity is the end of its tasks.  TaskPool implements it.             *)
(***************************************************************************)
EXTENDS Integers

CONSTANTS
  Tasks,      (* the tasks a script may start                              *)
  Entities,   (* what they may be bound to                                 *)
  Unlimited,  (* no bound on the number of calls                           *)
  Quotas      (* the bounds a script may ask for                           *)

VARIABLES
  present,  (* the entities there are                                      *)
  bindings, (* the tasks that live, each with its entity                   *)
  started,  (* the tasks started so far                                    *)
  quota     (* per task: the calls it is still allowed                     *)

vars == <<present, bindings, started, quota>>

Init ==
  /\ present = {}
  /\ bindings = {}
  /\ started = {}
  /\ quota = [t \in Tasks |-> Unlimited]

Arrive(e) ==
  /\ e \notin present
  /\ present' = present \cup {e}
  /\ UNCHANGED <<bindings, started, quota>>

Depart(e) ==
  /\ e \in present
  /\ present' = present \ {e}
  /\ bindings' = {b \in bindings : b.entity # e}
  /\ UNCHANGED <<started, quota>>

Start(t, e, q) ==
  /\ t \notin started
  /\ e \in present
  /\ started' = started \cup {t}
  /\ bindings' = bindings \cup {[task |-> t, entity |-> e]}
  /\ quota' = [quota EXCEPT ![t] = q]
  /\ UNCHANGED present

(* A script may give a living task another bound.                          *)
SetQuota(b, q) ==
  /\ quota' = [quota EXCEPT ![b.task] = q]
  /\ UNCHANGED <<present, bindings, started>>

Call(b) ==
  /\ b.entity \in present
  /\ quota[b.task] # 0
  /\ quota' = [quota EXCEPT ![b.task] = IF @ = Unlimited THEN Unlimited ELSE @ - 1]
  /\ UNCHANGED <<present, bindings, started>>

Stop(b) ==
  /\ bindings' = bindings \ {b}
  /\ UNCHANGED <<present, started, quota>>

(* The scripts are reloaded: nothing of the previous ones is left.         *)
Restart ==
  /\ bindings' = {}
  /\ started' = {}
  /\ quota' = [t \in Tasks |-> Unlimited]
  /\ UNCHANGED present

Next ==
  \/ \E e \in Entities :
       \/ Arrive(e)
       \/ Depart(e)
       \/ \E t \in Tasks, q \in Quotas : Start(t, e, q)
  \/ \E b \in bindings :
       \/ \E q \in Quotas : SetQuota(b, q)
       \/ Call(b)
       \/ Stop(b)
  \/ Restart

Spec == Init /\ [][Next]_vars

=============================================================================
