--------------------------- MODULE RoutineService ----------------------------
(***************************************************************************)
(* What a script may rely on when it hands a callback to SqRoutine,        *)
(* without slots, timers or scans: a routine is started once, is called    *)
(* only while it lives and, when it was given a number of iterations, not  *)
(* more often than that.  RoutinePool implements it.                       *)
(***************************************************************************)
EXTENDS Integers

CONSTANTS
  Routines,   (* the routines a script may start                           *)
  Unlimited,  (* no bound on the number of calls                           *)
  Quotas      (* the bounds a script may ask for                           *)

VARIABLES
  started,  (* the routines started so far                                 *)
  live,     (* the routines started and not terminated                     *)
  quota     (* per routine: the calls it is still allowed                  *)

vars == <<started, live, quota>>

Init ==
  /\ started = {}
  /\ live = {}
  /\ quota = [r \in Routines |-> Unlimited]

Start(r, q) ==
  /\ r \notin started
  /\ started' = started \cup {r}
  /\ live' = live \cup {r}
  /\ quota' = [quota EXCEPT ![r] = q]

(* A script may give a living routine another bound.                       *)
SetQuota(r, q) ==
  /\ r \in live
  /\ quota' = [quota EXCEPT ![r] = q]
  /\ UNCHANGED <<started, live>>

Call(r) ==
  /\ r \in live
  /\ quota[r] # 0
  /\ quota' = [quota EXCEPT ![r] = IF @ = Unlimited THEN Unlimited ELSE @ - 1]
  /\ UNCHANGED <<started, live>>

Stop(r) ==
  /\ r \in live
  /\ live' = live \ {r}
  /\ UNCHANGED <<started, quota>>

(* The scripts are reloaded: nothing of the previous ones is left.         *)
Restart ==
  /\ started' = {}
  /\ live' = {}
  /\ quota' = [r \in Routines |-> Unlimited]

Next ==
  \/ \E r \in Routines :
       \/ \E q \in Quotas : Start(r, q) \/ SetQuota(r, q)
       \/ Call(r)
       \/ Stop(r)
  \/ Restart

Spec == Init /\ [][Next]_vars
=============================================================================
