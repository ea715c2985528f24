------------------------------- MODULE TaskPool -------------------------------
(***************************************************************************)
(* The pool of tasks (source/Tasks.hpp, source/Tasks.cpp): callbacks bound *)
(* to an entity that the server frame runs after an interval, a number of  *)
(* times or forever, as long as the entity is there.                       *)
(*                                                                         *)
(* s_Tasks[s] is the task of slot s, free when its mEntity is invalid;     *)
(* s_Intervals[s] is the time left before its next run.  Unlike a routine, *)
(* a task has no object of its own: the script object of a task is that of *)
(* its slot (mSelf), made once, so that a script that keeps one reaches    *)
(* whatever task is in the slot later, or the free slot.  And a task may   *)
(* end from outside: an entity that goes away cleans up its tasks, also    *)
(* when one of them has destroyed it and is still running.                 *)
(*                                                                         *)
(* The entities are those of EntityPool; here they arrive and depart as    *)
(* EntityService says.  An entity stands for a type and an identifier.     *)
(*                                                                         *)
(* Left out: mTag, mData and mInst, which steer nothing in the pool, and   *)
(* the stack of the virtual machine, where Execute leaves the callback.    *)
(***************************************************************************)
EXTENDS Integers

CONSTANTS
  Tasks,       (* names for the tasks scripts make                         *)
  Entities,    (* what tasks are bound to                                  *)
  Funcs,       (* the callbacks, each with its own hash                    *)
  Null,        (* no entity (-1), no callback, no task                     *)
  Unlimited,   (* no bound on the number of runs                           *)
  MaxTasks,    (* SQMOD_MAX_TASKS: the number of slots                     *)
  Intervals,   (* the intervals a script asks for                          *)
  Iterations,  (* the iteration counts a script asks for                   *)
  Deltas       (* the milliseconds one frame may take                      *)

ASSUME TaskAssumption ==
  /\ Null \notin Tasks \cup Entities \cup Funcs
  /\ Unlimited \notin Int
  /\ MaxTasks \in Nat \ {0}
  /\ Intervals \subseteq Int
  /\ Iterations \subseteq Nat
  /\ Deltas \subseteq Nat

Slots == 0 .. MaxTasks - 1

VARIABLES
  mEntity,      (* per slot: the entity its task is bound to, or Null      *)
  mFunc,        (* per slot: the callback, and by mHash what Find compares *)
  mIterations,  (* per slot: runs before self destruct, 0 for no limit     *)
  mInterval,    (* per slot: time between runs                             *)
  mArgv,        (* per slot: the task whose arguments it stores, or Null   *)
  s_Intervals,  (* per slot: time left before the next run                 *)
  s_Last,       (* whether Process has taken its first time stamp          *)
  present,      (* the entities whose handles work                         *)
  phase,        (* "idle" | "scan" (in Process) | "call" (in a callback)   *)
                (* | "down" (after Deinitialize)                           *)
  itr,          (* the slot Process has reached                            *)
  delta,        (* the time this frame's Process accounts for              *)
  known,        (* how many slots' objects scripts have been given         *)
  task,         (* history: per slot, the task in it                       *)
  running,      (* history: the task whose callback was called, or Null    *)
  created,      (* history: the tasks made so far                          *)
  left          (* history: the runs a task is still allowed               *)

pool    == <<mEntity, mFunc, mIterations, mInterval, mArgv, task>>
scan    == <<phase, itr, delta, running>>
vars    == <<pool, s_Intervals, s_Last, present, scan, known, created, left>>

-----------------------------------------------------------------------------
(* The statics, before InitializeTasks and before any entity is imported.  *)
Init ==
  /\ mEntity     = [s \in Slots |-> Null]
  /\ mFunc       = [s \in Slots |-> Null]
  /\ mIterations = [s \in Slots |-> 0]
  /\ mInterval   = [s \in Slots |-> 0]
  /\ mArgv       = [s \in Slots |-> Null]
  /\ task        = [s \in Slots |-> Null]
  /\ s_Intervals = [s \in Slots |-> 0]
  /\ s_Last  = FALSE
  /\ present = {}
  /\ phase   = "down"
  /\ itr     = 0
  /\ delta   = 0
  /\ running = Null
  /\ known   = 0
  /\ created = {}
  /\ left    = [t \in Tasks |-> Unlimited]

(* Script code runs in an event handler between frames, or in a callback.  *)
InScript == phase \in {"idle", "call"}

(* The bound a count of iterations stands for: 0 means no limit.           *)
Limit(n) == IF n = 0 THEN Unlimited ELSE n

(* A slip in Task::Terminate: Clear is forgotten.                          *)
ReleaseOnly(S) ==
  /\ mEntity'     = [s \in Slots |-> IF s \in S THEN Null ELSE mEntity[s]]
  /\ mFunc'       = [s \in Slots |-> IF s \in S THEN Null ELSE mFunc[s]]
  /\ mIterations' = [s \in Slots |-> IF s \in S THEN 0 ELSE mIterations[s]]
  /\ mInterval'   = [s \in Slots |-> IF s \in S THEN 0 ELSE mInterval[s]]
  /\ task'        = [s \in Slots |-> IF s \in S THEN Null ELSE task[s]]
  /\ mArgv'       = mArgv

(* Task::Terminate on every slot of S: Release and Clear reset every member*)
(* and leave s_Intervals alone.                                            *)
TerminateSlots(S) ==
  /\ mEntity'     = [s \in Slots |-> IF s \in S THEN Null ELSE mEntity[s]]
  /\ mFunc'       = [s \in Slots |-> IF s \in S THEN Null ELSE mFunc[s]]
  /\ mIterations' = [s \in Slots |-> IF s \in S THEN 0 ELSE mIterations[s]]
  /\ mInterval'   = [s \in Slots |-> IF s \in S THEN 0 ELSE mInterval[s]]
  /\ mArgv'       = [s \in Slots |-> IF s \in S THEN Null ELSE mArgv[s]]
  /\ task'        = [s \in Slots |-> IF s \in S THEN Null ELSE task[s]]

StopTimers(S) ==
  s_Intervals' = [s \in Slots |-> IF s \in S THEN 0 ELSE s_Intervals[s]]

(* FindUnused: the first slot without an entity.                           *)
IsUnused(s) ==
  /\ mEntity[s] = Null
  /\ \A u \in 0 .. s - 1 : mEntity[u] # Null

-----------------------------------------------------------------------------
(* What a script does.                                                     *)

(* A slip: any handle will do.                                             *)
ValidateNothing(e) == e \in Entities

(* The handle a task is made, dropped or looked for with must work.        *)
Validate(e) == e \in present

(* MakeTask with a handle that works: Create takes the first free slot, or *)
(* throws.  Parameters after the fourth are stored in the slot;            *)
(* without any, mArgv keeps what the slot had.  Init sets what it is given *)
(* and assumes the slot was released.                                      *)
Create(t, e, f, intrv, n, withArgs) ==
  /\ InScript
  /\ t \notin created
  /\ Validate(e)
  /\ \E s \in Slots :
       /\ IsUnused(s)
       /\ mEntity'     = [mEntity EXCEPT ![s] = e]
       /\ mFunc'       = [mFunc EXCEPT ![s] = f]
       /\ mIterations' = [mIterations EXCEPT ![s] = n]
       /\ mInterval'   = [mInterval EXCEPT ![s] = intrv]
       /\ mArgv'       = IF withArgs THEN [mArgv EXCEPT ![s] = t] ELSE mArgv
       /\ task'        = [task EXCEPT ![s] = t]
       /\ s_Intervals' = [s_Intervals EXCEPT ![s] = intrv]
       /\ known'       = IF s < known THEN known ELSE s + 1
  /\ created' = created \cup {t}
  /\ left'    = [left EXCEPT ![t] = Limit(n)]
  /\ UNCHANGED <<s_Last, present, scan>>

(* Task::Terminate, called on the object of a slot, whoever is in it.      *)
Terminate(s) ==
  /\ InScript
  /\ s < known
  /\ TerminateSlots({s})
  /\ UNCHANGED <<s_Intervals, s_Last, present, scan, known, created, left>>

(* Task::SetInterval: the next run is still due when it was.               *)
SetInterval(s, intrv) ==
  /\ InScript
  /\ s < known
  /\ mInterval' = [mInterval EXCEPT ![s] = IF intrv < 0 THEN 0 ELSE intrv]
  /\ UNCHANGED <<mEntity, mFunc, mIterations, mArgv, task, s_Intervals, s_Last,
                 present, scan, known, created, left>>

(* Task::SetIterations: a new bound for the task in the slot.              *)
SetIterations(s, n) ==
  /\ InScript
  /\ s < known
  /\ mIterations' = [mIterations EXCEPT ![s] = n]
  /\ left' = [t \in Tasks |-> IF t = task[s] THEN Limit(n) ELSE left[t]]
  /\ UNCHANGED <<mEntity, mFunc, mInterval, mArgv, task, s_Intervals, s_Last,
                 present, scan, known, created>>

(* Task::SetFunc.                                                          *)
SetFunc(s, f) ==
  /\ InScript
  /\ s < known
  /\ mFunc' = [mFunc EXCEPT ![s] = f]
  /\ UNCHANGED <<mEntity, mIterations, mInterval, mArgv, task, s_Intervals, s_Last,
                 present, scan, known, created, left>>

(* Find: the last slot with the callback, the entity and, with four        *)
(* parameters, the interval.  The iterations that came with it are ignored,*)
(* and with three parameters the call fails, looking for the fourth.       *)
Matches(e, f, byInterval, intrv) ==
  {s \in Slots : /\ mEntity[s] = e
                 /\ mFunc[s] = f
                 /\ byInterval => mInterval[s] = intrv}

(* DropTask: Remove terminates the task found and stops its timer.         *)
Remove(e, f, byInterval, intrv) ==
  /\ InScript
  /\ Validate(e)
  /\ \E pos \in Matches(e, f, byInterval, intrv) :
       /\ \A s \in Matches(e, f, byInterval, intrv) : s <= pos
       /\ TerminateSlots({pos})
       /\ StopTimers({pos})
  /\ UNCHANGED <<s_Last, present, scan, known, created, left>>

-----------------------------------------------------------------------------
(* Entities.                                                               *)

(* Import, New or a report of the server has allocated an instance.        *)
Arrive(e) ==
  /\ InScript
  /\ e \notin present
  /\ present' = present \cup {e}
  /\ UNCHANGED <<pool, s_Intervals, s_Last, scan, known, created, left>>

(* A slip in Cleanup: it returns when it has found a task.                 *)
CleanupFirst(e) ==
  LET S == {s \in Slots : mEntity[s] = e /\ \A u \in 0 .. s - 1 : mEntity[u] # e}
  IN  TerminateSlots(S) /\ StopTimers(S)

(* Cleanup: the tasks of an entity end, the one that is running included,  *)
(* and their timers stop.                                                  *)
Cleanup(e) ==
  LET S == {s \in Slots : mEntity[s] = e}
  IN  TerminateSlots(S) /\ StopTimers(S)

(* Destroy of an instance: its handle stops working and its tasks end.     *)
Depart(e) ==
  /\ InScript
  /\ e \in present
  /\ present' = present \ {e}
  /\ Cleanup(e)
  /\ UNCHANGED <<s_Last, scan, known, created, left>>

-----------------------------------------------------------------------------
(* Tasks::Process, one slot per step.                                      *)

(* The first call only takes the time stamp.                               *)
ProcessFirst ==
  /\ phase = "idle"
  /\ ~ s_Last
  /\ s_Last' = TRUE
  /\ UNCHANGED <<pool, s_Intervals, present, scan, known, created, left>>

ProcessBegin(d) ==
  /\ phase = "idle"
  /\ s_Last
  /\ phase' = "scan"
  /\ itr'   = 0
  /\ delta' = d
  /\ UNCHANGED <<pool, s_Intervals, s_Last, present, running, known, created, left>>

(* A slot whose timer is zero is skipped.                                  *)
SkipSlot ==
  /\ phase = "scan"
  /\ itr \in Slots
  /\ s_Intervals[itr] = 0
  /\ itr' = itr + 1
  /\ UNCHANGED <<pool, s_Intervals, s_Last, present, phase, delta, running, known,
                 created, left>>

(* A slot that is not due yet only loses the time that passed.             *)
TickSlot ==
  /\ phase = "scan"
  /\ itr \in Slots
  /\ s_Intervals[itr] # 0
  /\ s_Intervals[itr] - delta > 0
  /\ s_Intervals' = [s_Intervals EXCEPT ![itr] = @ - delta]
  /\ itr' = itr + 1
  /\ UNCHANGED <<pool, s_Last, present, phase, delta, running, known, created, left>>

IsDue(s) == s_Intervals[s] # 0 /\ s_Intervals[s] - delta <= 0

(* Execute on a slot whose task was terminated: the timer stops.           *)
ExecuteUnused ==
  /\ phase = "scan"
  /\ itr \in Slots
  /\ IsDue(itr)
  /\ mEntity[itr] = Null
  /\ StopTimers({itr})
  /\ itr' = itr + 1
  /\ UNCHANGED <<pool, s_Last, present, phase, delta, running, known, created, left>>

(* Execute up to sq_call: from here to CallReturn the script runs.         *)
CallBegin ==
  /\ phase = "scan"
  /\ itr \in Slots
  /\ IsDue(itr)
  /\ mEntity[itr] # Null
  /\ phase' = "call"
  /\ running' = task[itr]
  /\ s_Intervals' = [s_Intervals EXCEPT ![itr] = @ - delta]
  /\ left' = [left EXCEPT ![task[itr]] = IF @ = Unlimited THEN Unlimited ELSE @ - 1]
  /\ UNCHANGED <<pool, s_Last, present, itr, delta, known, created>>

(* Slips at the end of Execute: "no limit" is decreased too; the count is  *)
(* tested before it is lowered.                                            *)
EndExecuteUnguarded(failed) ==
  /\ IF failed \/ mIterations[itr] = 1
       THEN TerminateSlots({itr})
       ELSE /\ mIterations' = [mIterations EXCEPT ![itr] = @ - 1]
            /\ UNCHANGED <<mEntity, mFunc, mInterval, mArgv, task>>
  /\ s_Intervals' = [s_Intervals EXCEPT ![itr] = mInterval'[itr]]
  /\ itr' = itr + 1

EndExecuteLate(failed) ==
  /\ IF failed
       THEN TerminateSlots({itr})
       ELSE /\ mIterations' = [mIterations EXCEPT ![itr] = IF @ = 0 THEN 0 ELSE @ - 1]
            /\ UNCHANGED <<mEntity, mFunc, mInterval, mArgv, task>>
  /\ s_Intervals' = [s_Intervals EXCEPT ![itr] = mInterval'[itr]]
  /\ itr' = itr + 1

(* The end of Execute, in the slot Process has reached: one iteration less,*)
(* the slot terminated with the last one or when the callback failed, and  *)
(* the timer set to whatever interval the slot then has.                   *)
EndExecute(failed) ==
  /\ IF failed \/ mIterations[itr] = 1
       THEN TerminateSlots({itr})
       ELSE /\ mIterations' = [mIterations EXCEPT ![itr] = IF @ = 0 THEN 0 ELSE @ - 1]
            /\ UNCHANGED <<mEntity, mFunc, mInterval, mArgv, task>>
  /\ s_Intervals' = [s_Intervals EXCEPT ![itr] = mInterval'[itr]]
  /\ itr' = itr + 1

(* sq_call returns, failed or not, to an Execute that knows only its slot. *)
CallReturn(failed) ==
  /\ phase = "call"
  /\ phase' = "scan"
  /\ running' = Null
  /\ EndExecute(failed)
  /\ UNCHANGED <<s_Last, present, delta, known, created, left>>

ProcessEnd ==
  /\ phase = "scan"
  /\ itr = MaxTasks
  /\ phase' = "idle"
  /\ itr'   = 0
  /\ delta' = 0
  /\ UNCHANGED <<pool, s_Intervals, s_Last, present, running, known, created, left>>

-----------------------------------------------------------------------------
(* Reload: Core::Terminate calls Deinitialize and closes the machine, which*)
(* takes every script object; Core::Initialize calls Initialize.           *)

Deinitialize ==
  /\ phase = "idle"
  /\ phase' = "down"
  /\ TerminateSlots(Slots)
  /\ known'   = 0
  /\ created' = {}
  /\ left'    = [t \in Tasks |-> Unlimited]
  /\ UNCHANGED <<s_Intervals, s_Last, present, itr, delta, running>>

Initialize ==
  /\ phase = "down"
  /\ phase' = "idle"
  /\ StopTimers(Slots)
  /\ UNCHANGED <<pool, s_Last, present, itr, delta, running, known, created, left>>

-----------------------------------------------------------------------------
Script ==
  \/ \E t \in Tasks, e \in Entities, f \in Funcs, intrv \in Intervals,
        n \in Iterations, a \in BOOLEAN : Create(t, e, f, intrv, n, a)
  \/ \E s \in Slots :
       \/ Terminate(s)
       \/ \E intrv \in Intervals : SetInterval(s, intrv)
       \/ \E n \in Iterations : SetIterations(s, n)
       \/ \E f \in Funcs : SetFunc(s, f)
  \/ \E e \in Entities, f \in Funcs, b \in BOOLEAN, intrv \in Intervals :
       Remove(e, f, b, intrv)

(* The rest of a frame once it has begun, callbacks returning included.    *)
Process ==
  \/ SkipSlot
  \/ TickSlot
  \/ ExecuteUnused
  \/ CallBegin
  \/ \E failed \in BOOLEAN : CallReturn(failed)
  \/ ProcessEnd

Next ==
  \/ Script
  \/ \E e \in Entities : Arrive(e) \/ Depart(e)
  \/ ProcessFirst
  \/ \E d \in Deltas : ProcessBegin(d)
  \/ Process
  \/ Deinitialize
  \/ Initialize

Spec == Init /\ [][Next]_vars

-----------------------------------------------------------------------------
TypeOK ==
  /\ mEntity \in [Slots -> Entities \cup {Null}]
  /\ mFunc \in [Slots -> Funcs \cup {Null}]
  /\ mIterations \in [Slots -> Nat]
  /\ mInterval \in [Slots -> Int]
  /\ mArgv \in [Slots -> Tasks \cup {Null}]
  /\ s_Intervals \in [Slots -> Int]
  /\ s_Last \in BOOLEAN
  /\ present \subseteq Entities
  /\ phase \in {"idle", "scan", "call", "down"}
  /\ itr \in 0 .. MaxTasks
  /\ delta \in Nat
  /\ known \in 0 .. MaxTasks
  /\ task \in [Slots -> Tasks \cup {Null}]
  /\ running \in Tasks \cup {Null}
  /\ created \subseteq Tasks
  /\ left \in [Tasks -> Int \cup {Unlimited}]

(* No task outlives its entity: whatever is in a slot when Process comes to*)
(* it is bound to an entity whose handle still works, though Execute only  *)
(* looks whether the slot is taken, and the entity may have been destroyed *)
(* by the task itself, by another one or between two frames.               *)
BoundToPresent == \A s \in Slots : mEntity[s] # Null => mEntity[s] \in present

(* A task is called with its own arguments or with none, never with those  *)
(* of the task that had the slot before: Create does not clear them.       *)
OwnArguments == \A s \in Slots : mEntity[s] # Null => mArgv[s] \in {Null, task[s]}

(* The invariant the proofs are by induction on: a slot has an entity when *)
(* it has a task, and no task is in two; a free slot stores no arguments;  *)
(* a slot's count is never more than the runs its task still has, but for  *)
(* the run that has begun; a callback runs in a slot of the pool.          *)
OneSlot ==
  /\ \A s \in Slots : mEntity[s] # Null <=> task[s] # Null
  /\ \A s \in Slots : task[s] # Null => task[s] \in created
  /\ \A s, u \in Slots : task[s] # Null /\ task[s] = task[u] => s = u

UnusedHasNoArguments == \A s \in Slots : mEntity[s] = Null => mArgv[s] = Null

CountWithinLimit ==
  \A s \in Slots :
    LET t == task[s]
    IN  t # Null =>
          /\ left[t] = Unlimited <=> mIterations[s] = 0
          /\ left[t] # Unlimited =>
               mIterations[s] <= left[t] + (IF running = t THEN 1 ELSE 0)

(* While the callback of a task runs, the task is in the slot Process has  *)
(* reached or in none.                                                     *)
CallInSlot ==
  /\ phase = "call" <=> running # Null
  /\ phase = "call" => itr \in Slots /\ running \in created
  /\ \A s \in Slots : running # Null /\ task[s] = running => s = itr

IInv ==
  /\ TypeOK
  /\ BoundToPresent
  /\ OwnArguments
  /\ OneSlot
  /\ UnusedHasNoArguments
  /\ CountWithinLimit
  /\ CallInSlot

(* The pool keeps the promise of TaskService: a task is called only while  *)
(* it lives and its entity is there, never more often than it was allowed, *)
(* and stays bound to its entity, though scripts reach tasks only through  *)
(* slots that may have changed hands.                                      *)
Service == INSTANCE TaskService WITH
  Quotas   <- {Limit(n) : n \in Iterations},
  bindings <- {[task |-> task[s], entity |-> mEntity[s]] :
                 s \in {u \in Slots : mEntity[u] # Null}},
  started  <- created,
  quota    <- left

KeepsService == Service!Spec

(* And its half of what EntityPool relies on: tasks are bound only to      *)
(* entities that are there, and go with them in one step.                  *)
Promise == INSTANCE EntityService WITH
  bound <- {mEntity[s] : s \in Slots} \ {Null}

KeepsEntities == Promise!Spec
=============================================================================
