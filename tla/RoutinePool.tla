----------------------------- MODULE RoutinePool -----------------------------
(***************************************************************************)
(* The pool of script routines (source/Routine.hpp, source/Routine.cpp):   *)
(* callbacks that the server frame runs after an interval, a number of     *)
(* times or forever.                                                       *)
(*                                                                         *)
(* Two static arrays hold the pool.  s_Instances[s] is the routine of slot *)
(* s, free when its mInst is null; s_Intervals[s] is the time left before  *)
(* the next run.  A script holds a routine by a Routine object, here a     *)
(* member of Routines, which remembers the slot it was given in m_Slot.    *)
(* Process scans the slots once per frame; a due slot calls into the       *)
(* script, and the script may create, terminate or reconfigure any routine *)
(* before the call returns, the one being run included.                    *)
(*                                                                         *)
(* Everything runs on the server's one thread.  What is left out: the      *)
(* values of mEnv, mFunc, mData and mTag, which steer nothing in the pool. *)
(***************************************************************************)
EXTENDS Integers

CONSTANTS
  Routines,     (* the Routine objects scripts may obtain                  *)
  Null,         (* the null script object                                  *)
  Unlimited,    (* no bound on the number of runs                          *)
  MaxRoutines,  (* SQMOD_MAX_ROUTINES: the number of slots                 *)
  Intervals,    (* the intervals a script asks for                         *)
  Iterations,   (* the iteration counts a script asks for                  *)
  Deltas        (* the milliseconds one frame may take                     *)

ASSUME RoutineAssumption ==
  /\ Null \notin Routines
  /\ Unlimited \notin Int
  /\ MaxRoutines \in Nat \ {0}
  /\ Intervals \subseteq Int
  /\ Iterations \subseteq Nat
  /\ Deltas \subseteq Nat

Slots == 0 .. MaxRoutines - 1

VARIABLES
  mInst,        (* per slot: the routine that occupies it, or Null         *)
  mIterations,  (* per slot: runs before self destruct, 0 for no limit     *)
  mInterval,    (* per slot: time between runs                             *)
  mSuspended,   (* per slot: whether calls are held back                   *)
  mArgv,        (* per slot: the routine whose arguments it stores, or Null*)
  s_Intervals,  (* per slot: time left before the next run                 *)
  m_Slot,       (* per routine: its slot, MaxRoutines for none             *)
  s_Last,       (* whether Process has taken its first time stamp          *)
  phase,        (* "idle" | "scan" (in Process) | "call" (in a callback)   *)
                (* | "down" (after Deinitialize)                           *)
  itr,          (* the slot Process has reached                            *)
  delta,        (* the time this frame's Process accounts for              *)
  running,      (* the routine whose callback was called, or Null          *)
  created,      (* history: the routines created so far                    *)
  ended,        (* history: the routines terminated so far                 *)
  left          (* history: the runs a routine is still allowed            *)

pool    == <<mInst, mIterations, mInterval, mSuspended, mArgv>>
scan    == <<phase, itr, delta, running>>
history == <<created, ended, left>>
vars    == <<pool, s_Intervals, m_Slot, s_Last, scan, history>>

-----------------------------------------------------------------------------
(* The pool before InitializeRoutines has zeroed the timers: statics.      *)
Init ==
  /\ mInst       = [s \in Slots |-> Null]
  /\ mIterations = [s \in Slots |-> 0]
  /\ mInterval   = [s \in Slots |-> 0]
  /\ mSuspended  = [s \in Slots |-> FALSE]
  /\ mArgv       = [s \in Slots |-> Null]
  /\ s_Intervals = [s \in Slots |-> 0]
  /\ m_Slot      = [r \in Routines |-> MaxRoutines]
  /\ s_Last  = FALSE
  /\ phase   = "idle"
  /\ itr     = 0
  /\ delta   = 0
  /\ running = Null
  /\ created = {}
  /\ ended   = {}
  /\ left    = [r \in Routines |-> Unlimited]

(* Script code runs in an event handler between frames, or in a callback.  *)
InScript == phase \in {"idle", "call"}

(* The bound a count of iterations stands for: 0 means no limit.           *)
Limit(n) == IF n = 0 THEN Unlimited ELSE n

(* Slips in Instance::Terminate that the runs have to notice: the arguments*)
(* are not cleared; the routine is not released.                           *)
TerminateKeepsArguments(s) ==
  /\ mInst'       = [mInst EXCEPT ![s] = Null]
  /\ mIterations' = [mIterations EXCEPT ![s] = 0]
  /\ mInterval'   = [mInterval EXCEPT ![s] = 0]
  /\ ended'       = ended \cup ({mInst[s]} \ {Null})
  /\ UNCHANGED <<mSuspended, mArgv>>

TerminateKeepsRoutine(s) ==
  /\ mIterations' = [mIterations EXCEPT ![s] = 0]
  /\ mArgv'       = [mArgv EXCEPT ![s] = Null]
  /\ ended'       = ended \cup ({mInst[s]} \ {Null})
  /\ UNCHANGED <<mInst, mInterval, mSuspended>>

(* Instance::Terminate: Release and Clear reset every member of slot s but *)
(* mSuspended, and leave s_Intervals[s] and the routine's m_Slot alone.    *)
TerminateSlot(s) ==
  /\ mInst'       = [mInst EXCEPT ![s] = Null]
  /\ mIterations' = [mIterations EXCEPT ![s] = 0]
  /\ mInterval'   = [mInterval EXCEPT ![s] = 0]
  /\ mArgv'       = [mArgv EXCEPT ![s] = Null]
  /\ ended'       = ended \cup ({mInst[s]} \ {Null})
  /\ UNCHANGED mSuspended

(* A slip in FindUnused: a slot with a stopped timer is taken for free.    *)
IsUnusedByTimer(s) ==
  /\ s_Intervals[s] = 0
  /\ \A t \in 0 .. s - 1 : s_Intervals[t] # 0

(* FindUnused: the first slot without a routine.                           *)
IsUnused(s) ==
  /\ mInst[s] = Null
  /\ \A t \in 0 .. s - 1 : mInst[t] # Null

-----------------------------------------------------------------------------
(* What a script does.                                                     *)

(* Routine::Create.  Without a free slot or with invalid parameters it     *)
(* throws and changes nothing.  Parameters after the fifth are stored in   *)
(* the slot; without any, mArgv keeps what the slot had.  Init sets neither*)
(* mSuspended nor the arguments: it assumes the slot was released.         *)
Create(r, intrv, n, withArgs) ==
  /\ InScript
  /\ r \notin created
  /\ \E s \in Slots :
       /\ IsUnused(s)
       /\ mInst'       = [mInst EXCEPT ![s] = r]
       /\ mIterations' = [mIterations EXCEPT ![s] = n]
       /\ mInterval'   = [mInterval EXCEPT ![s] = intrv]
       /\ mArgv'       = IF withArgs THEN [mArgv EXCEPT ![s] = r] ELSE mArgv
       /\ s_Intervals' = [s_Intervals EXCEPT ![s] = intrv]
       /\ m_Slot'      = [m_Slot EXCEPT ![r] = s]
  /\ created' = created \cup {r}
  /\ left'    = [left EXCEPT ![r] = Limit(n)]
  /\ UNCHANGED <<mSuspended, s_Last, scan, ended>>

(* GetValid only compares m_Slot with the capacity: the calls below reach  *)
(* whatever is in the slot by then.                                        *)
IsValid(r) == m_Slot[r] < MaxRoutines

(* Routine::Terminate.                                                     *)
Terminate(r) ==
  /\ InScript
  /\ IsValid(r)
  /\ TerminateSlot(m_Slot[r])
  /\ UNCHANGED <<s_Intervals, m_Slot, s_Last, scan, created, left>>

(* Routine::SetInterval: the next run is still due when it was.            *)
SetInterval(r, intrv) ==
  /\ InScript
  /\ IsValid(r)
  /\ mInterval' = [mInterval EXCEPT ![m_Slot[r]] = IF intrv < 0 THEN 0 ELSE intrv]
  /\ UNCHANGED <<mInst, mIterations, mSuspended, mArgv, s_Intervals, m_Slot,
                 s_Last, scan, history>>

(* Routine::SetIterations: a new bound for the routine in the slot.        *)
SetIterations(r, n) ==
  /\ InScript
  /\ IsValid(r)
  /\ mIterations' = [mIterations EXCEPT ![m_Slot[r]] = n]
  /\ left' = [q \in Routines |-> IF q = mInst[m_Slot[r]] THEN Limit(n) ELSE left[q]]
  /\ UNCHANGED <<mInst, mInterval, mSuspended, mArgv, s_Intervals, m_Slot,
                 s_Last, scan, created, ended>>

(* Routine::SetSuspended.                                                  *)
SetSuspended(r, toggle) ==
  /\ InScript
  /\ IsValid(r)
  /\ mSuspended' = [mSuspended EXCEPT ![m_Slot[r]] = toggle]
  /\ UNCHANGED <<mInst, mIterations, mInterval, mArgv, s_Intervals, m_Slot,
                 s_Last, scan, history>>

-----------------------------------------------------------------------------
(* Routine::Process, one slot per step.                                    *)

(* The first call only takes the time stamp.                               *)
ProcessFirst ==
  /\ phase = "idle"
  /\ ~ s_Last
  /\ s_Last' = TRUE
  /\ UNCHANGED <<pool, s_Intervals, m_Slot, scan, history>>

ProcessBegin(d) ==
  /\ phase = "idle"
  /\ s_Last
  /\ phase' = "scan"
  /\ itr'   = 0
  /\ delta' = d
  /\ UNCHANGED <<pool, s_Intervals, m_Slot, s_Last, running, history>>

(* A slot whose timer is zero is skipped.                                  *)
SkipSlot ==
  /\ phase = "scan"
  /\ itr \in Slots
  /\ s_Intervals[itr] = 0
  /\ itr' = itr + 1
  /\ UNCHANGED <<pool, s_Intervals, m_Slot, s_Last, phase, delta, running, history>>

(* A slot that is not due yet only loses the time that passed.             *)
TickSlot ==
  /\ phase = "scan"
  /\ itr \in Slots
  /\ s_Intervals[itr] # 0
  /\ s_Intervals[itr] - delta > 0
  /\ s_Intervals' = [s_Intervals EXCEPT ![itr] = @ - delta]
  /\ itr' = itr + 1
  /\ UNCHANGED <<pool, m_Slot, s_Last, phase, delta, running, history>>

IsDue(s) == s_Intervals[s] # 0 /\ s_Intervals[s] - delta <= 0

(* Execute on a slot whose routine was terminated: the timer stops.        *)
ExecuteUnused ==
  /\ phase = "scan"
  /\ itr \in Slots
  /\ IsDue(itr)
  /\ mInst[itr] = Null
  /\ s_Intervals' = [s_Intervals EXCEPT ![itr] = 0]
  /\ itr' = itr + 1
  /\ UNCHANGED <<pool, m_Slot, s_Last, phase, delta, running, history>>

(* Slips in Execute: the test for a limit is dropped, so that "no limit" is*)
(* decreased too; the count is tested before it is decreased.              *)
EndExecuteUnguarded(failed) ==
  LET last == mIterations[itr] = 1
  IN  /\ IF failed \/ last
           THEN TerminateSlot(itr)
           ELSE /\ mIterations' = [mIterations EXCEPT ![itr] = @ - 1]
                /\ UNCHANGED <<mInst, mInterval, mSuspended, mArgv, ended>>
      /\ s_Intervals' = [s_Intervals EXCEPT ![itr] = mInterval'[itr]]
      /\ itr' = itr + 1

EndExecuteLate(failed) ==
  /\ IF failed
       THEN TerminateSlot(itr)
       ELSE /\ mIterations' = [mIterations EXCEPT ![itr] = IF @ = 0 THEN 0 ELSE @ - 1]
            /\ UNCHANGED <<mInst, mInterval, mSuspended, mArgv, ended>>
  /\ s_Intervals' = [s_Intervals EXCEPT ![itr] = mInterval'[itr]]
  /\ itr' = itr + 1

(* The end of Execute, in the slot Process has reached: one iteration less,*)
(* the slot terminated with the last one or when the callback failed, and  *)
(* the timer set to whatever interval the slot then has.                   *)
EndExecute(failed) ==
  LET last == mIterations[itr] = 1
  IN  /\ IF failed \/ last
           THEN TerminateSlot(itr)
           ELSE /\ mIterations' = [mIterations EXCEPT ![itr] = IF @ = 0 THEN 0 ELSE @ - 1]
                /\ UNCHANGED <<mInst, mInterval, mSuspended, mArgv, ended>>
      /\ s_Intervals' = [s_Intervals EXCEPT ![itr] = mInterval'[itr]]
      /\ itr' = itr + 1

(* Execute on a suspended routine: no call, and yet an iteration less.     *)
ExecuteSuspended ==
  /\ phase = "scan"
  /\ itr \in Slots
  /\ IsDue(itr)
  /\ mInst[itr] # Null
  /\ mSuspended[itr]
  /\ EndExecute(FALSE)
  /\ UNCHANGED <<m_Slot, s_Last, phase, delta, running, created, left>>

(* Execute up to sq_call: from here to CallReturn the script runs.         *)
CallBegin ==
  /\ phase = "scan"
  /\ itr \in Slots
  /\ IsDue(itr)
  /\ mInst[itr] # Null
  /\ ~ mSuspended[itr]
  /\ phase' = "call"
  /\ running' = mInst[itr]
  /\ s_Intervals' = [s_Intervals EXCEPT ![itr] = @ - delta]
  /\ left' = [left EXCEPT ![mInst[itr]] = IF @ = Unlimited THEN Unlimited ELSE @ - 1]
  /\ UNCHANGED <<pool, m_Slot, s_Last, itr, delta, created, ended>>

(* sq_call returns, failed or not, to an Execute that knows only its slot. *)
CallReturn(failed) ==
  /\ phase = "call"
  /\ phase' = "scan"
  /\ running' = Null
  /\ EndExecute(failed)
  /\ UNCHANGED <<m_Slot, s_Last, delta, created, left>>

(* A slip in Process: the loop stops before the last slot.                 *)
ProcessEndEarly ==
  /\ phase = "scan"
  /\ itr = MaxRoutines - 1
  /\ phase' = "idle"
  /\ itr'   = 0
  /\ delta' = 0
  /\ UNCHANGED <<pool, s_Intervals, m_Slot, s_Last, running, history>>

ProcessEnd ==
  /\ phase = "scan"
  /\ itr = MaxRoutines
  /\ phase' = "idle"
  /\ itr'   = 0
  /\ delta' = 0
  /\ UNCHANGED <<pool, s_Intervals, m_Slot, s_Last, running, history>>

-----------------------------------------------------------------------------
(* Reload: Core::Terminate calls Deinitialize and closes the machine, which*)
(* destroys every Routine object; Core::Initialize calls Initialize.       *)

Deinitialize ==
  /\ phase = "idle"
  /\ phase'       = "down"
  /\ mInst'       = [s \in Slots |-> Null]
  /\ mIterations' = [s \in Slots |-> 0]
  /\ mInterval'   = [s \in Slots |-> 0]
  /\ mArgv'       = [s \in Slots |-> Null]
  /\ m_Slot'      = [r \in Routines |-> MaxRoutines]
  /\ created'     = {}
  /\ ended'       = {}
  /\ left'        = [r \in Routines |-> Unlimited]
  /\ UNCHANGED <<mSuspended, s_Intervals, s_Last, itr, delta, running>>

Initialize ==
  /\ phase = "down"
  /\ phase' = "idle"
  /\ s_Intervals' = [s \in Slots |-> 0]
  /\ UNCHANGED <<pool, m_Slot, s_Last, itr, delta, running, history>>

-----------------------------------------------------------------------------
Script ==
  \/ \E r \in Routines, intrv \in Intervals, n \in Iterations, a \in BOOLEAN :
       Create(r, intrv, n, a)
  \/ \E r \in Routines : Terminate(r)
  \/ \E r \in Routines, intrv \in Intervals : SetInterval(r, intrv)
  \/ \E r \in Routines, n \in Iterations : SetIterations(r, n)
  \/ \E r \in Routines, toggle \in BOOLEAN : SetSuspended(r, toggle)

(* The rest of a frame once it has begun, callbacks returning included.    *)
Process ==
  \/ SkipSlot
  \/ TickSlot
  \/ ExecuteUnused
  \/ ExecuteSuspended
  \/ CallBegin
  \/ \E failed \in BOOLEAN : CallReturn(failed)
  \/ ProcessEnd

Next ==
  \/ Script
  \/ ProcessFirst
  \/ \E d \in Deltas : ProcessBegin(d)
  \/ Process
  \/ Deinitialize
  \/ Initialize

Spec == Init /\ [][Next]_vars

(* The server calls OnServerFrame for ever, a frame ends (callbacks return)*)
(* and infinitely many frames take at least a millisecond.  A reload that  *)
(* has begun is completed.                                                 *)
Fairness ==
  /\ WF_vars(ProcessFirst)
  /\ WF_vars(Process)
  /\ SF_vars(\E d \in Deltas \ {0} : ProcessBegin(d))
  /\ WF_vars(Initialize)

FairSpec == Spec /\ Fairness

-----------------------------------------------------------------------------
TypeOK ==
  /\ mInst \in [Slots -> Routines \cup {Null}]
  /\ mIterations \in [Slots -> Nat]
  /\ mInterval \in [Slots -> Int]
  /\ mSuspended \in [Slots -> BOOLEAN]
  /\ mArgv \in [Slots -> Routines \cup {Null}]
  /\ s_Intervals \in [Slots -> Int]
  /\ m_Slot \in [Routines -> 0 .. MaxRoutines]
  /\ s_Last \in BOOLEAN
  /\ phase \in {"idle", "scan", "call", "down"}
  /\ itr \in 0 .. MaxRoutines
  /\ delta \in Nat
  /\ running \in Routines \cup {Null}
  /\ created \subseteq Routines
  /\ ended \subseteq created
  /\ left \in [Routines -> Int \cup {Unlimited}]

(* A routine that was created and not terminated is in the slot its       *)
(* Routine object names, and no other routine is in any slot: Create never *)
(* overwrites a living routine, no two slots run the same one, and none is *)
(* run that its script can't reach.                                        *)
OwnSlot ==
  /\ \A s \in Slots : mInst[s] # Null => m_Slot[mInst[s]] = s
  /\ \A r \in Routines :
       r \in created \ ended <=> m_Slot[r] \in Slots /\ mInst[m_Slot[r]] = r

(* A routine is called with its own arguments or with none, never with     *)
(* those of the routine that had the slot before: Create does not clear    *)
(* them, Terminate has to.                                                 *)
OwnArguments == \A s \in Slots : mInst[s] # Null => mArgv[s] \in {Null, mInst[s]}

(* mIterations, "number of iterations before self destruct": a routine     *)
(* bounded to n runs is never called an (n+1)-th time, whatever callbacks  *)
(* do to the pool; in particular its count never reaches the 0 that means  *)
(* no limit.                                                               *)
NeverOverruns == \A r \in Routines : left[r] # Unlimited => left[r] >= 0

(* The invariant the proofs are by induction on.  The parts not named above*)
(* are what the code relies on without saying so: a free slot stores no    *)
(* arguments; a Routine object gets its slot when it is created; a slot's  *)
(* count is never more than the runs its routine still has, but for the run*)
(* that has begun and is not counted yet; and a callback runs in the slot  *)
(* Process has reached.                                                    *)
UnusedHasNoArguments == \A s \in Slots : mInst[s] = Null => mArgv[s] = Null

SlotGivenOnCreate ==
  \A r \in Routines : r \in created <=> m_Slot[r] \in Slots

CountWithinLimit ==
  \A s \in Slots :
    LET r == mInst[s]
    IN  r # Null =>
          /\ left[r] = Unlimited <=> mIterations[s] = 0
          /\ left[r] # Unlimited =>
               mIterations[s] <= left[r] + (IF running = r THEN 1 ELSE 0)

CallInSlot ==
  /\ phase = "call" <=> running # Null
  /\ phase = "call" => itr \in Slots /\ m_Slot[running] = itr

IInv ==
  /\ TypeOK
  /\ OwnSlot
  /\ OwnArguments
  /\ NeverOverruns
  /\ UnusedHasNoArguments
  /\ SlotGivenOnCreate
  /\ CountWithinLimit
  /\ CallInSlot

(* The pool keeps the promise RoutineService states: a terminated routine  *)
(* is never called again, though its Routine object still names a slot and *)
(* the slot may have a new routine; a routine starts only once; a call uses*)
(* up one of the iterations its own script gave it.                        *)
Service == INSTANCE RoutineService WITH
  Quotas  <- {Limit(n) : n \in Iterations},
  started <- created,
  live    <- {mInst[s] : s \in Slots} \ {Null},
  quota   <- left

KeepsService == Service!Spec

(* A routine in place with a running timer is called again, unless it is   *)
(* terminated or suspended first: SetInterval can't push it back, and no   *)
(* slot is left out of the scan.  The exception is a routine created in the*)
(* slot that is executing: EndExecute still overwrites its timer, with 0   *)
(* when its interval was set to 0 in the same callback.                    *)
Armed(r) == /\ m_Slot[r] \in Slots
            /\ mInst[m_Slot[r]] = r
            /\ s_Intervals[m_Slot[r]] > 0
            /\ ~ (phase = "call" /\ m_Slot[r] = itr)

ArmedRuns ==
  \A r \in Routines :
    Armed(r) ~> \/ running = r
                \/ r \in ended \/ r \notin created
                \/ m_Slot[r] \in Slots /\ mSuspended[m_Slot[r]]

(* "Destroy ourself on error", "this routine reached the end of it's life" *)
(* (Routine.hpp:148, 154): what Execute terminates when a callback returns *)
(* is the routine it called.  The code terminates the slot.                *)
DestroysItself ==
  [][phase = "call" /\ phase' = "scan" => ended' \ ended \subseteq {running}]_vars
=============================================================================
