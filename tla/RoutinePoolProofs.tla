-------------------------- MODULE RoutinePoolProofs --------------------------
(***************************************************************************)
(* Proofs about RoutinePool, for any number of slots and routines and any  *)
(* intervals, iteration counts and frame times.                            *)
(***************************************************************************)
EXTENDS RoutinePool, TLAPS

(* The empty pool satisfies the inductive invariant.                       *)
LEMMA InitInv == Init => IInv
<1> SUFFICES ASSUME Init PROVE IInv
  OBVIOUS
<1> USE RoutineAssumption DEF Init, Slots
<1>1. TypeOK
  <2>1. mSuspended \in [Slots -> BOOLEAN]
    BY Zenon
  <2>2. s_Last \in BOOLEAN
    BY Zenon
  <2>3. left \in [Routines -> Int \cup {Unlimited}]
    BY Zenon
  <2>4. QED
    BY <2>1, <2>2, <2>3 DEF TypeOK
<1>2. OwnSlot
  BY DEF OwnSlot
<1>3. OwnArguments /\ UnusedHasNoArguments
  BY DEF OwnArguments, UnusedHasNoArguments
<1>4. NeverOverruns
  BY DEF NeverOverruns
<1>5. SlotGivenOnCreate
  <2>1. MaxRoutines \notin Slots
    OBVIOUS
  <2>2. \A r \in Routines : m_Slot[r] = MaxRoutines /\ r \notin created
    OBVIOUS
  <2>3. QED
    BY <2>1, <2>2 DEF SlotGivenOnCreate
<1>6. CountWithinLimit
  BY DEF CountWithinLimit
<1>7. CallInSlot
  BY DEF CallInSlot
<1>8. QED
  BY <1>1, <1>2, <1>3, <1>4, <1>5, <1>6, <1>7 DEF IInv

(* Terminating slot s: the part of the invariant that is about slots and   *)
(* Routine objects survives.                                               *)
LEMMA TerminateSlotInv ==
  ASSUME IInv, NEW s \in Slots, TerminateSlot(s),
         UNCHANGED <<m_Slot, created, left>>
  PROVE  /\ mInst' \in [Slots -> Routines \cup {Null}]
         /\ mIterations' \in [Slots -> Nat]
         /\ mInterval' \in [Slots -> Int]
         /\ mSuspended' \in [Slots -> BOOLEAN]
         /\ mArgv' \in [Slots -> Routines \cup {Null}]
         /\ ended' \subseteq created'
         /\ OwnSlot'
         /\ OwnArguments'
         /\ NeverOverruns'
         /\ UnusedHasNoArguments'
         /\ SlotGivenOnCreate'
<1> USE RoutineAssumption DEF IInv, TypeOK, TerminateSlot
<1>1. /\ mInst' \in [Slots -> Routines \cup {Null}]
      /\ mIterations' \in [Slots -> Nat]
      /\ mInterval' \in [Slots -> Int]
      /\ mSuspended' \in [Slots -> BOOLEAN]
      /\ mArgv' \in [Slots -> Routines \cup {Null}]
  OBVIOUS
<1>2. mInst[s] # Null => mInst[s] \in created
  BY DEF OwnSlot, SlotGivenOnCreate
<1>3. ended' \subseteq created'
  BY <1>2
<1>4. OwnSlot'
  <2>1. ASSUME NEW t \in Slots, mInst'[t] # Null
        PROVE  m_Slot'[mInst'[t]] = t
    BY <2>1 DEF OwnSlot
  <2>2. ASSUME NEW r \in Routines
        PROVE  r \in created' \ ended' <=> m_Slot'[r] \in Slots /\ mInst'[m_Slot'[r]] = r
    BY DEF OwnSlot
  <2>3. QED
    BY <2>1, <2>2 DEF OwnSlot
<1>5. OwnArguments' /\ UnusedHasNoArguments'
  BY DEF OwnArguments, UnusedHasNoArguments
<1>6. NeverOverruns' /\ SlotGivenOnCreate'
  BY DEF NeverOverruns, SlotGivenOnCreate
<1>7. QED
  BY <1>1, <1>3, <1>4, <1>5, <1>6

(* SqRoutine: a new routine enters a free slot and no other.               *)
LEMMA CreateInv ==
  ASSUME IInv, NEW r \in Routines, NEW intrv \in Intervals, NEW n \in Iterations,
         NEW a \in BOOLEAN, Create(r, intrv, n, a)
  PROVE  IInv'
<1> USE RoutineAssumption DEF IInv, TypeOK, Limit
<1> PICK s \in Slots :
      /\ IsUnused(s)
      /\ mInst'       = [mInst EXCEPT ![s] = r]
      /\ mIterations' = [mIterations EXCEPT ![s] = n]
      /\ mInterval'   = [mInterval EXCEPT ![s] = intrv]
      /\ mArgv'       = IF a THEN [mArgv EXCEPT ![s] = r] ELSE mArgv
      /\ s_Intervals' = [s_Intervals EXCEPT ![s] = intrv]
      /\ m_Slot'      = [m_Slot EXCEPT ![r] = s]
  BY DEF Create
<1>1. /\ r \notin created
      /\ created' = created \cup {r}
      /\ left'    = [left EXCEPT ![r] = Limit(n)]
      /\ UNCHANGED <<mSuspended, s_Last, scan, ended>>
      /\ mInst[s] = Null
  BY DEF Create, IsUnused
<1>2. r \notin ended /\ m_Slot[r] \notin Slots
  BY <1>1 DEF SlotGivenOnCreate
<1>3. \A t \in Slots : mInst[t] # r
  BY <1>2 DEF OwnSlot
<1>4. TypeOK'
  BY <1>1 DEF scan, Slots
<1>5. OwnSlot'
  <2>1. ASSUME NEW t \in Slots, mInst'[t] # Null
        PROVE  m_Slot'[mInst'[t]] = t
    BY <2>1, <1>1, <1>3 DEF OwnSlot
  <2>2. ASSUME NEW q \in Routines
        PROVE  q \in created' \ ended' <=> m_Slot'[q] \in Slots /\ mInst'[m_Slot'[q]] = q
    BY <1>1, <1>2, <1>3 DEF OwnSlot
  <2>3. QED
    BY <2>1, <2>2 DEF OwnSlot
<1>6. OwnArguments' /\ UnusedHasNoArguments'
  BY <1>1 DEF OwnArguments, UnusedHasNoArguments
<1>7. NeverOverruns'
  BY <1>1 DEF NeverOverruns
<1>8. SlotGivenOnCreate'
  BY <1>1 DEF SlotGivenOnCreate
<1>9. CountWithinLimit'
  BY <1>1, <1>3 DEF CountWithinLimit, scan
<1>10. CallInSlot'
  <2>1. running # r \/ phase # "call"
    BY <1>2 DEF CallInSlot
  <2>2. phase = "call" => running \in Routines /\ m_Slot'[running] = m_Slot[running]
    BY <2>1 DEF CallInSlot
  <2>3. QED
    BY <1>1, <2>2 DEF CallInSlot, scan
<1>11. QED
  BY <1>4, <1>5, <1>6, <1>7, <1>8, <1>9, <1>10

(* A script ends a routine through its handle (Routine::Terminate).        *)
LEMMA TerminateInv ==
  ASSUME IInv, NEW r \in Routines, Terminate(r)
  PROVE  IInv'
<1> DEFINE s == m_Slot[r]
<1>1. /\ s \in Slots
      /\ TerminateSlot(s)
      /\ UNCHANGED <<s_Intervals, m_Slot, s_Last, scan, created, left>>
  BY RoutineAssumption DEF IInv, TypeOK, Terminate, IsValid, Slots
<1> HIDE DEF s
<1>2. /\ mInst' \in [Slots -> Routines \cup {Null}]
      /\ mIterations' \in [Slots -> Nat]
      /\ mInterval' \in [Slots -> Int]
      /\ mSuspended' \in [Slots -> BOOLEAN]
      /\ mArgv' \in [Slots -> Routines \cup {Null}]
      /\ ended' \subseteq created'
      /\ OwnSlot'
      /\ OwnArguments'
      /\ NeverOverruns'
      /\ UnusedHasNoArguments'
      /\ SlotGivenOnCreate'
  BY <1>1, TerminateSlotInv
<1>3. TypeOK'
  BY <1>1, <1>2 DEF IInv, TypeOK, scan
<1>4. CountWithinLimit'
  BY <1>1, RoutineAssumption DEF IInv, TypeOK, CountWithinLimit, TerminateSlot, scan
<1>5. CallInSlot'
  BY <1>1 DEF IInv, CallInSlot, scan
<1>6. QED
  BY <1>2, <1>3, <1>4, <1>5 DEF IInv

(* A script changes an interval: who owns which slot is untouched.         *)
LEMMA SetIntervalInv ==
  ASSUME IInv, NEW r \in Routines, NEW intrv \in Intervals, SetInterval(r, intrv)
  PROVE  IInv'
<1> USE RoutineAssumption DEF SetInterval, scan, history
<1>1. TypeOK'
  <2>1. intrv \in Int /\ (IF intrv < 0 THEN 0 ELSE intrv) \in Int
    OBVIOUS
  <2>2. mInterval' \in [Slots -> Int]
    BY <2>1 DEF IInv, TypeOK
  <2>3. QED
    BY <2>2 DEF IInv, TypeOK
<1>2. OwnSlot' /\ SlotGivenOnCreate'
  BY DEF IInv, OwnSlot, SlotGivenOnCreate
<1>3. OwnArguments' /\ UnusedHasNoArguments'
  BY DEF IInv, OwnArguments, UnusedHasNoArguments
<1>4. NeverOverruns' /\ CountWithinLimit' /\ CallInSlot'
  BY DEF IInv, NeverOverruns, CountWithinLimit, CallInSlot
<1>5. QED
  BY <1>1, <1>2, <1>3, <1>4 DEF IInv

(* A script changes how many iterations are left of a routine.             *)
LEMMA SetIterationsInv ==
  ASSUME IInv, NEW r \in Routines, NEW n \in Iterations, SetIterations(r, n)
  PROVE  IInv'
<1> USE RoutineAssumption DEF SetIterations, IsValid, Limit, scan
<1>1. TypeOK'
  <2>1. mIterations' \in [Slots -> Nat]
    BY DEF IInv, TypeOK
  <2>2. left' \in [Routines -> Int \cup {Unlimited}]
    BY DEF IInv, TypeOK
  <2>3. QED
    BY <2>1, <2>2 DEF IInv, TypeOK
<1>2. OwnSlot' /\ SlotGivenOnCreate'
  BY DEF IInv, OwnSlot, SlotGivenOnCreate
<1>3. OwnArguments' /\ UnusedHasNoArguments'
  BY DEF IInv, OwnArguments, UnusedHasNoArguments
<1>4. NeverOverruns'
  BY DEF IInv, TypeOK, NeverOverruns
<1>5. CountWithinLimit'
  <2>1. m_Slot[r] \in Slots
    BY DEF IInv, TypeOK, Slots
  <2>2. \A t \in Slots : t # m_Slot[r] /\ mInst[t] # Null => mInst[t] # mInst[m_Slot[r]]
    BY <2>1 DEF IInv, OwnSlot
  <2>3. QED
    BY <2>1, <2>2 DEF IInv, TypeOK, CountWithinLimit
<1>6. CallInSlot'
  BY DEF IInv, CallInSlot
<1>7. QED
  BY <1>1, <1>2, <1>3, <1>4, <1>5, <1>6 DEF IInv

(* A script suspends or resumes a routine.                                 *)
LEMMA SetSuspendedInv ==
  ASSUME IInv, NEW r \in Routines, NEW toggle \in BOOLEAN, SetSuspended(r, toggle)
  PROVE  IInv'
<1> USE RoutineAssumption DEF SetSuspended, scan, history
<1>1. TypeOK'
  <2>1. mSuspended' \in [Slots -> BOOLEAN]
    BY DEF IInv, TypeOK
  <2>2. QED
    BY <2>1 DEF IInv, TypeOK
<1>2. OwnSlot' /\ SlotGivenOnCreate'
  BY DEF IInv, OwnSlot, SlotGivenOnCreate
<1>3. OwnArguments' /\ UnusedHasNoArguments'
  BY DEF IInv, OwnArguments, UnusedHasNoArguments
<1>4. NeverOverruns' /\ CountWithinLimit' /\ CallInSlot'
  BY DEF IInv, NeverOverruns, CountWithinLimit, CallInSlot
<1>5. QED
  BY <1>1, <1>2, <1>3, <1>4 DEF IInv

(* The scan steps that call nothing only move on or let time pass.         *)
LEMMA ScanInv ==
  ASSUME IInv,
         \/ ProcessFirst
         \/ \E d \in Deltas : ProcessBegin(d)
         \/ SkipSlot
         \/ TickSlot
         \/ ExecuteUnused
         \/ ProcessEnd
         \/ Initialize
  PROVE  IInv'
<1> USE RoutineAssumption DEF ProcessFirst, ProcessBegin, SkipSlot, TickSlot,
        ExecuteUnused, ProcessEnd, Initialize
<1>1. /\ UNCHANGED <<pool, m_Slot, running, history>>
      /\ phase' \in {"idle", "scan"} /\ phase # "call"
      /\ s_Last' \in BOOLEAN
  BY Zenon DEF IInv, TypeOK, scan
<1>2. /\ s_Intervals' \in [Slots -> Int]
      /\ delta' \in Nat
      /\ itr' \in 0 .. MaxRoutines
  <2>1. CASE ProcessFirst \/ ProcessEnd \/ Initialize
    BY <2>1 DEF IInv, TypeOK, scan, Slots
  <2>2. CASE \E d \in Deltas : ProcessBegin(d)
    BY <2>2 DEF IInv, TypeOK
  <2>3. CASE SkipSlot
    BY <2>3 DEF IInv, TypeOK, Slots
  <2>4. CASE TickSlot
    <3>1. s_Intervals[itr] - delta \in Int
      BY <2>4 DEF IInv, TypeOK
    <3>2. QED
      BY <2>4, <3>1 DEF IInv, TypeOK, Slots
  <2>5. CASE ExecuteUnused
    BY <2>5 DEF IInv, TypeOK, Slots
  <2>6. QED
    BY <2>1, <2>2, <2>3, <2>4, <2>5
<1>3. TypeOK'
  BY <1>1, <1>2 DEF IInv, TypeOK, pool, history
<1>4. OwnSlot' /\ SlotGivenOnCreate'
  BY <1>1 DEF IInv, OwnSlot, SlotGivenOnCreate, pool, history
<1>5. OwnArguments' /\ UnusedHasNoArguments'
  BY <1>1 DEF IInv, OwnArguments, UnusedHasNoArguments, pool, history
<1>6. NeverOverruns' /\ CountWithinLimit' /\ CallInSlot'
  BY <1>1 DEF IInv, NeverOverruns, CountWithinLimit, CallInSlot, pool, history
<1>7. QED
  BY <1>3, <1>4, <1>5, <1>6 DEF IInv

(* Execute starts a call: the count of the slot goes down before the call. *)
LEMMA CallBeginInv ==
  ASSUME IInv, CallBegin
  PROVE  IInv'
<1> USE RoutineAssumption DEF CallBegin
<1>1. /\ mInst[itr] \in Routines
      /\ left[mInst[itr]] # Unlimited =>
           /\ left[mInst[itr]] >= mIterations[itr]
           /\ mIterations[itr] >= 1
  BY DEF IInv, TypeOK, CountWithinLimit, CallInSlot
<1>2. TypeOK'
  <2>1. s_Intervals' \in [Slots -> Int]
    BY DEF IInv, TypeOK
  <2>2. left' \in [Routines -> Int \cup {Unlimited}]
    BY <1>1 DEF IInv, TypeOK
  <2>3. QED
    BY <1>1, <2>1, <2>2 DEF IInv, TypeOK, pool
<1>3. OwnSlot' /\ SlotGivenOnCreate'
  BY DEF IInv, OwnSlot, SlotGivenOnCreate, pool
<1>4. OwnArguments' /\ UnusedHasNoArguments'
  BY DEF IInv, OwnArguments, UnusedHasNoArguments, pool
<1>5. NeverOverruns'
  BY <1>1 DEF IInv, TypeOK, NeverOverruns
<1>6. CountWithinLimit'
  <2> SUFFICES ASSUME NEW t \in Slots, mInst[t] # Null
               PROVE  /\ left'[mInst[t]] = Unlimited <=> mIterations[t] = 0
                      /\ left'[mInst[t]] # Unlimited =>
                           mIterations[t] <= left'[mInst[t]] +
                             (IF running' = mInst[t] THEN 1 ELSE 0)
    BY DEF CountWithinLimit, pool
  <2>1. /\ left[mInst[t]] = Unlimited <=> mIterations[t] = 0
        /\ left[mInst[t]] # Unlimited => mIterations[t] <= left[mInst[t]]
    BY DEF IInv, TypeOK, CountWithinLimit, CallInSlot
  <2>2. mInst[t] \in Routines /\ left[mInst[t]] \in Int \cup {Unlimited}
    BY DEF IInv, TypeOK
  <2>3. CASE mInst[t] = mInst[itr]
    <3>1. left'[mInst[t]] = IF left[mInst[t]] = Unlimited THEN Unlimited ELSE left[mInst[t]] - 1
      BY <1>1, <2>2, <2>3 DEF IInv, TypeOK
    <3>2. running' = mInst[t]
      BY <2>3
    <3>3. left[mInst[t]] \in Int => left[mInst[t]] - 1 # Unlimited
      OBVIOUS
    <3>4. mIterations[t] \in Int
      BY DEF IInv, TypeOK
    <3>5. QED
      BY <2>1, <2>2, <3>1, <3>2, <3>3, <3>4
  <2>4. CASE mInst[t] # mInst[itr]
    BY <2>1, <2>2, <2>4 DEF IInv, TypeOK
  <2>5. QED
    BY <2>3, <2>4
<1>7. CallInSlot'
  BY <1>1 DEF IInv, OwnSlot, CallInSlot
<1>8. QED
  BY <1>2, <1>3, <1>4, <1>5, <1>6, <1>7 DEF IInv

(* Execute ends, called back from a script or not.                         *)
LEMMA EndExecuteInv ==
  ASSUME IInv, NEW failed \in BOOLEAN, EndExecute(failed), itr \in Slots,
         UNCHANGED <<m_Slot, s_Last, delta, created, left>>,
         phase' = "scan", running' = Null,
         running # Null \/ mInst[itr] # Null
  PROVE  IInv'
<1> USE RoutineAssumption
<1>1. /\ mInst' \in [Slots -> Routines \cup {Null}]
      /\ mIterations' \in [Slots -> Nat]
      /\ mInterval' \in [Slots -> Int]
      /\ mSuspended' \in [Slots -> BOOLEAN]
      /\ mArgv' \in [Slots -> Routines \cup {Null}]
      /\ ended' \subseteq created'
      /\ OwnSlot' /\ OwnArguments' /\ NeverOverruns'
      /\ UnusedHasNoArguments' /\ SlotGivenOnCreate'
  <2>1. CASE TerminateSlot(itr)
    BY <2>1, TerminateSlotInv
  <2>2. CASE /\ mIterations' = [mIterations EXCEPT ![itr] = IF @ = 0 THEN 0 ELSE @ - 1]
             /\ UNCHANGED <<mInst, mInterval, mSuspended, mArgv, ended>>
    <3>1. mIterations' \in [Slots -> Nat]
      BY <2>2 DEF IInv, TypeOK
    <3>2. OwnSlot' /\ OwnArguments'
      BY <2>2 DEF IInv, OwnSlot, OwnArguments
    <3>3. NeverOverruns' /\ UnusedHasNoArguments' /\ SlotGivenOnCreate'
      BY <2>2 DEF IInv, NeverOverruns, UnusedHasNoArguments, SlotGivenOnCreate
    <3>4. QED
      BY <2>2, <3>1, <3>2, <3>3 DEF IInv, TypeOK
  <2>3. QED
    BY <2>1, <2>2 DEF EndExecute
<1>2. TypeOK'
  <2>1. s_Intervals' \in [Slots -> Int] /\ itr' \in 0 .. MaxRoutines
    BY <1>1 DEF IInv, TypeOK, EndExecute, Slots
  <2>2. QED
    BY <1>1, <2>1 DEF IInv, TypeOK
<1>3. CountWithinLimit'
  <2> SUFFICES ASSUME NEW t \in Slots, mInst'[t] # Null
               PROVE  /\ left[mInst'[t]] = Unlimited <=> mIterations'[t] = 0
                      /\ left[mInst'[t]] # Unlimited => mIterations'[t] <= left[mInst'[t]]
    BY <1>1 DEF IInv, TypeOK, CountWithinLimit
  <2>1. mInst'[t] = mInst[t]
    BY DEF EndExecute, TerminateSlot, IInv, TypeOK
  <2>2. /\ left[mInst[t]] = Unlimited <=> mIterations[t] = 0
        /\ left[mInst[t]] # Unlimited =>
             mIterations[t] <= left[mInst[t]] + (IF running = mInst[t] THEN 1 ELSE 0)
    BY <2>1 DEF IInv, CountWithinLimit
  <2>3. mInst[t] \in Routines /\ left[mInst[t]] \in Int \cup {Unlimited}
        /\ mIterations[t] \in Nat
    BY <2>1 DEF IInv, TypeOK
  <2>4. CASE t = itr
    <3>1. mIterations'[t] = (IF mIterations[t] = 0 THEN 0 ELSE mIterations[t] - 1)
          /\ mIterations[t] # 1
      BY <2>4 DEF EndExecute, TerminateSlot, IInv, TypeOK
    <3>2. QED
      BY <2>1, <2>2, <2>3, <3>1
  <2>5. CASE t # itr
    <3>1. mIterations'[t] = mIterations[t]
      BY <2>5 DEF EndExecute, TerminateSlot, IInv, TypeOK
    <3>2. running # mInst[t]
      BY <2>1, <2>3, <2>5 DEF IInv, OwnSlot, CallInSlot
    <3>3. QED
      BY <2>1, <2>2, <2>3, <3>1, <3>2
  <2>6. QED
    BY <2>4, <2>5
<1>4. CallInSlot'
  BY DEF CallInSlot
<1>5. QED
  BY <1>1, <1>2, <1>3, <1>4 DEF IInv

(* Deinitialize releases every slot at once.                               *)
LEMMA DeinitializeInv ==
  ASSUME IInv, Deinitialize
  PROVE  IInv'
<1> USE RoutineAssumption DEF Deinitialize
<1>1. TypeOK'
  <2>1. left' \in [Routines -> Int \cup {Unlimited}] /\ m_Slot' \in [Routines -> 0 .. MaxRoutines]
    OBVIOUS
  <2>2. QED
    BY <2>1 DEF IInv, TypeOK
<1>2. MaxRoutines \notin Slots
  BY DEF Slots
<1>3. OwnSlot' /\ SlotGivenOnCreate'
  BY <1>2 DEF OwnSlot, SlotGivenOnCreate
<1>4. OwnArguments' /\ UnusedHasNoArguments' /\ NeverOverruns' /\ CountWithinLimit'
  BY DEF OwnArguments, UnusedHasNoArguments, NeverOverruns, CountWithinLimit
<1>5. CallInSlot'
  BY DEF IInv, CallInSlot
<1>6. QED
  BY <1>1, <1>3, <1>4, <1>5 DEF IInv

(* Every step of the pool preserves the inductive invariant.               *)
LEMMA NextInv == IInv /\ [Next]_vars => IInv'
<1> SUFFICES ASSUME IInv, [Next]_vars PROVE IInv'
  OBVIOUS
<1>1. CASE Script
  BY <1>1, CreateInv, TerminateInv, SetIntervalInv, SetIterationsInv, SetSuspendedInv DEF Script
<1>2. CASE \/ ProcessFirst
           \/ \E d \in Deltas : ProcessBegin(d)
           \/ SkipSlot \/ TickSlot \/ ExecuteUnused \/ ProcessEnd
           \/ Initialize
  BY <1>2, ScanInv
<1>3. CASE ExecuteSuspended
  <2>1. UNCHANGED running /\ phase = "scan" /\ phase' = "scan" /\ itr \in Slots
        /\ mInst[itr] # Null /\ EndExecute(FALSE)
        /\ UNCHANGED <<m_Slot, s_Last, delta, created, left>>
    BY <1>3 DEF ExecuteSuspended
  <2>2. running' = Null
    BY <2>1 DEF IInv, CallInSlot
  <2>3. QED
    BY <2>1, <2>2, EndExecuteInv
<1>4. CASE CallBegin
  BY <1>4, CallBeginInv
<1>5. ASSUME NEW failed \in BOOLEAN, CallReturn(failed)
      PROVE  IInv'
  <2>1. /\ EndExecute(failed) /\ phase' = "scan" /\ running' = Null
        /\ UNCHANGED <<m_Slot, s_Last, delta, created, left>>
    BY <1>5 DEF CallReturn
  <2>2. itr \in Slots /\ running # Null
    BY <1>5 DEF CallReturn, IInv, CallInSlot
  <2>3. QED
    BY <2>1, <2>2, EndExecuteInv
<1>6. CASE Deinitialize
  BY <1>6, DeinitializeInv
<1>7. CASE UNCHANGED vars
  <2> USE <1>7 DEF vars, pool, scan, history
  <2>1. TypeOK'
    BY DEF IInv, TypeOK
  <2>2. OwnSlot' /\ SlotGivenOnCreate' /\ OwnArguments' /\ UnusedHasNoArguments'
    BY DEF IInv, OwnSlot, SlotGivenOnCreate, OwnArguments, UnusedHasNoArguments
  <2>3. NeverOverruns' /\ CountWithinLimit' /\ CallInSlot'
    BY DEF IInv, NeverOverruns, CountWithinLimit, CallInSlot
  <2>4. QED
    BY <2>1, <2>2, <2>3 DEF IInv
<1>8. QED
  BY <1>1, <1>2, <1>3, <1>4, <1>5, <1>6, <1>7 DEF Next, Process

(* The inductive invariant holds in every reachable state of the pool.     *)
THEOREM Invariance == Spec => []IInv
BY InitInv, NextInv, PTL DEF Spec

(* Every variable keeps the type TypeOK gives it; in particular the count  *)
(* of iterations never passes below zero, where it would wrap around.      *)
THEOREM TypeCorrect == Spec => []TypeOK
BY Invariance, PTL DEF IInv

(* A living routine is in the slot its Routine object names, and no other  *)
(* routine is in any slot, whatever scripts do to the pool and when.       *)
THEOREM SlotOwnership == Spec => []OwnSlot
BY Invariance, PTL DEF IInv

(* No routine is called with the arguments of another one.                 *)
THEOREM ArgumentOwnership == Spec => []OwnArguments
BY Invariance, PTL DEF IInv

(* A routine bounded to n iterations is called at most n times.            *)
THEOREM CallBound == Spec => []NeverOverruns
BY Invariance, PTL DEF IInv

-----------------------------------------------------------------------------
(* RoutinePool implements RoutineService.                                  *)

Live == {mInst[s] : s \in Slots} \ {Null}

(* The empty pool serves nobody.                                           *)
LEMMA InitService == Init => Service!Init
BY RoutineAssumption DEF Init, Service!Init, Slots

(* The start of a call is one call of the service, within the limit.       *)
LEMMA CallService ==
  ASSUME IInv, CallBegin
  PROVE  Service!Call(mInst[itr])
<1> USE RoutineAssumption DEF CallBegin
<1>1. mInst[itr] \in Live
  BY DEF Live
<1>2. left[mInst[itr]] # 0
  BY DEF IInv, TypeOK, CountWithinLimit, CallInSlot
<1>3. QED
  BY <1>1, <1>2 DEF Service!Call, pool, Live

(* Creating a routine is a creation of the service.                        *)
LEMMA CreateService ==
  ASSUME IInv, NEW r \in Routines, NEW intrv \in Intervals, NEW n \in Iterations,
         NEW a \in BOOLEAN, Create(r, intrv, n, a)
  PROVE  Service!Start(r, Limit(n))
<1> USE RoutineAssumption DEF IInv, TypeOK
<1>1. Live' = Live \cup {r}
  BY DEF Create, IsUnused, Live
<1>2. QED
  BY <1>1 DEF Create, Service!Start, Live

(* Terminating a slot stops the routine in it, if there is one, and no     *)
(* other: no routine is in two slots.                                      *)
LEMMA TerminateService ==
  ASSUME IInv, NEW s \in Slots, TerminateSlot(s), UNCHANGED <<created, left>>
  PROVE  Service!Next \/ UNCHANGED Service!vars
<1> USE RoutineAssumption DEF IInv, TypeOK
<1>1. \A t \in Slots : t # s /\ mInst[t] # Null => mInst[t] # mInst[s]
  BY DEF OwnSlot
<1>2. Live' = Live \ {mInst[s]}
  BY <1>1 DEF TerminateSlot, Live
<1>3. CASE mInst[s] = Null
  BY <1>2, <1>3 DEF Service!vars, Live
<1>4. CASE mInst[s] # Null
  <2>1. mInst[s] \in Live /\ mInst[s] \in Routines
    BY <1>4 DEF Live
  <2>2. QED
    BY <1>2, <2>1 DEF Service!Next, Service!Stop, Live
<1>5. QED
  BY <1>3, <1>4

(* Setting the iterations sets the limit of the service.                   *)
LEMMA SetIterationsService ==
  ASSUME IInv, NEW r \in Routines, NEW n \in Iterations, SetIterations(r, n)
  PROVE  \/ mInst[m_Slot[r]] \in Routines /\ Service!SetQuota(mInst[m_Slot[r]], Limit(n))
         \/ UNCHANGED Service!vars
<1> USE RoutineAssumption DEF IInv, TypeOK, SetIterations, IsValid
<1> DEFINE q == mInst[m_Slot[r]]
<1>1. m_Slot[r] \in Slots
  BY DEF Slots
<1>2. UNCHANGED Live /\ UNCHANGED <<created>>
  BY DEF Live
<1>3. CASE q = Null
  <2>1. left' = left
    BY <1>3
  <2>2. QED
    BY <1>2, <2>1 DEF Service!vars, Live
<1>4. CASE q # Null
  <2>1. q \in Live /\ q \in Routines
    BY <1>1, <1>4 DEF Live
  <2>2. left' = [left EXCEPT ![q] = Limit(n)]
    BY <2>1
  <2>3. QED
    BY <1>2, <2>1, <2>2 DEF Service!SetQuota, Live
<1>5. QED
  BY <1>3, <1>4

(* Every step of the pool is a step of the service or a stutter.           *)
LEMMA NextService == IInv /\ [Next]_vars => [Service!Next]_(Service!vars)
<1> SUFFICES ASSUME IInv, [Next]_vars PROVE Service!Next \/ UNCHANGED Service!vars
  OBVIOUS
<1> USE RoutineAssumption
<1>1. ASSUME NEW r \in Routines, NEW intrv \in Intervals, NEW n \in Iterations,
             NEW a \in BOOLEAN, Create(r, intrv, n, a)
      PROVE  Service!Next
  BY <1>1, CreateService DEF Service!Next
<1>2. ASSUME NEW r \in Routines, Terminate(r)
      PROVE  Service!Next \/ UNCHANGED Service!vars
  <2>1. m_Slot[r] \in Slots /\ TerminateSlot(m_Slot[r]) /\ UNCHANGED <<created, left>>
    BY <1>2 DEF IInv, TypeOK, Terminate, IsValid, Slots
  <2>2. QED
    BY <2>1, TerminateService
<1>3. ASSUME NEW r \in Routines, NEW n \in Iterations, SetIterations(r, n)
      PROVE  Service!Next \/ UNCHANGED Service!vars
  BY <1>3, SetIterationsService DEF Service!Next
<1>4. CASE UNCHANGED <<mInst, created, left>>
  BY <1>4 DEF Service!vars
<1>5. ASSUME NEW failed \in BOOLEAN, EndExecute(failed), itr \in Slots,
             UNCHANGED <<created, left>>
      PROVE  Service!Next \/ UNCHANGED Service!vars
  <2>1. CASE TerminateSlot(itr)
    BY <1>5, <2>1, TerminateService
  <2>2. CASE UNCHANGED mInst
    BY <1>5, <2>2, <1>4
  <2>3. QED
    BY <1>5, <2>1, <2>2 DEF EndExecute
<1>6. CASE CallBegin
  <2>1. mInst[itr] \in Routines
    BY <1>6 DEF CallBegin, IInv, TypeOK
  <2>2. QED
    BY <1>6, <2>1, CallService DEF Service!Next
<1>7. CASE Deinitialize
  <2>1. created' = {} /\ Live' = {} /\ left' = [r \in Routines |-> Unlimited]
    BY <1>7 DEF Deinitialize, Live
  <2>2. QED
    BY <2>1 DEF Service!Next, Service!Restart, Live
<1>8. CASE Script
  <2>1. ASSUME NEW r \in Routines, NEW intrv \in Intervals, SetInterval(r, intrv)
        PROVE  UNCHANGED <<mInst, created, left>>
    BY <2>1 DEF SetInterval, history
  <2>2. ASSUME NEW r \in Routines, NEW toggle \in BOOLEAN, SetSuspended(r, toggle)
        PROVE  UNCHANGED <<mInst, created, left>>
    BY <2>2 DEF SetSuspended, history
  <2>3. QED
    BY <1>8, <1>1, <1>2, <1>3, <1>4, <2>1, <2>2 DEF Script
<1>9. CASE Process
  <2>1. SkipSlot \/ TickSlot \/ ExecuteUnused \/ ProcessEnd => UNCHANGED <<mInst, created, left>>
    BY DEF SkipSlot, TickSlot, ExecuteUnused, ProcessEnd, pool, history
  <2>2. CASE ExecuteSuspended
    BY <1>5, <2>2 DEF ExecuteSuspended
  <2>3. ASSUME NEW failed \in BOOLEAN, CallReturn(failed)
        PROVE  Service!Next \/ UNCHANGED Service!vars
    BY <1>5, <2>3 DEF CallReturn, IInv, CallInSlot
  <2>4. QED
    BY <1>4, <1>6, <1>9, <2>1, <2>2, <2>3 DEF Process
<1>10. CASE ProcessFirst \/ (\E d \in Deltas : ProcessBegin(d)) \/ Initialize \/ UNCHANGED vars
  BY <1>4, <1>10 DEF ProcessFirst, ProcessBegin, Initialize, vars, pool, history
<1>11. QED
  BY <1>7, <1>8, <1>9, <1>10 DEF Next

(* Every behaviour of the pool is one RoutineService allows: the slots, the*)
(* timers and re-entrant callbacks never let a terminated routine run, a   *)
(* routine start twice or a limit be exceeded.                             *)
THEOREM Implementation == Spec => KeepsService
BY Invariance, InitService, NextService, PTL DEF Spec, KeepsService, Service!Spec
=============================================================================
