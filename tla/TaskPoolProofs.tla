---------------------------- MODULE TaskPoolProofs ----------------------------
(***************************************************************************)
(* Proofs about TaskPool, for any number of slots, tasks, entities and     *)
(* callbacks and any intervals, iteration counts and frame times.          *)
(***************************************************************************)
EXTENDS TaskPool, TLAPS

(* The empty pool satisfies the inductive invariant.                       *)
LEMMA InitInv == Init => IInv
<1> SUFFICES ASSUME Init PROVE IInv
  OBVIOUS
<1> USE TaskAssumption DEF Init, Slots
<1>1. TypeOK
  <2>1. s_Last \in BOOLEAN
    BY Zenon
  <2>2. left \in [Tasks -> Int \cup {Unlimited}]
    BY Zenon
  <2>3. QED
    BY <2>1, <2>2 DEF TypeOK
<1>2. BoundToPresent /\ OwnArguments /\ UnusedHasNoArguments
  BY DEF BoundToPresent, OwnArguments, UnusedHasNoArguments
<1>3. OneSlot /\ CountWithinLimit /\ CallInSlot
  BY DEF OneSlot, CountWithinLimit, CallInSlot
<1>4. QED
  BY <1>1, <1>2, <1>3 DEF IInv

(* Terminating the slots of S frees them and leaves the others as they are:*)
(* the parts of the invariant that are about slots survive.                *)
LEMMA TerminateSlotsInv ==
  ASSUME IInv, NEW S \in SUBSET Slots, TerminateSlots(S), UNCHANGED created
  PROVE  /\ mEntity' \in [Slots -> Entities \cup {Null}]
         /\ mFunc' \in [Slots -> Funcs \cup {Null}]
         /\ mIterations' \in [Slots -> Nat]
         /\ mInterval' \in [Slots -> Int]
         /\ mArgv' \in [Slots -> Tasks \cup {Null}]
         /\ task' \in [Slots -> Tasks \cup {Null}]
         /\ OwnArguments'
         /\ OneSlot'
         /\ UnusedHasNoArguments'
         /\ \A s \in Slots : task'[s] # Null =>
              s \notin S /\ task'[s] = task[s] /\ mIterations'[s] = mIterations[s]
         /\ \A s \in Slots : mEntity'[s] # Null =>
              s \notin S /\ mEntity'[s] = mEntity[s]
<1> USE TaskAssumption DEF IInv, TypeOK, TerminateSlots
<1>1. /\ mEntity' \in [Slots -> Entities \cup {Null}]
      /\ mFunc' \in [Slots -> Funcs \cup {Null}]
      /\ mIterations' \in [Slots -> Nat]
      /\ mInterval' \in [Slots -> Int]
      /\ mArgv' \in [Slots -> Tasks \cup {Null}]
      /\ task' \in [Slots -> Tasks \cup {Null}]
  OBVIOUS
<1>2. OwnArguments' /\ UnusedHasNoArguments'
  BY DEF OwnArguments, UnusedHasNoArguments
<1>3. OneSlot'
  BY DEF OneSlot
<1>4. QED
  BY <1>1, <1>2, <1>3

(* The part of the invariant about runs survives when the tasks in slots   *)
(* are fewer than before and nothing is called.                            *)
LEMMA FewerTasksInv ==
  ASSUME IInv, UNCHANGED <<phase, itr, running, left, created>>,
         \A s \in Slots : task'[s] # Null =>
           task'[s] = task[s] /\ mIterations'[s] = mIterations[s]
  PROVE  CountWithinLimit' /\ CallInSlot'
<1>1. CountWithinLimit'
  BY DEF IInv, CountWithinLimit
<1>2. CallInSlot'
  BY DEF IInv, CallInSlot
<1>3. QED
  BY <1>1, <1>2

(* A script ends the task of a slot, and perhaps its timer, or the machine *)
(* does so for all: steps that terminate slots while the entities stay.    *)
LEMMA EndTasksInv ==
  ASSUME IInv, NEW S \in SUBSET Slots, TerminateSlots(S),
         s_Intervals' = s_Intervals \/ StopTimers(S),
         present' \in SUBSET Entities,
         \A s \in Slots : s \notin S /\ mEntity[s] # Null => mEntity[s] \in present',
         UNCHANGED <<s_Last, scan, known, created, left>>
  PROVE  IInv'
<1>1. /\ mEntity' \in [Slots -> Entities \cup {Null}]
      /\ mFunc' \in [Slots -> Funcs \cup {Null}]
      /\ mIterations' \in [Slots -> Nat]
      /\ mInterval' \in [Slots -> Int]
      /\ mArgv' \in [Slots -> Tasks \cup {Null}]
      /\ task' \in [Slots -> Tasks \cup {Null}]
      /\ OwnArguments' /\ OneSlot' /\ UnusedHasNoArguments'
      /\ \A s \in Slots : task'[s] # Null =>
           task'[s] = task[s] /\ mIterations'[s] = mIterations[s]
      /\ \A s \in Slots : mEntity'[s] # Null =>
           s \notin S /\ mEntity'[s] = mEntity[s]
  BY TerminateSlotsInv
<1>2. s_Intervals' \in [Slots -> Int]
  BY DEF IInv, TypeOK, StopTimers
<1>3. TypeOK'
  BY <1>1, <1>2 DEF IInv, TypeOK, scan
<1>4. BoundToPresent'
  BY <1>1 DEF BoundToPresent
<1>5. CountWithinLimit' /\ CallInSlot'
  BY <1>1, FewerTasksInv DEF scan
<1>6. QED
  BY <1>1, <1>3, <1>4, <1>5 DEF IInv

(* MakeTask: a new task enters a free slot, bound to an entity that is     *)
(* there.                                                                  *)
LEMMA CreateInv ==
  ASSUME IInv, NEW t \in Tasks, NEW e \in Entities, NEW f \in Funcs,
         NEW intrv \in Intervals, NEW n \in Iterations, NEW a \in BOOLEAN,
         Create(t, e, f, intrv, n, a)
  PROVE  IInv'
<1> USE TaskAssumption DEF IInv, TypeOK, Limit
<1> PICK s \in Slots :
      /\ IsUnused(s)
      /\ mEntity'     = [mEntity EXCEPT ![s] = e]
      /\ mFunc'       = [mFunc EXCEPT ![s] = f]
      /\ mIterations' = [mIterations EXCEPT ![s] = n]
      /\ mInterval'   = [mInterval EXCEPT ![s] = intrv]
      /\ mArgv'       = IF a THEN [mArgv EXCEPT ![s] = t] ELSE mArgv
      /\ task'        = [task EXCEPT ![s] = t]
      /\ s_Intervals' = [s_Intervals EXCEPT ![s] = intrv]
      /\ known'       = IF s < known THEN known ELSE s + 1
  BY DEF Create
<1>1. /\ t \notin created /\ e \in present
      /\ created' = created \cup {t}
      /\ left'    = [left EXCEPT ![t] = Limit(n)]
      /\ UNCHANGED <<s_Last, present, scan>>
      /\ mEntity[s] = Null /\ task[s] = Null
      /\ t # Null /\ e # Null
  BY DEF Create, IsUnused, Validate, OneSlot
<1>2. \A u \in Slots : task[u] # t
  BY <1>1 DEF OneSlot
<1>3. TypeOK'
  <2>1. known' \in 0 .. MaxTasks
    BY DEF Slots
  <2>2. QED
    BY <1>1, <2>1 DEF scan
<1>4. BoundToPresent'
  BY <1>1 DEF BoundToPresent
<1>5. OwnArguments' /\ UnusedHasNoArguments'
  BY <1>1 DEF OwnArguments, UnusedHasNoArguments
<1>6. OneSlot'
  <2>1. ASSUME NEW u \in Slots
        PROVE  /\ mEntity'[u] # Null <=> task'[u] # Null
               /\ task'[u] # Null => task'[u] \in created'
    BY <1>1 DEF OneSlot
  <2>2. ASSUME NEW u \in Slots, NEW v \in Slots, task'[u] # Null, task'[u] = task'[v]
        PROVE  u = v
    BY <1>1, <1>2, <2>2 DEF OneSlot
  <2>3. QED
    BY <2>1, <2>2 DEF OneSlot
<1>7. running # t
  BY <1>1 DEF CallInSlot
<1>8. CountWithinLimit'
  BY <1>1, <1>2, <1>7 DEF CountWithinLimit, scan
<1>9. CallInSlot'
  BY <1>1, <1>7 DEF CallInSlot, scan
<1>10. QED
  BY <1>3, <1>4, <1>5, <1>6, <1>8, <1>9

(* A script ends the task of a slot it has the object of.                  *)
LEMMA TerminateInv ==
  ASSUME IInv, NEW s \in Slots, Terminate(s)
  PROVE  IInv'
<1>1. TerminateSlots({s}) /\ UNCHANGED <<s_Intervals, s_Last, present, scan, known, created, left>>
  BY DEF Terminate
<1>2. /\ present' \in SUBSET Entities
      /\ \A u \in Slots : u \notin {s} /\ mEntity[u] # Null => mEntity[u] \in present'
  BY <1>1 DEF IInv, TypeOK, BoundToPresent
<1>3. QED
  BY <1>1, <1>2, EndTasksInv

(* DropTask ends the task it finds.                                        *)
LEMMA RemoveInv ==
  ASSUME IInv, NEW e \in Entities, NEW f \in Funcs, NEW b \in BOOLEAN,
         NEW intrv \in Intervals, Remove(e, f, b, intrv)
  PROVE  IInv'
<1>1. PICK pos \in Slots : TerminateSlots({pos}) /\ StopTimers({pos})
  BY DEF Remove, Matches
<1>2. UNCHANGED <<s_Last, present, scan, known, created, left>>
  BY DEF Remove
<1>3. /\ present' \in SUBSET Entities
      /\ \A u \in Slots : u \notin {pos} /\ mEntity[u] # Null => mEntity[u] \in present'
  BY <1>2 DEF IInv, TypeOK, BoundToPresent
<1>4. QED
  BY <1>1, <1>2, <1>3, EndTasksInv

(* An entity goes: the tasks that were bound to it have gone with it.      *)
LEMMA DepartInv ==
  ASSUME IInv, NEW e \in Entities, Depart(e)
  PROVE  IInv'
<1> DEFINE S == {s \in Slots : mEntity[s] = e}
<1>1. /\ TerminateSlots(S) /\ StopTimers(S)
      /\ present' = present \ {e}
      /\ UNCHANGED <<s_Last, scan, known, created, left>>
  BY DEF Depart, Cleanup
<1>2. /\ present' \in SUBSET Entities
      /\ \A u \in Slots : u \notin S /\ mEntity[u] # Null => mEntity[u] \in present'
  BY <1>1 DEF IInv, TypeOK, BoundToPresent
<1>3. S \in SUBSET Slots
  OBVIOUS
<1> HIDE DEF S
<1>4. QED
  BY <1>1, <1>2, <1>3, EndTasksInv

(* The setters change a slot, free or not, but not who is in it.           *)
LEMMA SetterInv ==
  ASSUME IInv, NEW s \in Slots,
         \/ \E intrv \in Intervals : SetInterval(s, intrv)
         \/ \E f \in Funcs : SetFunc(s, f)
  PROVE  IInv'
<1> USE TaskAssumption DEF SetInterval, SetFunc, scan
<1>1. UNCHANGED <<mEntity, mIterations, mArgv, task, s_Intervals, s_Last, present,
                  phase, itr, delta, running, known, created, left>>
  OBVIOUS
<1>2. mInterval' \in [Slots -> Int] /\ mFunc' \in [Slots -> Funcs \cup {Null}]
  <2>1. ASSUME NEW intrv \in Intervals, SetInterval(s, intrv)
        PROVE  mInterval' \in [Slots -> Int] /\ UNCHANGED mFunc
    <3>1. (IF intrv < 0 THEN 0 ELSE intrv) \in Int
      OBVIOUS
    <3>2. QED
      BY <2>1, <3>1 DEF IInv, TypeOK
  <2>2. ASSUME NEW f \in Funcs, SetFunc(s, f)
        PROVE  mFunc' \in [Slots -> Funcs \cup {Null}] /\ UNCHANGED mInterval
    BY <2>2 DEF IInv, TypeOK
  <2>3. QED
    BY <2>1, <2>2 DEF IInv, TypeOK
<1>3. TypeOK'
  BY <1>1, <1>2 DEF IInv, TypeOK
<1>4. BoundToPresent' /\ OwnArguments' /\ OneSlot' /\ UnusedHasNoArguments'
  BY <1>1 DEF IInv, BoundToPresent, OwnArguments, OneSlot, UnusedHasNoArguments
<1>5. CountWithinLimit' /\ CallInSlot'
  BY <1>1, FewerTasksInv
<1>6. QED
  BY <1>3, <1>4, <1>5 DEF IInv

(* A script gives the task of a slot another bound.                        *)
LEMMA SetIterationsInv ==
  ASSUME IInv, NEW s \in Slots, NEW n \in Iterations, SetIterations(s, n)
  PROVE  IInv'
<1> USE TaskAssumption DEF SetIterations, Limit, scan
<1>1. TypeOK'
  BY DEF IInv, TypeOK
<1>2. BoundToPresent' /\ OwnArguments' /\ OneSlot' /\ UnusedHasNoArguments'
  BY DEF IInv, BoundToPresent, OwnArguments, OneSlot, UnusedHasNoArguments
<1>3. CountWithinLimit'
  BY DEF IInv, TypeOK, OneSlot, CountWithinLimit
<1>4. CallInSlot'
  BY DEF IInv, CallInSlot
<1>5. QED
  BY <1>1, <1>2, <1>3, <1>4 DEF IInv

(* The steps that leave the slots alone: an entity arrives, the scan moves *)
(* on, timers run down or are stopped.                                     *)
LEMMA ScanInv ==
  ASSUME IInv,
         \/ \E e \in Entities : Arrive(e)
         \/ ProcessFirst
         \/ \E d \in Deltas : ProcessBegin(d)
         \/ SkipSlot
         \/ TickSlot
         \/ ExecuteUnused
         \/ ProcessEnd
         \/ Initialize
  PROVE  IInv'
<1> USE TaskAssumption DEF Arrive, ProcessFirst, ProcessBegin, SkipSlot, TickSlot,
        ExecuteUnused, ProcessEnd, Initialize
<1>1. /\ UNCHANGED <<pool, known, running, created, left>>
      /\ present \subseteq present' /\ present' \subseteq Entities
  BY DEF scan, IInv, TypeOK
<1>2. s_Last' \in BOOLEAN
  BY Zenon DEF IInv, TypeOK
<1>3. s_Intervals' \in [Slots -> Int]
  <2>1. CASE TickSlot
    <3>1. s_Intervals[itr] - delta \in Int
      BY <2>1 DEF IInv, TypeOK
    <3>2. QED
      BY <2>1, <3>1 DEF IInv, TypeOK
  <2>2. CASE ExecuteUnused \/ Initialize
    BY <2>2 DEF IInv, TypeOK, StopTimers
  <2>3. QED
    BY <2>1, <2>2 DEF IInv, TypeOK
<1>4. delta' \in Nat /\ itr' \in 0 .. MaxTasks
  <2>1. CASE SkipSlot \/ TickSlot \/ ExecuteUnused
    BY <2>1 DEF IInv, TypeOK, Slots
  <2>2. CASE \E e \in Entities : Arrive(e)
    BY <2>2 DEF IInv, TypeOK, scan
  <2>3. CASE ProcessFirst \/ ProcessEnd \/ Initialize
    BY <2>3 DEF IInv, TypeOK, scan
  <2>4. CASE \E d \in Deltas : ProcessBegin(d)
    BY <2>4 DEF IInv, TypeOK
  <2>5. QED
    BY <2>1, <2>2, <2>3, <2>4
<1>5. TypeOK'
  <2>1. phase' \in {"idle", "scan", "call", "down"}
    BY DEF IInv, TypeOK, scan
  <2>2. QED
    BY <1>1, <1>2, <1>3, <1>4, <2>1 DEF IInv, TypeOK, pool
<1>6. BoundToPresent' /\ OwnArguments' /\ OneSlot' /\ UnusedHasNoArguments'
  BY <1>1 DEF IInv, BoundToPresent, OwnArguments, OneSlot, UnusedHasNoArguments, pool
<1>7. CountWithinLimit'
  BY <1>1 DEF IInv, CountWithinLimit, pool
<1>8. CallInSlot'
  <2>1. \/ UNCHANGED <<phase, itr>>
        \/ phase # "call" /\ phase' # "call"
    BY DEF scan
  <2>2. QED
    BY <1>1, <2>1 DEF IInv, CallInSlot, pool
<1>9. QED
  BY <1>5, <1>6, <1>7, <1>8 DEF IInv

(* Execute starts a call: a task that is called was allowed to be.         *)
LEMMA CallBeginInv ==
  ASSUME IInv, CallBegin
  PROVE  /\ IInv'
         /\ task[itr] \in Tasks
         /\ left[task[itr]] # 0
<1> USE TaskAssumption DEF CallBegin
<1>1. /\ task[itr] \in Tasks /\ task[itr] \in created
      /\ running = Null
      /\ left[task[itr]] = Unlimited <=> mIterations[itr] = 0
      /\ left[task[itr]] # Unlimited =>
           left[task[itr]] >= mIterations[itr] /\ mIterations[itr] >= 1
  BY DEF IInv, TypeOK, OneSlot, CountWithinLimit, CallInSlot
<1>2. TypeOK'
  <2>1. s_Intervals[itr] - delta \in Int
    BY DEF IInv, TypeOK
  <2>2. s_Intervals' \in [Slots -> Int]
    BY <2>1 DEF IInv, TypeOK
  <2>3. left' \in [Tasks -> Int \cup {Unlimited}]
    BY <1>1 DEF IInv, TypeOK
  <2>4. running' \in Tasks \cup {Null} /\ phase' = "call"
    BY <1>1
  <2>5. UNCHANGED <<pool, s_Last, present, itr, delta, known, created>>
    OBVIOUS
  <2> HIDE DEF CallBegin
  <2>6. QED
    BY <2>2, <2>3, <2>4, <2>5 DEF IInv, TypeOK, pool
<1>3. BoundToPresent' /\ OwnArguments' /\ OneSlot' /\ UnusedHasNoArguments'
  BY DEF IInv, BoundToPresent, OwnArguments, OneSlot, UnusedHasNoArguments, pool
<1>4. CountWithinLimit'
  <2> SUFFICES ASSUME NEW s \in Slots, task[s] # Null
               PROVE  /\ left'[task[s]] = Unlimited <=> mIterations[s] = 0
                      /\ left'[task[s]] # Unlimited =>
                           mIterations[s] <= left'[task[s]] +
                             (IF running' = task[s] THEN 1 ELSE 0)
    BY DEF CountWithinLimit, pool
  <2>1. /\ left[task[s]] = Unlimited <=> mIterations[s] = 0
        /\ left[task[s]] # Unlimited => mIterations[s] <= left[task[s]]
    BY <1>1 DEF IInv, TypeOK, CountWithinLimit
  <2>2. task[s] \in Tasks /\ left[task[s]] \in Int \cup {Unlimited} /\ mIterations[s] \in Nat
    BY DEF IInv, TypeOK
  <2>3. CASE s = itr
    <3>1. left'[task[s]] = IF left[task[s]] = Unlimited THEN Unlimited ELSE left[task[s]] - 1
      BY <1>1, <2>3 DEF IInv, TypeOK
    <3>2. running' = task[s]
      BY <2>3
    <3>3. left[task[s]] \in Int => left[task[s]] - 1 # Unlimited
      OBVIOUS
    <3>4. QED
      BY <2>1, <2>2, <3>1, <3>2, <3>3
  <2>4. CASE s # itr
    <3>1. task[s] # task[itr]
      BY <1>1, <2>2, <2>4 DEF IInv, OneSlot
    <3>2. left'[task[s]] = left[task[s]] /\ running' # task[s]
      BY <2>2, <3>1 DEF IInv, TypeOK
    <3>3. QED
      BY <2>1, <2>2, <3>2
  <2>5. QED
    BY <2>3, <2>4
<1>5. CallInSlot'
  BY <1>1 DEF IInv, OneSlot, CallInSlot, pool
<1>6. left[task[itr]] # 0
  BY <1>1 DEF IInv, TypeOK
<1>7. QED
  BY <1>1, <1>2, <1>3, <1>4, <1>5, <1>6 DEF IInv

(* The callback returns, to a slot that may have another task or none.     *)
LEMMA CallReturnInv ==
  ASSUME IInv, NEW failed \in BOOLEAN, CallReturn(failed)
  PROVE  IInv' /\ itr \in Slots
<1> USE TaskAssumption
<1>1. /\ itr \in Slots /\ running # Null
      /\ phase' = "scan" /\ running' = Null /\ EndExecute(failed)
      /\ UNCHANGED <<s_Last, present, delta, known, created, left>>
  BY DEF CallReturn, IInv, CallInSlot
<1>2. /\ mEntity' \in [Slots -> Entities \cup {Null}]
      /\ mFunc' \in [Slots -> Funcs \cup {Null}]
      /\ mIterations' \in [Slots -> Nat]
      /\ mInterval' \in [Slots -> Int]
      /\ mArgv' \in [Slots -> Tasks \cup {Null}]
      /\ task' \in [Slots -> Tasks \cup {Null}]
      /\ OwnArguments' /\ OneSlot' /\ UnusedHasNoArguments'
      /\ \A s \in Slots : mEntity'[s] # Null => mEntity'[s] = mEntity[s]
      /\ \A s \in Slots : task'[s] # Null =>
           /\ task'[s] = task[s]
           /\ s # itr => mIterations'[s] = mIterations[s]
           /\ s = itr => /\ mIterations[s] # 1
                        /\ mIterations'[s] = IF mIterations[s] = 0 THEN 0
                                             ELSE mIterations[s] - 1
  <2>1. CASE TerminateSlots({itr})
    BY <1>1, <2>1, TerminateSlotsInv
  <2>2. CASE /\ mIterations[itr] # 1
             /\ mIterations' = [mIterations EXCEPT ![itr] = IF @ = 0 THEN 0 ELSE @ - 1]
             /\ UNCHANGED <<mEntity, mFunc, mInterval, mArgv, task>>
    <3>1. mIterations' \in [Slots -> Nat]
      BY <1>1, <2>2 DEF IInv, TypeOK
    <3>2. OwnArguments' /\ OneSlot' /\ UnusedHasNoArguments'
      BY <1>1, <2>2 DEF IInv, OwnArguments, OneSlot, UnusedHasNoArguments
    <3>3. QED
      BY <1>1, <2>2, <3>1, <3>2 DEF IInv, TypeOK
  <2>3. QED
    BY <1>1, <2>1, <2>2 DEF EndExecute
<1>3. TypeOK'
  <2>1. s_Intervals' \in [Slots -> Int] /\ itr' \in 0 .. MaxTasks
    BY <1>1, <1>2 DEF IInv, TypeOK, EndExecute, Slots
  <2>2. QED
    BY <1>1, <1>2, <2>1 DEF IInv, TypeOK
<1>4. BoundToPresent'
  BY <1>1, <1>2 DEF IInv, BoundToPresent
<1>5. CountWithinLimit'
  <2> SUFFICES ASSUME NEW s \in Slots, task'[s] # Null
               PROVE  /\ left[task[s]] = Unlimited <=> mIterations'[s] = 0
                      /\ left[task[s]] # Unlimited => mIterations'[s] <= left[task[s]]
    BY <1>1, <1>2 DEF CountWithinLimit, IInv, TypeOK
  <2>1. /\ task'[s] = task[s] /\ task[s] \in Tasks /\ mIterations[s] \in Nat
        /\ left[task[s]] \in Int \cup {Unlimited}
        /\ left[task[s]] = Unlimited <=> mIterations[s] = 0
        /\ left[task[s]] # Unlimited =>
             mIterations[s] <= left[task[s]] + (IF running = task[s] THEN 1 ELSE 0)
    BY <1>2 DEF IInv, TypeOK, CountWithinLimit
  <2>2. CASE s = itr
    BY <1>2, <2>1, <2>2
  <2>3. CASE s # itr
    <3>1. running # task[s]
      BY <1>1, <2>1, <2>3 DEF IInv, CallInSlot
    <3>2. QED
      BY <1>2, <2>1, <2>3, <3>1
  <2>4. QED
    BY <2>2, <2>3
<1>6. CallInSlot'
  BY <1>1 DEF CallInSlot
<1>7. QED
  BY <1>1, <1>2, <1>3, <1>4, <1>5, <1>6 DEF IInv

(* Deinitialize frees every slot.                                          *)
LEMMA DeinitializeInv ==
  ASSUME IInv, Deinitialize
  PROVE  IInv'
<1> USE TaskAssumption DEF Deinitialize, TerminateSlots
<1>1. \A s \in Slots : /\ mEntity'[s] = Null /\ mArgv'[s] = Null /\ task'[s] = Null
  OBVIOUS
<1>2. TypeOK'
  <2>1. left' \in [Tasks -> Int \cup {Unlimited}] /\ known' \in 0 .. MaxTasks
    OBVIOUS
  <2>2. QED
    BY <2>1 DEF IInv, TypeOK
<1>3. BoundToPresent' /\ OwnArguments' /\ UnusedHasNoArguments' /\ OneSlot'
  BY <1>1 DEF BoundToPresent, OwnArguments, UnusedHasNoArguments, OneSlot
<1>4. CountWithinLimit' /\ CallInSlot'
  BY <1>1 DEF IInv, CountWithinLimit, CallInSlot
<1>5. QED
  BY <1>2, <1>3, <1>4 DEF IInv

(* Every step of the pool and of the entities preserves the invariant.     *)
LEMMA NextInv == IInv /\ [Next]_vars => IInv'
<1> SUFFICES ASSUME IInv, [Next]_vars PROVE IInv'
  OBVIOUS
<1>1. CASE Script
  <2>1. ASSUME NEW s \in Slots,
               \/ Terminate(s)
               \/ \E intrv \in Intervals : SetInterval(s, intrv)
               \/ \E n \in Iterations : SetIterations(s, n)
               \/ \E f \in Funcs : SetFunc(s, f)
        PROVE  IInv'
    BY <2>1, TerminateInv, SetterInv, SetIterationsInv
  <2>2. QED
    BY <1>1, <2>1, CreateInv, RemoveInv DEF Script
<1>2. CASE \/ \E e \in Entities : Arrive(e)
           \/ ProcessFirst
           \/ \E d \in Deltas : ProcessBegin(d)
           \/ SkipSlot \/ TickSlot \/ ExecuteUnused \/ ProcessEnd
           \/ Initialize
  BY <1>2, ScanInv
<1>3. ASSUME NEW e \in Entities, Depart(e) PROVE IInv'
  BY <1>3, DepartInv
<1>4. CASE CallBegin
  BY <1>4, CallBeginInv
<1>5. ASSUME NEW failed \in BOOLEAN, CallReturn(failed) PROVE IInv'
  BY <1>5, CallReturnInv
<1>6. CASE Deinitialize
  BY <1>6, DeinitializeInv
<1>7. CASE UNCHANGED vars
  <2> USE <1>7 DEF vars, pool, scan
  <2>1. TypeOK'
    BY DEF IInv, TypeOK
  <2>2. BoundToPresent' /\ OwnArguments' /\ OneSlot' /\ UnusedHasNoArguments'
    BY DEF IInv, BoundToPresent, OwnArguments, OneSlot, UnusedHasNoArguments
  <2>3. CountWithinLimit' /\ CallInSlot'
    BY FewerTasksInv
  <2>4. QED
    BY <2>1, <2>2, <2>3 DEF IInv
<1>8. QED
  BY <1>1, <1>2, <1>3, <1>4, <1>5, <1>6, <1>7 DEF Next, Process

(* The inductive invariant holds in every reachable state of the pool.     *)
THEOREM TaskInvariance == Spec => []IInv
BY InitInv, NextInv, PTL DEF Spec

(* Every variable keeps its type; in particular the unsigned count of      *)
(* iterations never passes below zero.                                     *)
THEOREM TaskTypeCorrect == Spec => []TypeOK
BY TaskInvariance, PTL DEF IInv

(* No task outlives its entity, whoever destroys it and when (Cleanup).    *)
THEOREM TasksBoundToPresent == Spec => []BoundToPresent
BY TaskInvariance, PTL DEF IInv

(* No task is called with the arguments of another one (Task::Clear).      *)
THEOREM TaskArguments == Spec => []OwnArguments
BY TaskInvariance, PTL DEF IInv

-----------------------------------------------------------------------------
(* TaskPool implements TaskService and EntityService.                      *)

Binding(s) == [task |-> task[s], entity |-> mEntity[s]]

Bindings == {Binding(s) : s \in {u \in Slots : mEntity[u] # Null}}

(* No two slots bind the same task, so that a slot's binding is its own.   *)
LEMMA BindingsDiffer ==
  ASSUME IInv, NEW s \in Slots, mEntity[s] # Null
  PROVE  \A u \in Slots : mEntity[u] # Null /\ Binding(u) = Binding(s) => u = s
BY DEF IInv, OneSlot, Binding

(* Terminating the slots of S ends their bindings and no others.           *)
LEMMA TerminateBindings ==
  ASSUME IInv, NEW S \in SUBSET Slots, TerminateSlots(S)
  PROVE  Bindings' = Bindings \ {Binding(s) : s \in {u \in S : mEntity[u] # Null}}
<1>1. \A s \in Slots : mEntity'[s] # Null <=> s \notin S /\ mEntity[s] # Null
  BY DEF TerminateSlots
<1>2. \A s \in Slots : s \notin S => mEntity'[s] = mEntity[s] /\ task'[s] = task[s]
  BY DEF TerminateSlots
<1>3. Bindings' = {Binding(s) : s \in {u \in Slots \ S : mEntity[u] # Null}}
  BY <1>1, <1>2 DEF Bindings, Binding
<1>4. QED
  BY <1>3, BindingsDiffer DEF Bindings

(* The empty pool serves nobody.                                           *)
LEMMA InitService == Init => Service!Init
BY TaskAssumption DEF Init, Service!Init, Slots

(* Terminating one slot stops the task in it, if there is one.             *)
LEMMA TerminateService ==
  ASSUME IInv, NEW s \in Slots, TerminateSlots({s}),
         UNCHANGED <<present, created, left>>
  PROVE  Service!Next \/ UNCHANGED Service!vars
<1>1. CASE mEntity[s] = Null
  <2>1. Bindings' = Bindings
    <3>1. {u \in {s} : mEntity[u] # Null} = {}
      BY <1>1
    <3>2. {s} \in SUBSET Slots
      OBVIOUS
    <3>3. Bindings' = Bindings \ {Binding(u) : u \in {}}
      BY <3>1, <3>2, TerminateBindings
    <3>4. QED
      BY <3>3
  <2>2. QED
    BY <2>1 DEF Service!vars, Bindings, Binding
<1>2. CASE mEntity[s] # Null
  <2>1. Bindings' = Bindings \ {Binding(s)}
    BY <1>2, TerminateBindings
  <2>2. PICK b \in Bindings : b = Binding(s)
    BY <1>2 DEF Bindings
  <2>3. Service!Stop(b)
    BY <2>1, <2>2 DEF Service!Stop, Bindings, Binding
  <2>4. QED
    BY <2>2, <2>3 DEF Service!Next, Bindings, Binding
<1>3. QED
  BY <1>1, <1>2

(* MakeTask starts a task of the service.                                  *)
LEMMA CreateService ==
  ASSUME IInv, NEW t \in Tasks, NEW e \in Entities, NEW f \in Funcs,
         NEW intrv \in Intervals, NEW n \in Iterations, NEW a \in BOOLEAN,
         Create(t, e, f, intrv, n, a)
  PROVE  Service!Start(t, e, Limit(n))
<1>1. PICK s \in Slots :
        /\ mEntity[s] = Null
        /\ mEntity' = [mEntity EXCEPT ![s] = e]
        /\ task'    = [task EXCEPT ![s] = t]
  BY DEF Create, IsUnused
<1>2. e # Null
  BY TaskAssumption
<1>3. Bindings' = Bindings \cup {[task |-> t, entity |-> e]}
  <2>1. mEntity'[s] = e /\ task'[s] = t
    BY <1>1 DEF IInv, TypeOK
  <2>2. \A u \in Slots \ {s} : mEntity'[u] = mEntity[u] /\ task'[u] = task[u]
    BY <1>1 DEF IInv, TypeOK
  <2>3. QED
    BY <1>1, <1>2, <2>1, <2>2 DEF Bindings, Binding
<1>4. QED
  BY <1>3 DEF Create, Validate, Service!Start, Bindings, Binding

(* The end of an entity is the end of its tasks, and of no others.         *)
LEMMA DepartService ==
  ASSUME IInv, NEW e \in Entities, Depart(e)
  PROVE  Service!Depart(e)
<1> DEFINE S == {s \in Slots : mEntity[s] = e}
<1>1. S \in SUBSET Slots /\ TerminateSlots(S)
  BY DEF Depart, Cleanup
<1>2. Bindings' = Bindings \ {Binding(s) : s \in {u \in S : mEntity[u] # Null}}
  BY <1>1, TerminateBindings
<1>3. \A b \in Bindings :
        b.entity = e <=> b \in {Binding(s) : s \in {u \in S : mEntity[u] # Null}}
  BY DEF Bindings, Binding
<1>4. Bindings' = {b \in Bindings : b.entity # e}
  BY <1>2, <1>3
<1>5. QED
  BY <1>4 DEF Depart, Service!Depart, Bindings, Binding

(* A setter that reaches a task changes its bound only.                    *)
LEMMA SetIterationsService ==
  ASSUME IInv, NEW s \in Slots, NEW n \in Iterations, SetIterations(s, n)
  PROVE  Service!Next \/ UNCHANGED Service!vars
<1>1. UNCHANGED <<mEntity, task, present, created>>
  BY DEF SetIterations
<1>2. CASE mEntity[s] = Null
  <2>1. left' = left
    <3>1. \A t \in Tasks : t # task[s]
      BY <1>2, TaskAssumption DEF IInv, OneSlot
    <3>2. left' = [t \in Tasks |-> IF t = task[s] THEN Limit(n) ELSE left[t]]
      BY DEF SetIterations
    <3>3. QED
      BY <3>1, <3>2 DEF IInv, TypeOK
  <2>2. QED
    BY <1>1, <2>1 DEF Service!vars
<1>3. CASE mEntity[s] # Null
  <2>1. PICK b \in Bindings : b = Binding(s)
    BY <1>3 DEF Bindings
  <2>2. b.task = task[s] /\ task[s] \in Tasks
    BY <1>3, <2>1 DEF Binding, IInv, TypeOK, OneSlot
  <2>3. left' = [left EXCEPT ![b.task] = Limit(n)]
    <3>1. left' = [t \in Tasks |-> IF t = task[s] THEN Limit(n) ELSE left[t]]
      BY DEF SetIterations
    <3>2. QED
      BY <2>2, <3>1 DEF IInv, TypeOK
  <2>4. Service!SetQuota(b, Limit(n))
    BY <1>1, <2>3 DEF Service!SetQuota
  <2>5. QED
    BY <2>1, <2>4 DEF Service!Next, Bindings, Binding
<1>4. QED
  BY <1>2, <1>3

(* The start of a call is one call of the service, within the limit and    *)
(* while the entity is there.                                              *)
LEMMA CallService ==
  ASSUME IInv, CallBegin
  PROVE  Service!Next
<1>1. itr \in Slots /\ mEntity[itr] # Null /\ UNCHANGED <<mEntity, task, present, created>>
  BY DEF CallBegin, pool
<1>2. PICK b \in Bindings : b = Binding(itr)
  BY <1>1 DEF Bindings
<1>3. b.entity \in present /\ left[b.task] # 0
  BY <1>1, <1>2, CallBeginInv DEF Binding, IInv, BoundToPresent
<1>4. Service!Call(b)
  BY <1>1, <1>2, <1>3 DEF CallBegin, Binding, Service!Call
<1>5. QED
  BY <1>2, <1>4 DEF Service!Next, Bindings, Binding

(* Every step of the pool is a step of the service or a stutter.           *)
LEMMA NextService == IInv /\ [Next]_vars => [Service!Next]_(Service!vars)
<1> SUFFICES ASSUME IInv, [Next]_vars PROVE Service!Next \/ UNCHANGED Service!vars
  OBVIOUS
<1>1. CASE UNCHANGED <<mEntity, task, present, created, left>>
  BY <1>1 DEF Service!vars
<1>2. CASE Script
  <2>1. ASSUME NEW t \in Tasks, NEW e \in Entities, NEW f \in Funcs,
               NEW intrv \in Intervals, NEW n \in Iterations, NEW a \in BOOLEAN,
               Create(t, e, f, intrv, n, a)
        PROVE  Service!Next
    BY <2>1, CreateService DEF Service!Next
  <2>2. ASSUME NEW s \in Slots, Terminate(s)
        PROVE  Service!Next \/ UNCHANGED Service!vars
    BY <2>2, TerminateService DEF Terminate
  <2>3. ASSUME NEW e \in Entities, NEW f \in Funcs, NEW b \in BOOLEAN,
               NEW intrv \in Intervals, Remove(e, f, b, intrv)
        PROVE  Service!Next \/ UNCHANGED Service!vars
    <3>1. PICK pos \in Slots : TerminateSlots({pos})
      BY <2>3 DEF Remove, Matches
    <3>2. UNCHANGED <<present, created, left>>
      BY <2>3 DEF Remove
    <3>3. QED
      BY <3>1, <3>2, TerminateService
  <2>4. ASSUME NEW s \in Slots,
               \/ \E intrv \in Intervals : SetInterval(s, intrv)
               \/ \E f \in Funcs : SetFunc(s, f)
        PROVE  UNCHANGED <<mEntity, task, present, created, left>>
    BY <2>4 DEF SetInterval, SetFunc
  <2>5. QED
    BY <1>1, <1>2, <2>1, <2>2, <2>3, <2>4, SetIterationsService DEF Script
<1>3. ASSUME NEW e \in Entities, Arrive(e) PROVE Service!Next
  <2>1. Service!Arrive(e)
    BY <1>3 DEF Arrive, Service!Arrive, pool
  <2>2. QED
    BY <2>1 DEF Service!Next
<1>4. ASSUME NEW e \in Entities, Depart(e) PROVE Service!Next
  BY <1>4, DepartService DEF Service!Next
<1>5. CASE Process
  <2>1. SkipSlot \/ TickSlot \/ ExecuteUnused \/ ProcessEnd
          => UNCHANGED <<mEntity, task, present, created, left>>
    BY DEF SkipSlot, TickSlot, ExecuteUnused, ProcessEnd, pool
  <2>2. ASSUME NEW failed \in BOOLEAN, CallReturn(failed)
        PROVE  Service!Next \/ UNCHANGED Service!vars
    <3>1. itr \in Slots /\ UNCHANGED <<present, created, left>> /\ EndExecute(failed)
      BY <2>2, CallReturnInv DEF CallReturn
    <3>2. CASE TerminateSlots({itr})
      BY <3>1, <3>2, TerminateService
    <3>3. CASE UNCHANGED <<mEntity, task>>
      BY <1>1, <3>1, <3>3
    <3>4. QED
      BY <3>1, <3>2, <3>3 DEF EndExecute
  <2>3. QED
    BY <1>1, <1>5, <2>1, <2>2, CallService DEF Process
<1>6. CASE Deinitialize
  <2>1. Bindings' = {}
    BY <1>6 DEF Deinitialize, TerminateSlots, Bindings
  <2>2. Service!Restart
    BY <1>6, <2>1 DEF Deinitialize, Service!Restart, Bindings, Binding
  <2>3. QED
    BY <2>2 DEF Service!Next
<1>7. CASE ProcessFirst \/ (\E d \in Deltas : ProcessBegin(d)) \/ Initialize \/ UNCHANGED vars
  BY <1>1, <1>7 DEF ProcessFirst, ProcessBegin, Initialize, vars, pool
<1>8. QED
  BY <1>2, <1>3, <1>4, <1>5, <1>6, <1>7 DEF Next

(* Every behaviour of the pool is one TaskService allows: no task is called*)
(* after its end or the end of its entity, or more often than it may be,   *)
(* though Execute and the scripts know slots only.                         *)
THEOREM TaskImplementation == Spec => KeepsService
BY TaskInvariance, InitService, NextService, PTL DEF Spec, KeepsService, Service!Spec

(* What the service says of tasks is enough for the promise about entities.*)
Bound == {mEntity[s] : s \in Slots} \ {Null}

BoundOf(B) == {b.entity : b \in B}

LEMMA BoundIsBindings == Bound = BoundOf(Bindings)
<1>1. ASSUME NEW x \in Bound PROVE x \in BoundOf(Bindings)
  <2>1. PICK s \in Slots : mEntity[s] = x /\ x # Null
    BY DEF Bound
  <2>2. Binding(s) \in Bindings /\ Binding(s).entity = x
    BY <2>1 DEF Bindings, Binding
  <2>3. QED
    BY <2>2 DEF BoundOf
<1>2. ASSUME NEW x \in BoundOf(Bindings) PROVE x \in Bound
  <2>1. PICK b \in Bindings : b.entity = x
    BY DEF BoundOf
  <2>2. PICK s \in Slots : mEntity[s] # Null /\ b = Binding(s)
    BY DEF Bindings
  <2>3. QED
    BY <2>1, <2>2 DEF Bound, Binding
<1>3. QED
  BY <1>1, <1>2

LEMMA BoundIsBindingsNext == Bound' = BoundOf(Bindings')
<1>1. ASSUME NEW x \in Bound' PROVE x \in BoundOf(Bindings')
  <2>1. PICK s \in Slots : mEntity'[s] = x /\ x # Null
    BY DEF Bound
  <2>2. Binding(s)' \in Bindings' /\ Binding(s)'.entity = x
    BY <2>1 DEF Bindings, Binding
  <2>3. QED
    BY <2>2 DEF BoundOf
<1>2. ASSUME NEW x \in BoundOf(Bindings') PROVE x \in Bound'
  <2>1. PICK b \in Bindings' : b.entity = x
    BY DEF BoundOf
  <2>2. PICK s \in Slots : mEntity'[s] # Null /\ b = Binding(s)'
    BY DEF Bindings
  <2>3. QED
    BY <2>1, <2>2 DEF Bound, Binding
<1>3. QED
  BY <1>1, <1>2

LEMMA NextPromise ==
  IInv /\ [Service!Next]_(Service!vars) => [Promise!Next]_(Promise!vars)
<1> SUFFICES ASSUME IInv, Service!Next \/ UNCHANGED Service!vars
             PROVE  Promise!Next \/ UNCHANGED Promise!vars
  OBVIOUS
<1>1. Bound = BoundOf(Bindings) /\ Bound' = BoundOf(Bindings')
  BY BoundIsBindings, BoundIsBindingsNext
<1>2. CASE UNCHANGED <<present, Bindings>>
  BY <1>1, <1>2 DEF Promise!vars, Bound
<1>3. ASSUME NEW e \in Entities, Service!Arrive(e) PROVE Promise!Next
  <2>1. Bindings' = Bindings
    BY <1>3 DEF Service!Arrive, Bindings, Binding
  <2>2. Promise!Arrive(e)
    BY <1>1, <1>3, <2>1 DEF Service!Arrive, Promise!Arrive, Bound
  <2>3. QED
    BY <2>2 DEF Promise!Next
<1>4. ASSUME NEW e \in Entities, Service!Depart(e) PROVE Promise!Next
  <2>1. Bindings' = {b \in Bindings : b.entity # e}
    BY <1>4 DEF Service!Depart, Bindings, Binding
  <2>2. Bound' = Bound \ {e}
    BY <1>1, <2>1 DEF BoundOf
  <2>3. Promise!Depart(e)
    BY <1>4, <2>2 DEF Service!Depart, Promise!Depart, Bound
  <2>4. QED
    BY <2>3 DEF Promise!Next
<1>5. ASSUME NEW e \in Entities, NEW t \in Tasks, NEW q \in {Limit(n) : n \in Iterations},
             Service!Start(t, e, q)
      PROVE  Promise!Next
  <2>1. Bindings' = Bindings \cup {[task |-> t, entity |-> e]}
    BY <1>5 DEF Service!Start, Bindings, Binding
  <2>2. Bound' = Bound \cup {e}
    <3> DEFINE n == [task |-> t, entity |-> e]
    <3>1. n.entity = e
      OBVIOUS
    <3> HIDE DEF n
    <3>2. Bindings' = Bindings \cup {n}
      BY <2>1 DEF n
    <3>3. QED
      BY <1>1, <3>1, <3>2 DEF BoundOf
  <2>3. Promise!Bind(e)
    BY <1>5, <2>2 DEF Service!Start, Promise!Bind, Bound
  <2>4. QED
    BY <2>3 DEF Promise!Next
<1>6. ASSUME NEW b \in Bindings,
             \/ \E q \in {Limit(n) : n \in Iterations} : Service!SetQuota(b, q)
             \/ Service!Call(b)
      PROVE  UNCHANGED <<present, Bindings>>
  BY <1>6 DEF Service!SetQuota, Service!Call, Bindings, Binding
<1>7. ASSUME NEW b \in Bindings, Service!Stop(b)
      PROVE  Promise!Next \/ UNCHANGED Promise!vars
  <2>1. Bindings' = Bindings \ {b} /\ present' = present
    BY <1>7 DEF Service!Stop, Bindings, Binding
  <2>2. CASE Bound' = Bound
    BY <2>1, <2>2 DEF Promise!vars, Bound
  <2>3. CASE Bound' = Bound \ {b.entity}
    <3>1. PICK s \in Slots : mEntity[s] # Null /\ b = Binding(s)
      BY DEF Bindings
    <3>2. PICK e \in Entities : e = b.entity
      BY <3>1 DEF Binding, IInv, TypeOK
    <3>3. Promise!Unbind(e)
      BY <2>1, <2>3, <3>2 DEF Promise!Unbind, Bound
    <3>4. QED
      BY <3>3 DEF Promise!Next
  <2>4. QED
    BY <1>1, <2>1, <2>2, <2>3 DEF BoundOf
<1>8. CASE Service!Restart
  <2>1. Bindings' = {} /\ present' = present
    BY <1>8 DEF Service!Restart, Bindings, Binding
  <2>2. Promise!Clear
    BY <1>1, <2>1 DEF BoundOf, Promise!Clear, Bound
  <2>3. QED
    BY <2>2 DEF Promise!Next
<1>9. CASE UNCHANGED Service!vars
  BY <1>2, <1>9 DEF Service!vars, Bindings, Binding
<1>10. QED
  BY <1>2, <1>3, <1>4, <1>5, <1>6, <1>7, <1>8, <1>9 DEF Service!Next, Bindings, Binding

(* The pool keeps its half of the promise EntityPool relies on: tasks are  *)
(* bound only to entities that are there and go with them in one step.     *)
THEOREM EntitiesKept == Spec => KeepsEntities
<1>1. Init => Promise!Init
  BY DEF Init, Promise!Init
<1>2. QED
  BY <1>1, TaskInvariance, NextService, NextPromise, PTL DEF Spec, KeepsEntities, Promise!Spec
=============================================================================
