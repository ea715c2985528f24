----------------------------- MODULE EntityPool ------------------------------
(***************************************************************************)
(* The blips the plug-in knows of (source/CoreEntity.cpp, CoreInst.cpp,    *)
(* CoreEvents.cpp); checkpoints, key binds, objects, pickups and vehicles  *)
(* are kept by the same code in their own containers.                      *)
(*                                                                         *)
(* An entity lives twice: on the server, and as an instance of m_Blips     *)
(* with a script object, its handle.  Allocating or destroying an instance *)
(* emits an event, and so does every change the server reports.  All of it *)
(* is one thread, but a listener may create and destroy entities too, so   *)
(* an operation is suspended in the middle while others run to the end.    *)
(* The suspended calls are the frames of `stack`, innermost first; a step  *)
(* is the code between two emissions or calls to the server.               *)
(*                                                                         *)
(* The server is external.  The code relies on it to report an entity it   *)
(* creates while it exists, and one it deletes while it still exists, from *)
(* within the call that makes the change (CoreEntity.cpp:552,              *)
(* CoreInst.cpp:60).  Other plug-ins act between two callbacks.            *)
(*                                                                         *)
(* Left out: the attributes of an entity, the payloads of events, the      *)
(* events a script emits itself (Custom), and the tasks bound to an entity *)
(* but for whether there are any; TaskPool has the rest of them.           *)
(***************************************************************************)
EXTENDS Integers, Sequences

CONSTANTS
  PoolSize,   (* SQMOD_BLIP_POOL: identifiers are below it                *)
  Handles,    (* script objects; one that no longer works may stand for a
                 new one                                                  *)
  Null,       (* nullptr                                                  *)
  MaxStack    (* bound of the model: frames when a listener calls back    *)

ASSUME EntityAssumption ==
  /\ PoolSize \in Nat
  /\ Null \notin Handles
  /\ MaxStack \in Nat

VARIABLES
  mID,        (* per instance: its identifier, or -1 if not allocated     *)
  mFlags,     (* per instance: ENF_OWNED and ENF_LOCKED                   *)
  mInst,      (* per instance: its handle                                 *)
  m_ID,       (* per handle: the instance it works on, or -1              *)
  tasks,      (* the identifiers tasks are bound to                       *)
  server,     (* per identifier: "none", "exists", "deleting"             *)
  ours,       (* the entities of the server the plug-in has created       *)
  stack,      (* the calls in progress, innermost first                   *)
  undefined   (* whether a released signal has been used                  *)

pool == <<mID, mFlags, mInst, m_ID, tasks>>
vars == <<pool, server, ours, stack, undefined>>

Ids == 0 .. PoolSize - 1

(* ENF_OWNED: the plug-in created the entity and deletes it with its       *)
(* instance.  ENF_LOCKED: the deletion is in progress.                     *)
Flags == {"OWNED", "LOCKED"}

IsValid(i) == mID[i] # -1

-----------------------------------------------------------------------------
(* Calls in progress.  `flag` is an argument of the call: `destroy`,       *)
(* `is_deleted`, or whether this call to the server deletes the entity.    *)

Emissions == {"Created", "DestroyedOwn", "DestroyedFreed", "DestroyedAll",
              "EntityPool"}
Calls == Emissions \cup
  {"New", "NewReturn", "Release", "Delete", "Pool", "ServerDelete",
   "Import", "Cleanup"}

Frames == [fn : Calls, id : 0 .. PoolSize, flag : BOOLEAN]

(* `rest` with one more call.                                              *)
Call(fn, i, flag, rest) == <<[fn |-> fn, id |-> i, flag |-> flag]>> \o rest

Running == IF stack = <<>> THEN "Idle" ELSE Head(stack).fn

In(fn) == ~undefined /\ Running = fn

(* Script code runs: a listener, or a callback of the server's that has    *)
(* nothing to do with the pool.                                            *)
ScriptRuns == ~undefined /\ Running \in Emissions \cup {"Idle"}

(* The same, within the bound on nested calls.                             *)
ScriptCalls == ScriptRuns /\ Len(stack) <= MaxStack

Deletes(i) == \E k \in DOMAIN stack :
                stack[k].fn = "Delete" /\ stack[k].id = i /\ stack[k].flag

-----------------------------------------------------------------------------
(* The functions of the pool, up to their first emission; `rest` is what   *)
(* to return to.  A definition whose name ends in Nothing, KeepsFlags,     *)
(* Owned or Locked is the one after it with a slip, for the runs that show *)
(* which property notices.                                                 *)

(* CleanupTasks: with an instance go the tasks bound to its identifier.    *)
CleanupNothing(i) == tasks' = tasks
CleanupTasks(i) == tasks' = tasks \ {i}

(* A handle whose entity is gone no longer works.                          *)
UnbindNothing(i) == m_ID' = m_ID
Unbind(i) == m_ID' = [h \in Handles |-> IF h = mInst[i] THEN -1 ELSE m_ID[h]]

(* What a new instance owns, and what a creation has to make up for when   *)
(* its report has made the instance before it.                             *)
AllocOwned(i, owned) == mFlags[i] \cup {"OWNED"}
AllocFlags(i, owned) ==
  IF owned THEN mFlags[i] \cup {"OWNED"} ELSE mFlags[i] \ {"OWNED"}

NewKeepsFlags(i) == mFlags[i]
NewFlags(i) == IF IsValid(i) THEN mFlags[i] \cup {"OWNED"} ELSE mFlags[i]

(* AllocBlip: a new handle, unless the instance is allocated already.      *)
Alloc(i, owned, rest) ==
  IF IsValid(i)
  THEN /\ stack' = rest
       /\ UNCHANGED pool
  ELSE \E h \in Handles :
         /\ m_ID[h] = -1
         /\ m_ID' = [m_ID EXCEPT ![h] = i]
         /\ mInst' = [mInst EXCEPT ![i] = h]
         /\ mID' = [mID EXCEPT ![i] = i]
         /\ mFlags' = [mFlags EXCEPT ![i] = AllocFlags(i, owned)]
         /\ stack' = Call("Created", i, FALSE, rest)
         /\ UNCHANGED tasks

(* BlipInst::Destroy: a valid instance is announced before it is released. *)
Destroy(i, destroy, rest) ==
  stack' = Call(IF IsValid(i) THEN "DestroyedOwn" ELSE "Release", i, destroy, rest)

(* DeallocBlip: not what the server is being asked to delete.              *)
DeallocLocked(i, destroy, rest) ==
  IF IsValid(i) THEN Destroy(i, destroy, rest) ELSE stack' = rest
Dealloc(i, destroy, rest) ==
  IF IsValid(i) /\ "LOCKED" \notin mFlags[i]
  THEN Destroy(i, destroy, rest)
  ELSE stack' = rest

(* The signal of an instance is dropped: an emission of it that is in      *)
(* progress walks memory that may be gone.                                 *)
DropEvents(i, rest) ==
  [k \in DOMAIN rest |->
     IF rest[k].fn = "DestroyedOwn" /\ rest[k].id = i
     THEN [rest[k] EXCEPT !.fn = "DestroyedFreed"] ELSE rest[k]]

-----------------------------------------------------------------------------
(* The server and the scripts are started; other plug-ins may have created *)
(* entities, which are imported first.                                     *)
Init ==
  /\ mID = [i \in Ids |-> -1]
  /\ mFlags = [i \in Ids |-> {}]
  /\ mInst = [i \in Ids |-> Null]
  /\ m_ID = [h \in Handles |-> -1]
  /\ tasks = {}
  /\ server \in [Ids -> {"none", "exists"}]
  /\ ours = {}
  /\ stack = Call("Import", 0, FALSE, <<>>)
  /\ undefined = FALSE

(* ImportBlips: one turn of the loop.                                      *)
Import ==
  /\ In("Import")
  /\ LET i    == Head(stack).id
         rest == Call("Import", i + 1, FALSE, Tail(stack))
     IN \/ /\ i = PoolSize
           /\ stack' = Tail(stack)
           /\ UNCHANGED pool
        \/ /\ i # PoolSize
           /\ IF server[i] # "none" THEN Alloc(i, FALSE, rest)
              ELSE stack' = rest /\ UNCHANGED pool
  /\ UNCHANGED <<server, ours, undefined>>

(* NewBlip: the server creates an entity, and reports it or not.           *)
New(i, reported) ==
  /\ ScriptCalls
  /\ server[i] = "none"
  /\ server' = [server EXCEPT ![i] = "exists"]
  /\ ours' = ours \cup {i}
  /\ LET rest == Call("New", i, FALSE, stack)
     IN stack' = IF reported THEN Call("Pool", i, FALSE, rest) ELSE rest
  /\ UNCHANGED <<pool, undefined>>

NewAlloc ==
  /\ In("New")
  /\ LET i == Head(stack).id
     IN Alloc(i, TRUE, Call("NewReturn", i, FALSE, Tail(stack)))
  /\ UNCHANGED <<server, ours, undefined>>

NewReturn ==
  /\ In("NewReturn")
  /\ LET i == Head(stack).id
     IN mFlags' = [mFlags EXCEPT ![i] = NewFlags(i)]
  /\ stack' = Tail(stack)
  /\ UNCHANGED <<mID, mInst, m_ID, tasks, server, ours, undefined>>

(* CBlip::Destroy: a handle that works deletes its entity.                 *)
DestroyHandle(h) ==
  /\ ScriptCalls
  /\ m_ID[h] # -1
  /\ Dealloc(m_ID[h], TRUE, stack)
  /\ UNCHANGED <<pool, server, ours, undefined>>

(* A slip: Validate is forgotten.                                          *)
MakeTaskUnchecked(h) ==
  /\ ScriptRuns
  /\ tasks' = tasks \cup {m_ID[h]}
  /\ UNCHANGED <<mID, mFlags, mInst, m_ID, server, ours, stack, undefined>>

(* MakeTask: a handle that works gets a task.                              *)
MakeTask(h) ==
  /\ ScriptRuns
  /\ m_ID[h] # -1
  /\ tasks' = tasks \cup {m_ID[h]}
  /\ UNCHANGED <<mID, mFlags, mInst, m_ID, server, ours, stack, undefined>>

(* The last task of an entity ends: it is dropped or terminated by a       *)
(* script, or has been run as often as it was to be.                       *)
TasksEnd(i) ==
  /\ ScriptRuns
  /\ i \in tasks
  /\ tasks' = tasks \ {i}
  /\ UNCHANGED <<mID, mFlags, mInst, m_ID, server, ours, stack, undefined>>

(* EmitEntityPool: the server has created or deletes an entity.  A blip    *)
(* that is deleted and not allocated takes the branch of the created ones. *)
Pool ==
  /\ In("Pool")
  /\ LET i       == Head(stack).id
         deleted == Head(stack).flag
         rest    == Call("EntityPool", i, deleted, Tail(stack))
     IN \/ /\ IsValid(i) /\ deleted
           /\ Dealloc(i, FALSE, rest)
           /\ UNCHANGED pool
        \/ /\ IsValid(i) /\ ~deleted
           /\ stack' = rest
           /\ UNCHANGED pool
        \/ /\ ~IsValid(i)
           /\ Alloc(i, FALSE, rest)
  /\ UNCHANGED <<server, ours, undefined>>

(* BlipInst::Destroy after the event: the handle and the tasks go, then,   *)
(* perhaps, the entity.  The server refuses what it has not, and reports   *)
(* the deletion or not.                                                    *)
Release ==
  /\ In("Release")
  /\ LET i       == Head(stack).id
         destroy == Head(stack).flag /\ IsValid(i) /\ "OWNED" \in mFlags[i]
         known   == server[i] = "exists"
         rest    == Call("Delete", i, destroy /\ known, Tail(stack))
     IN /\ Unbind(i)
        /\ mInst' = [mInst EXCEPT ![i] = Null]
        /\ CleanupTasks(mID[i])
        /\ mFlags' = [mFlags EXCEPT ![i] = IF destroy THEN @ \cup {"LOCKED"} ELSE @]
        /\ server' = IF destroy /\ known THEN [server EXCEPT ![i] = "deleting"] ELSE server
        /\ \/ stack' = rest
           \/ destroy /\ known /\ stack' = Call("Pool", i, TRUE, rest)
  /\ UNCHANGED <<mID, ours, undefined>>

(* The end of BlipInst::Destroy: ResetInstance and DropEvents.             *)
Delete ==
  /\ In("Delete")
  /\ LET i == Head(stack).id
     IN /\ mID' = [mID EXCEPT ![i] = -1]
        /\ mFlags' = [mFlags EXCEPT ![i] = {}]
        /\ stack' = DropEvents(i, Tail(stack))
        /\ IF Head(stack).flag
           THEN server' = [server EXCEPT ![i] = "none"] /\ ours' = ours \ {i}
           ELSE UNCHANGED <<server, ours>>
  /\ UNCHANGED <<mInst, m_ID, tasks, undefined>>

-----------------------------------------------------------------------------
(* The listeners of an emission have been called, or one of them failed.   *)

Returns(fn, rest) ==
  /\ In(fn)
  /\ stack' = rest
  /\ UNCHANGED <<pool, server, ours, undefined>>

CreatedReturns == Returns("Created", Tail(stack))

(* The exception leaves AllocBlip and its caller: NewBlip, whose script it *)
(* reaches, OnEntityPoolChange, which catches it, or Execute.              *)
CreatedThrows == Returns("Created", SubSeq(stack, 3, Len(stack)))

(* EmitBlipDestroyed: the signal of the instance, then that of all blips.  *)
(* Destroy goes on after an exception.                                     *)
DestroyedOwnReturns ==
  Returns("DestroyedOwn", Call("DestroyedAll", Head(stack).id, Head(stack).flag, Tail(stack)))

DestroyedAllReturns ==
  Returns("DestroyedAll", Call("Release", Head(stack).id, Head(stack).flag, Tail(stack)))

DestroyedThrows ==
  \E fn \in {"DestroyedOwn", "DestroyedFreed"} :
    Returns(fn, Call("Release", Head(stack).id, Head(stack).flag, Tail(stack)))

(* The signal was dropped while it was emitted.  If a script still holds   *)
(* it, it has no slots left; otherwise it has been freed.                  *)
DestroyedFreedReturns ==
  \/ Returns("DestroyedFreed",
             Call("DestroyedAll", Head(stack).id, Head(stack).flag, Tail(stack)))
  \/ /\ In("DestroyedFreed")
     /\ undefined' = TRUE
     /\ UNCHANGED <<pool, server, ours, stack>>

EntityPoolReturns == Returns("EntityPool", Tail(stack))

-----------------------------------------------------------------------------
(* Other plug-ins, between two callbacks of this one.                      *)

ServerCreates(i) ==
  /\ In("Idle")
  /\ server[i] = "none"
  /\ server' = [server EXCEPT ![i] = "exists"]
  /\ stack' = Call("Pool", i, FALSE, <<>>)
  /\ UNCHANGED <<pool, ours, undefined>>

ServerDeletes(i) ==
  /\ In("Idle")
  /\ server[i] = "exists"
  /\ server' = [server EXCEPT ![i] = "deleting"]
  /\ stack' = Call("Pool", i, TRUE, Call("ServerDelete", i, TRUE, <<>>))
  /\ UNCHANGED <<pool, ours, undefined>>

ServerDeleted ==
  /\ In("ServerDelete")
  /\ LET i == Head(stack).id
     IN /\ server' = [server EXCEPT ![i] = "none"]
        /\ ours' = ours \ {i}
  /\ stack' = Tail(stack)
  /\ UNCHANGED <<pool, undefined>>

-----------------------------------------------------------------------------
(* Terminate, as Reload calls it: every instance in turn is destroyed.     *)
Terminate ==
  /\ In("Idle")
  /\ stack' = Call("Cleanup", 0, TRUE, <<>>)
  /\ UNCHANGED <<pool, server, ours, undefined>>

CleanupNext ==
  /\ In("Cleanup")
  /\ LET i == Head(stack).id
     IN /\ i # PoolSize
        /\ Destroy(i, TRUE, Call("Cleanup", i + 1, TRUE, <<>>))
  /\ UNCHANGED <<pool, server, ours, undefined>>

(* TerminateTasks and the destructors of the instances, when the scripts   *)
(* and the signals are gone: an instance that is valid would emit one.     *)
(* Otherwise the scripts are executed again.                               *)
CleanupEnd ==
  /\ In("Cleanup")
  /\ Head(stack).id = PoolSize
  /\ tasks' = {}
  /\ undefined' = \E i \in Ids : IsValid(i)
  /\ stack' = Call("Import", 0, FALSE, <<>>)
  /\ UNCHANGED <<mID, mFlags, mInst, m_ID, server, ours>>

Next ==
  \/ Import
  \/ \E i \in Ids :
       \/ \E reported \in BOOLEAN : New(i, reported)
       \/ ServerCreates(i)
       \/ ServerDeletes(i)
       \/ TasksEnd(i)
  \/ NewAlloc
  \/ NewReturn
  \/ \E h \in Handles : DestroyHandle(h) \/ MakeTask(h)
  \/ Pool
  \/ Release
  \/ Delete
  \/ CreatedReturns
  \/ CreatedThrows
  \/ DestroyedOwnReturns
  \/ DestroyedAllReturns
  \/ DestroyedThrows
  \/ DestroyedFreedReturns
  \/ EntityPoolReturns
  \/ ServerDeleted
  \/ Terminate
  \/ CleanupNext
  \/ CleanupEnd

Spec == Init /\ [][Next]_vars

-----------------------------------------------------------------------------
(* Properties.                                                             *)

TypeOK ==
  /\ mID \in [Ids -> Ids \cup {-1}]
  /\ mFlags \in [Ids -> SUBSET Flags]
  /\ mInst \in [Ids -> Handles \cup {Null}]
  /\ m_ID \in [Handles -> Ids \cup {-1}]
  /\ tasks \subseteq Ids
  /\ server \in [Ids -> {"none", "exists", "deleting"}]
  /\ ours \subseteq Ids
  /\ stack \in Seq(Frames)
  /\ undefined \in BOOLEAN

(* A handle that passes Validate works on an allocated instance that knows *)
(* this handle: no script holds a handle to an entity that is gone, or     *)
(* another handle than the pool has.                                       *)
HandleBinding ==
  \A h \in Handles : m_ID[h] # -1 => mID[m_ID[h]] = m_ID[h] /\ mInst[m_ID[h]] = h

(* A task never outlives the entity it is bound to, whatever the listeners *)
(* of its destruction do (CleanupTasks comes after them).                  *)
TasksHaveEntity == \A i \in tasks : mInst[i] # Null

(* The plug-in asks the server to delete only entities it has created, not *)
(* one another plug-in has put in the same place.                          *)
OnlyOwnDeleted == \A i \in Ids : Deletes(i) => i \in ours

(* While the plug-in has an entity deleted, the report of the deletion     *)
(* destroys nothing a second time (ENF_LOCKED).                            *)
DeletesQuietly ==
  \A j, k \in DOMAIN stack :
    j < k /\ stack[k].fn = "Delete" /\ stack[j].id = stack[k].id
      => stack[j].fn \in {"Pool", "EntityPool"}

(* When no call is in progress, every entity the plug-in has created is in *)
(* the pool and owned, so that the next reload will delete it.             *)
OwnedAreKept ==
  stack = <<>> => \A i \in ours : IsValid(i) /\ "OWNED" \in mFlags[i]

(* The invariant the proofs are by induction on.  An instance and its      *)
(* handle know each other.  While a deletion is pending, the server has not*)
(* finished it; if Destroy asked for it, the instance is valid, locked and *)
(* without a handle, so that nothing allocates or destroys it.             *)
HandleKept == \A i \in Ids : mInst[i] # Null => mID[i] = i /\ m_ID[mInst[i]] = i

Deleting(f) == f.fn = "ServerDelete" \/ (f.fn = "Delete" /\ f.flag)

DeletionPending(f) ==
  /\ Deleting(f) => server[f.id] = "deleting"
  /\ f.fn = "Delete" => mInst[f.id] = Null
  /\ f.fn = "Delete" /\ f.flag => IsValid(f.id) /\ "LOCKED" \in mFlags[f.id]

(* What call f may be in progress within call g: no entity is deleted by   *)
(* both, only a report concerns the entity g deletes, a Destroy that       *)
(* deletes none calls nothing, and nothing calls for an import.            *)
Within(f, g) ==
  /\ f.fn # "Import"
  /\ Deleting(f) /\ Deleting(g) => f.id # g.id
  /\ g.fn = "Delete" /\ f.id = g.id => f.fn \in {"Pool", "EntityPool"}
  /\ g.fn = "Delete" => g.flag

Nested(s) == \A j, k \in DOMAIN s : j < k => Within(s[j], s[k])

(* A call is about an identifier of the pool, but for the loops over it.   *)
InPool(f) == f.fn \notin {"Import", "Cleanup"} => f.id \in Ids

CallsOf(s) == {s[k] : k \in DOMAIN s}

IInv ==
  /\ TypeOK
  /\ HandleBinding
  /\ HandleKept
  /\ TasksHaveEntity
  /\ Nested(stack)
  /\ \A f \in CallsOf(stack) : InPool(f) /\ DeletionPending(f)

(* The pool keeps its promise to the tasks: an entity scripts can reach    *)
(* goes only together with what is bound to it, in one step, and nothing   *)
(* is bound to one that is not there, however many creations and           *)
(* destructions listeners have nested in each other.                       *)
Promise == INSTANCE EntityService WITH
  Entities <- Ids,
  present  <- {i \in Ids : mInst[i] # Null},
  bound    <- tasks

KeepsPromise == Promise!Spec

(* When no call is in progress, every allocated instance has an entity on  *)
(* the server: the branch that allocates is that of an entity "that we're  *)
(* trying to create" (CoreEvents.cpp:1068), "that we're trying to delete"  *)
(* that of the other.                                                      *)
PoolOnServer == stack = <<>> => \A i \in Ids : IsValid(i) => server[i] = "exists"

-----------------------------------------------------------------------------
(* What makes OnlyOwnDeleted and OwnedAreKept inductive.                   *)

(* The destruction of an instance whose entity the server is deleting.     *)
Reported(f) ==
  \/ f.fn = "Pool" /\ f.flag
  \/ f.fn \in {"DestroyedOwn", "DestroyedFreed", "DestroyedAll", "Release"} /\ ~f.flag

(* A creation is not of what is being created or deleted further out, and  *)
(* the server deletes nothing that it has reported as deleted already; the *)
(* loop over the pool and a deletion by others are outermost.              *)
Apart(f, g) ==
  /\ f.fn \notin {"Cleanup", "ServerDelete"}
  /\ g.fn # "Pool"
  /\ Deleting(f) /\ Reported(g) => f.id # g.id
  /\ f.fn \in {"New", "NewReturn"} /\ (Deleting(g) \/ g.fn = "New") => f.id # g.id

AllApart(s) == \A j, k \in DOMAIN s : j < k => Apart(s[j], s[k])

(* An exception of the listeners of a new instance ends the call it is in. *)
Called(s) ==
  \A k \in DOMAIN s : s[k].fn = "Created" =>
    k + 1 \in DOMAIN s /\ s[k + 1].fn \in {"EntityPool", "NewReturn", "Import"}

Owned(i) == IsValid(i) /\ "OWNED" \in mFlags[i]

Creating(i) == \E f \in CallsOf(stack) : f.fn = "New" /\ f.id = i

(* What a call relies on.                                                  *)
Relies(f) ==
  /\ f.fn = "New" => server[f.id] = "exists" /\ f.id \in ours /\ ~Owned(f.id)
  /\ f.fn = "NewReturn" => /\ server[f.id] # "none" => f.id \in ours
                           /\ IsValid(f.id) => server[f.id] # "none"
  /\ f.fn = "Pool" => server[f.id] # "none"
  /\ Reported(f) => server[f.id] = "deleting"
  /\ f.fn = "Delete" /\ f.flag => "OWNED" \in mFlags[f.id]
  /\ f.fn = "Delete" /\ ~f.flag /\ f.id \in ours => server[f.id] = "deleting" \/ Creating(f.id)

(* The calls that end with the instance being reset.                       *)
Ending(f) ==
  \/ f.fn \in {"DestroyedOwn", "DestroyedFreed", "DestroyedAll", "Release", "Delete"}
  \/ f.fn = "Pool" /\ f.flag

(* An owned instance is of an entity of ours that the server has, and goes *)
(* with it; an entity of ours has one, unless it is being created or       *)
(* deleted.                                                                *)
OwnedWhere(i) ==
  /\ Owned(i) => server[i] # "none" /\ i \in ours
  /\ "LOCKED" \in mFlags[i] => \E f \in CallsOf(stack) : f.fn = "Delete" /\ f.id = i
  /\ server[i] = "deleting" => \E f \in CallsOf(stack) : Deleting(f) /\ f.id = i
  /\ server[i] = "deleting" /\ Owned(i) => \E f \in CallsOf(stack) : Ending(f) /\ f.id = i
  /\ i \in ours => \/ Owned(i) \/ server[i] = "deleting" \/ Creating(i)
                   \/ Running = "NewReturn" /\ Head(stack).id = i /\ IsValid(i)

OwnedInv ==
  /\ IInv
  /\ AllApart(stack) /\ Called(stack)
  /\ \A f \in CallsOf(stack) : Relies(f)
  /\ \A i \in Ids : OwnedWhere(i)
=============================================================================
