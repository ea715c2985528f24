# Verification of the Squirrel plug-in for VC:MP

The plug-in embeds a Squirrel virtual machine in a Vice City Multiplayer server.
The server calls it (frames, players, entities, its own reports), the plug-in
calls the listeners scripts have connected, and scripts call back into the
plug-in. Everything runs on one thread. What makes the code hard is re-entrance:
any call to a script may come back through any operation of the plug-in, also
the one that made the call, and most loops and sequences of the plug-in are
interrupted by such calls. This directory holds TLA+ models of the parts where
that matters, TLC runs on small instances, and TLAPS proofs.

The repository has no behavioural documentation and no tests: what the code is
held to are its own comments and what the code that uses a component relies on.

## Inventory

| Component | State | Operations | Hard behaviour | What makes it correct |
|---|---|---|---|---|
| Routine pool (`Routine.cpp/hpp`) | a fixed array of slots (callback, interval, iterations, suspended, arguments) and their timers | SqRoutine, Terminate, setters, Process each frame, reload | a callback terminates, creates or changes routines, itself included, while Process is in its slot | a routine stays in its slot, is called with its arguments, as often as allowed, and in time |
| Task pool (`Tasks.cpp/hpp`) | as above, with an entity per task | MakeTask, DropTask, FindTask, Process, Cleanup with an entity | as above; the entity goes while its task runs | a task never outlives its entity |
| Signals (`Signal.cpp/hpp`) | per signal an array of slots, the scopes of the emissions in progress | Connect, Disconnect, Lead, Tail, Clear, Emit, Query, Consume, Approve, Request | listeners change the signal that calls them, or emit it again; the array is replaced | an emission calls each slot it owes a call once, in order, and nothing else |
| Signal registry (`Signal.cpp/hpp`) | the signals by the hash of their names, the list of those without | SqCreateSignal, SqSignal, SqRemoveSignal, the destructor, Terminate | a signal is removed while it is emitted; one holds the last reference to another, or to itself | Terminate finds every signal there is, and none of them keeps anything of the old machine |
| Entity pool (`CoreEntity.cpp`, `CoreInst.cpp`, `CoreEvents.cpp`) | an instance per identifier of each kind of entity: flags, handle, signals | Import, New, Destroy, reports of the server, clean-up | every operation emits events in its middle, whose listeners create and destroy entities | a handle works exactly while its entity is there; only owned entities are deleted |
| Players (`CoreEntity.cpp`, `CoreInst.cpp`, `CoreEvents.cpp`, `Entity/Player.cpp`) | an instance per identifier: the last known values, how many changes are to be told, what a kick was for | the server connects, updates and disconnects; scripts kick and track | listeners of an update kick the player, change its values or ask for more changes; identifiers are used again | listeners hear of each change, from the value they know; nothing is left for the next player |
| Core life cycle (`Core.cpp`, `CoreUtils.cpp`, `Main.cpp`) | the virtual machine, the loaded and the pending scripts, flags | Initialize, Execute, Terminate, Reload, LoadScript | scripts load scripts while lists of scripts are walked; a reload is asked for by a script that is running; a step of the start fails | each script runs once, in the order of levels, unless a failing load drops it; every request to reload is answered |
| Command manager (`Command.cpp/hpp`) | per manager a list of commands and the context of the one that runs; per listener its manager and name | Create, Attach, Detach, SetName, Clear, Sort, Run | a command detaches, renames, destroys or runs commands while it runs | a name means one command, a command and its listener agree, the context is that of the command that runs |
| Event dispatch (`CoreEvents.cpp`, `Main.cpp`) | none of its own but what players have | one emission or two per callback of the server, and the answer to a request to reload | that of signals, of players and of reloads | arguments are data |
| Logger, exports, entity bindings, library, registration, buffers, modules | none that matters here, or third-party libraries | | | |

Interactions: `OnServerFrame` runs Process of the routines and of the tasks. The
callbacks of the server reach the entity pool and emit signals. The entity pool
emits signals, cleans up tasks and calls the server, which reports back from
within the call. A reload runs Terminate, which emits, cleans the entity pool,
then terminates routines, tasks, commands and signals and closes the machine.

## Modules

    RoutineService       what a script may rely on when it starts a routine
      RoutinePool        the pool; implements RoutineService
        RoutinePoolProofs
        MCRoutinePool    RoutinePool.cfg, RoutinePoolLive.cfg, RoutinePoolSelf.cfg
    SignalSlots          the slots of a signal and its emissions
        SignalSlotsProofs
        MCSignalSlots    SignalSlots.cfg, SignalSlotsNested.cfg, -Used, -Scopes, -End
    EntityService        what the pools of entities and of tasks promise each other
      EntityPool         instances, handles and the entities of the server; implements
                         EntityService
        EntityPoolProofs
        MCEntityPool     EntityPool.cfg, EntityPoolServer.cfg
    TaskService          what a script may rely on when it starts a task
      TaskPool           the pool; implements TaskService and EntityService
        TaskPoolProofs
        MCTaskPool       TaskPool.cfg
    CoreLifecycle        loading, running and unloading scripts; reloads
      CoreLifecycleProofs
    CommandManager       commands, their managers, listeners and contexts
      CommandManagerProofs
    SignalRegistry       which signals there are, and where
    PlayerPool           players: updates, kicks, who comes and goes
      PlayerPoolProofs
      Plugin             these four side by side
        PluginProofs     and the proofs about SignalRegistry
        MCPlugin         Plugin.cfg

A definition whose comment calls it a slip is a mutated form of the one next to
it; it is used by no specification, only to show that a property notices it.

### RoutinePool

One variable per member of `Instance` and for `s_Intervals`; `m_Slot` is the slot
number in a script's Routine object. A step of Process is one turn of its loop;
an Execute that calls a script is two steps, `CallBegin` and `CallReturn`, and
between them every script operation may run. A script may also run between
frames. What Execute remembers over the call is only its slot, as in the code:
`CallReturn` ends the iteration of whatever is in the slot. Arguments are the
name of the routine they were stored for. `created`, `ended`, `left` are history.

* `OwnSlot`: a living routine is in the slot its object names, and nowhere else.
* `OwnArguments`: no routine finds the arguments of the slot's earlier occupant.
* `NeverOverruns`: a routine bounded to n iterations is called at most n times.
* `KeepsService`: the pool implements RoutineService, where slots and timers do
  not exist: no call after termination, none beyond the limit, no second start.
* `ArmedRuns` (liveness): a routine whose timer runs is called, unless it is
  terminated or suspended first.
* `DestroysItself` is violated: see the findings.

Two routines, two slots, intervals of -1, 0 and 2, up to 2 iterations and frames
of one millisecond (so that a routine is due at the second): enough for a routine
to leave a slot, another to take it in the same callback, and a scan to have
slots on both sides of the one that runs.
SetInterval clips the negative interval, Create does not. The liveness run has
routines without a limit, which are those that could starve for ever, and frames
of 0 and 1 milliseconds.

Fairness (`FairSpec`): the server calls OnServerFrame for ever and a frame, once
begun, goes on (weak fairness of ProcessFirst and Process: there is one thread
and callbacks return); infinitely many frames take a millisecond or more
(strong fairness, because the frames that take less are counted as nothing and
may come in between); and a reload that has begun is completed.

### SignalSlots

The array is a function from positions to slots, a slot a pair of a hash and the
reference the signal holds, since moving a slot clears the one and not the
other. A scope is the iterator, the end, whether it points into an array that
was replaced (`stale`), and for the properties what it still owes (`todo`) and
whether it has been spared the operations its iterators do not survive (`calm`).
Operations translate the loops of RemoveIf, LeadIf and TailIf pass by pass
(`RemovePass`, `LeadPass`, `TailPass`, repeated by `Loop`) and AdjustSlots, with the
calls they make to adjust the innermost scope. Access outside the array
sets `undefined`, and the behaviour ends there.

* `EmitsWhatIsOwed`: as long as an emission is calm, its iterator and its end
  delimit exactly the slots it still owes a call. The comments on the operations
  list what makes an emission no longer calm.
* `RefsAreSlots`: the references held are those in the slots: none is released
  twice or forgotten through removal, swaps and growth (proved; no run checks it).
* `LeadOrder`: in every reachable array, moving matches to the front gives the
  documented order, for every matcher and every option.
* `UsedAreValid`, `ScopesUpdated`, `EndsAtEnd` are violated: see the findings.

Two listeners that may be connected more than once. `SignalSlots.cfg`: three
slots in the signal (the code has 8), growth to a fourth, one
emission: the full array, the array with room and the replaced one all occur.
`SignalSlotsNested.cfg`: two slots, growth to a third, two nested emissions.
Both bounds at once are out of reach of a run of a few minutes.

### EntityPool

The six kinds of entity a plug-in may create are kept by copies of one code; the
model is that of the blips. The calls in progress are frames of `stack`,
innermost first. A step is what the code does between two points where something
else may run: an emission, or a call to the server, which reports changes from
within the call. At an emission, a listener may create, destroy and bind tasks
within the bound on the stack, or fail, and the exception takes the way it takes
in the code. `server` and `ours` say what entities there are and which of them
the plug-in has created.

The server is external. The code relies on it to report an entity while it
exists, from within the call that creates or deletes it ("Just in case it was
created during the notification", "Block the entity pool changes notification
from triggering the destroy event"), so the model reports a deletion before the
identifier is free. Reports of the plug-in's own calls may be missing. Other
plug-ins create and delete entities between two callbacks of this one; one that
reacts to reports by creating entities of its own is not modelled. A reload
begins when no script is running.

* `HandleBinding`: a handle that passes Validate is the one of the allocated
  instance it names.
* `TasksHaveEntity`: no task is bound to an entity that is gone, whatever the
  listeners of its destruction start.
* `OnlyOwnDeleted`: the plug-in deletes only entities it has created.
* `DeletesQuietly`: the report of a deletion the plug-in asked for destroys
  nothing a second time.
* `OwnedAreKept`: when no call is in progress, what the plug-in has created is in
  the pool and owned, though the report may have allocated it as somebody else's
  and listeners may have destroyed it before NewBlip went on.
* `KeepsPromise`: the pool implements EntityService; see TaskPool.
* `PoolOnServer` is violated: see the findings.

Two identifiers, two handles (an instance has at most one, so more are never in
use) and listeners that call back while at most four frames are on the stack:
a creation whose report is being handled by a listener that destroys, whose
listener creates again. With six frames the run no longer ends in minutes; the
runs with two to five agree. A destroyed entity's signal is dropped while it may
be emitted, and instances created late during a clean-up are destroyed when the
signals are gone: both set `undefined`, and the behaviour ends there. Runs that
check this do not check for deadlock for that reason.

### TaskPool

Written as RoutinePool is, one variable per member of `Task` and one step per turn
of the loop of Process. Two things differ in the code. A task has no object of its
own: what scripts hold is the object of the slot (`mSelf`), so `Terminate` and the
setters take a slot, any that scripts have been given (`known`), whoever is in it.
And a task is bound to an entity: `Depart` is the destruction of an instance, whose
last step is `Cleanup`, and it may be the callback of a task of that entity that
destroys it. `Matches` compares what Find really compares.

* `BoundToPresent`: what is in a slot is bound to an entity that is there, though
  Execute does not look.
* `OwnArguments`: no task finds the arguments of the slot's earlier occupant.
* `KeepsService`: the pool implements TaskService, where slots do not exist: no
  call after the end of a task or of its entity, none beyond the limit, and the
  end of an entity is the end of its tasks in the same step.
* `KeepsEntities`: the pool implements EntityService.

The pools of entities and of tasks meet in EntityService: entities come and go,
tasks are bound to those that are there, and an entity that goes takes its tasks
along. EntityPool has that specification with a set of bound entities for the
tasks, where a task may be made at any point where a script runs and may end on
its own (`TasksEnd`); TaskPool has it with entities that come and go whenever a
script runs. Each may therefore stand in for the other. The product of the two,
hundreds of thousands of states each, is out of reach.

Two tasks, two entities, two callbacks, two slots, intervals of 0 and 2, up to 2
iterations, frames of one millisecond, for the reasons given for RoutinePool.

### CoreLifecycle

`pc` is the code that has control or, when it names a signal or a way to run
scripts, the C++ code that waits for script code to return; `job` is on whose
behalf: of the start, of a reload, of the shutdown. `nest` holds the C++ calls
between script code and script code: the path of a script loaded late, or a callback
of the server within a script's call. Initialize, each script it lists, each level of Execute, each of
the two loops of DoScripts, each emission of a stage, Terminate and the end of
every callback are actions; so is everything a script may do meanwhile that this
part looks at: load scripts, get the signals of stages and connect to them, ask for a reload or take it back,
call the server. Every call of a script may fail, and the exception takes the way it
takes in the code: caught by the callback, or not at all from DoReload.

* `RunsOnce`: a script is started once in a life of the machine, and once more for
  each time a LoadScript that failed has dropped it from the list (`dropped`): its own,
  or that of a script that had loaded it, though it has not failed itself.
* `RunningListed`: what a failing LoadScript drops, the last script of the list, is
  never one whose code is still running, though it need not be the one that failed.
* `AllStarted`, `DelayedLast`: all scripts are started when Execute has ended, and
  delayed ones last in their level.
* `IteratorsHold`: the list DoScripts walks by iterators does not change under it,
  because scripts loaded meanwhile are queued; also in the second life.
* `NoneLost`: an accepted script does not get lost between the two lists.
* `NobodyWaitsInVain`: nobody is listening to a stage of loading that is over, but
  through a signal that scripts had before the stage began (`early`). The code locks
  the getter only: to get the signal (`GetLoadEvent`) and to connect to it (`Connect`)
  are two steps, and `obtained` says whose signal scripts refer to.
* `EventsThere`: the events have signals while there is a machine.
* `ReloadAnswered` (liveness): a request to reload is answered or taken back, or
  the plug-in ends.

`MaxLevels` is 2 where the code has 8: queuing in the last level, which nobody
answers, is reached either way. Three paths; the configuration lists none or one
script, which is delayed, as often as it likes, and the level after it has delayed
and other scripts in any order; nested calls to a depth of 2, so that a late script
loads another before it fails; a late script is started at most twice (`MaxStarts`);
scripts get the signal of one stage in a life, whichever (`MaxObtained`): the two stages
have nothing to do with each other. A configuration is not a value of the
model: Initialize lists whichever script comes next (`ListScript`) until it ends
or fails.

Four ends stop the model: refused, unloaded, crashed (an exception nobody catches,
a signal that is not there, or a list that moved under the scripts that are being
loaded from it) and torn (the machine is closed by a callback nested in a script
of it). Properties hold up to there; `ReloadAnswered` counts an end as an answer.

### CommandManager

`m_Commands` is per controller its vector of commands, a command a name and a
strong reference to a listener. To erase a command is to move those behind it
forward and destroy the last place: `Erased` and `Broken` say what that leaves of
the list and of the association of listeners with controllers. `Sort` puts the
commands in any order: nothing here depends on the hashes they are sorted by. Who exists follows
from who refers to it: scripts, commands and contexts. `runs` are the commands
that run within each other, with what the guard of Run remembers.

* `UniqueCommands`: a manager has one command of a name.
* `CommandsAgree`: a command has the name its listener has, and the listener knows
  the manager whose command it is, after any order of attaching, renaming in vain
  and detaching. It excepts listeners given to a manager while another had them
  (`shared`), which the code lets pass: see below.
* `ContextInnermost`: the context of a manager is that of its innermost run.

Two managers, two listeners, two names, two runs within each other, and one listener
at a time that is shared (`MaxShared`; `CommandsAgree` says nothing of those): one
listener behind the other in a list, a name that is taken, and a run of the same
and of another manager within a run.

### SignalRegistry

`s_FreeSignals` says how often a signal is on the list of free ones, whose order
nobody looks at; Terminate goes through its copy, `todo`, in any order.
`keeps` says which other signals the slots and the data of a signal refer to, and
`existing` follows from references: `Dispose` is the destructor of whatever has
lost the last one, of several when one held another; a cycle stays. Terminate goes
through its copy of the list while the signals it clears may destroy others of it, or
themselves: `phase` is undefined then, and the model stops.

* `OneList`: a signal that exists is in the registry or on the list of free ones,
  once, and no other is there.
* `NothingKept`: when the machine is closed no signal refers to objects of it.

Three signals, two names, one emission, and one other signal kept by each: chains
and cycles of three. With no bound on what a signal keeps, the module alone
(207,227 states) satisfies both.

### PlayerPool

An instance has the values listeners were told last, one tracked by a count of
changes (the heading; the position is like it) and one always told (the health;
armour and weapon are like it), its signals, and what a kick was for. A frame of
`calls` is a callback of the server at the emission of a signal, while listeners
run, or at a value it is about to compare. Listeners set values and counts, and
kick players, also the one they are told about: the server reports the kick from
within the call or at any later time at which the player is still there. A reload
destroys the instances one by one and imports whoever is connected by then.

* `OnlineReachable`: between callbacks, who is connected has an instance, a handle
  and signals, and nobody else has.
* `TrackedAsAsked`: a script that asks for n changes is told n, what it asks for
  within a listener included.
* `LastIsTold`: the last known health is the one listeners were told last.
* `KickedFor`: nobody leaves with a header stored for somebody else.

`rest` is the set of the players a reload has still to go through, in order of
their identifiers (`NextOf`), and `history.reasons` all that scripts have kicked
the player for: one of them is what it leaves with.

One player who comes again and again, two values, two headers, counts of none, two
and no limit. Two players do not fit a run; the theorems are about any number.
An update goes on when a listener has kicked its player, and emits a signal that
is gone: `undefined`, where the model stops.

### Plugin

The run sees 169,209 states. The four modules share no variable: what they have in common in the code, script
code that runs, each has in its own form. So each behaviour of Plugin is one of one
module, chosen by `moving`, while the others stay as they were initially; that
shows all the properties of each, and none is a relation between two of them. The
composition is for the single specification with its fairness and not for
interleavings, of which there are none to be had.

Symmetry is over managers, over listeners, and over the scripts the configuration does
not list. Under symmetry, TLC's check of liveness is right only if the formulas it
checks do not tell the values apart, and no step exchanges them: the property and the
fairness conditions speak of the life cycle alone, name no script, and no step of it
leads from a state to the same one with two scripts exchanged.

Fairness: C++ code goes on, as nothing in it waits (weak fairness of
`ExecuteNext`). Script code returns: the server has one thread, which waits for
it. It may do anything any number of times before, and the step that returns from
it is disabled while it has another call in progress, so that takes strong
fairness, of `NestedNext` at each depth and of `ReturnNext`. And the server calls
OnServerFrame again and again, whatever else it calls: strong fairness of
`ServerCalls("Event")`, for other callbacks may come in between.

## Runs

| Run | Expected | Shows |
|---|---|---|
| routines | pass | slots, arguments, limits and RoutineService hold under re-entrance and reload |
| routines_live | pass | a routine whose timer runs is called |
| routine_self_destruct | violation | Execute terminates a routine it has not called |
| signals | pass | moves to the front keep order, in full and growing arrays |
| signals_nested | pass | calm emissions, nested ones included, call what they owe |
| signals_used | violation | m_Used counts slots without a listener |
| signals_scopes | violation | outer emissions are left in a replaced array |
| signals_end | violation | an emission runs past its end |
| entities | pass | handles, tasks and ownership follow the entity; the pool keeps EntityService |
| entities_server | violation | a deletion allocates an instance |
| tasks | pass | tasks end with their entity, arguments and limits hold, the pool keeps TaskService and EntityService |
| plugin | pass | scripts, reloads, commands, the registry of signals and players, each as above |

## Findings

1. Execute destroys "ourself" by slot: a routine a callback put into the slot of
   its own, terminated one is terminated without having been called
   (`DestroysItself`).
2. `m_Used`, "the number of stored slots that are valid", is not reduced when
   slots are removed: the next emission calls null and stops (`UsedAreValid`).
3. AdjustSlots updates "the iterators from current scopes" starting from the
   innermost and going inwards: outer scopes keep the freed array
   (`ScopesUpdated`).
4. Descend counts the slot at the end as part of the emission: removing it moves
   the end before the iterator (`EndsAtEnd`).
5. The report of a deletion of an entity that is not allocated allocates it
   (`PoolOnServer`).

Not checked but met on the way: SetSuspended survives Terminate in its slot and
still uses up iterations; a Destroyed listener that destroys its entity frees the
signal that is being emitted; `Tasks::Find` returns the last match and compares by
the wrong criteria. Other than for Tail, no comment promises otherwise, or the comment
is not about that, for these either:

* Reloads and scripts. Scripts queued by listeners of stages, or beyond the eighth
  level, stay pending for ever. A late script that fails drops the last script of
  the list (`LoadFails`), which is another one when it has loaded some: that one has
  run, but can be loaded and started again in the same life, and the one that failed
  stays listed and cannot be. A script that has kept the signal of a stage may connect
  to it during the emission or after it: the lock is in the getter, so the listener is
  accepted and never called (`Connect`). A reload
  whose Initialize fails leaves a machine and skips the rest of it, where routines
  and tasks are initialised. Exceptions of listeners of ScriptReload and Unload leave
  DoReload and nobody catches them (`ReloadThrows`, `TerminateThrows`), nor those of
  an import in a reload (`StageThrows`). A listener of ServerShutdown that fails
  skips Terminate; one that asks for a reload has OnServerShutdown, which has
  closed the machine, emit a signal that is gone (`ShutdownReturns`). A script that
  asks for a reload and then sends a plug-in command, or kicks a player, may have
  its machine closed under it (`SendPluginCommand`, torn).
* Signals. Against the comment on Tail ("Move all occurrences of the specified slot to
  the back", `Signal.hpp:483`), TailIf takes the slot behind the last one in use for
  the back: what is moved there is out of use, and an empty slot is in use in its
  place. A slot next to the back is exchanged with the front. `Signal::Terminate`
  goes through a copy of the list of free signals, which may hold some that were
  destroyed as others were cleared, and may destroy a signal in its own ClearSlots when
  a listener or the data of it held the last reference (`TerminateFree`).
* Entities. While Terminate destroys instances, a listener may create an entity in
  a place the clean-up is past.
* Commands. `Manager::Attach` takes a listener another manager has (`shared`).
* Players. A player whose kick is by somebody else than a script is told to leave
  with header 0, a timeout. One kicked by a listener of its own update has the
  update emit signals that are gone. Vehicles, other than players, start without
  the last known values, so that the first update tells changes from nothing; the
  second colour is compared with the first.

## What is proved

Every invariant, action property and refinement the passing runs check is proved for
all values of the constants; what is left to TLC is liveness. A proof module has one
lemma per action of its component, which says that the action preserves the
inductive invariant, one that puts them together (`NextInv` and the like), the
theorem that every execution satisfies it, and one theorem per property that
follows. TLC has found each inductive invariant to hold on the instances of the
runs before it was proved; what is proved is the invariant of the
module, not of an instance.

**RoutinePool** (`RoutinePoolProofs`; any numbers of slots and routines and any
intervals, iterations and frame times that `RoutineAssumption` allows):
`TypeCorrect`, `SlotOwnership`, `ArgumentOwnership`, `CallBound`, and
`Implementation`, that every behaviour of the pool is one of RoutineService.

All rest on one inductive invariant, `IInv`. The four invariants above are not
inductive by themselves. `UnusedHasNoArguments` is what Create relies on when it
stores no arguments: it keeps what the free slot has. `SlotGivenOnCreate` ties
the slot number in a Routine object to its creation, so that a fresh routine is
in no slot. `CountWithinLimit` ties the count in the slot to the calls the routine
still has, but for the one that has begun: without it nothing says that a count
reaches zero in time, and that zero is not read as "no limit". `CallInSlot` says
that a callback runs in the slot the scan has reached, though its routine may be
gone. The actions that terminate a slot share `TerminateSlotInv` and
`TerminateService`. The refinement needs `OwnSlot`: to terminate a slot stops one
routine only because no routine is in two.

**EntityPool** (`EntityPoolProofs`; pools of any size, any handles and calls
nested to any depth): `EntityTypeCorrect`, `HandlesBound`, `TasksBound` and
`QuietDeletion`, parts of the invariant of `EntityInvariance`. `HandleBinding`
needs its converse, `HandleKept`: an instance cannot be given away while its
handle works. What may be in progress is the other half. `DeletionPending` says
what holds while a call that deletes an entity is suspended: the server is not
done with it and, if Destroy asked for it, the instance is valid, locked and
without a handle, so that no handle reaches it, no report allocates it and the
report of its deletion leaves it alone. `Nested` says which call may be within
which (`Within`): the one pending deletion of an entity is only ever interrupted
by reports of it. `PromiseKept` shows from the same invariant that the pool
implements EntityService.

`OnlyOwnDeletedHolds` and `OwnedAreKeptHolds` need a second invariant, `OwnedInv`.
That a deletion is of an entity of ours follows from ENF_OWNED, but a flag says
nothing of the entity unless the two come and go together, and between them are
calls to listeners. `OwnedWhere` relates them: an owned instance is of an entity
of ours that the server has; one that the server is deleting has a call in
progress that will reset it (`Ending`); and an entity of ours has an owned
instance unless its creation or deletion is still in progress. `Relies` says what
each suspended call goes on with when its listeners have returned. The one
that takes most is NewBlip: between the creation on the server and the flag that
makes up for it, listeners may destroy the instance the report has allocated,
which deletes nothing as it is not owned, or make other plug-in calls about the
same identifier, but no second creation or deletion (`Apart`), because the server
has the entity all that time. `Called` is about exceptions: one that leaves a
listener of Created ends exactly one more call, which is one of the three that
allocate.

`CallProperties`, `ReturnProperties`, `ThrowProperties` and `DropProperties`, and
for the second invariant `WellPush`, `WellPop`, `TwoPopped` and `WellDrop`, say
once what a call, a return, an exception and a dropped signal do to the stack;
operations that allocate share `AllocInv` and `AllocatedOwned`, those that destroy
`DestroyInv` and `DestroyOwned`. The assumptions are that the size of the pool is a
natural number and that Null is no handle. The proofs hold for what the model
assumes of the server, too: it reports a deletion before the identifier is free.

**TaskPool** (`TaskPoolProofs`; any numbers of slots, tasks and entities and any
intervals, iterations and frame times that `TaskAssumption` allows):
`TaskTypeCorrect`, `TasksBoundToPresent`, `TaskArguments`, `TaskImplementation` (of
TaskService) and `EntitiesKept` (of EntityService). The invariant adds to what is
stated: `OneSlot`, that no task is in two slots, so that to terminate a slot ends one
task; `UnusedHasNoArguments`, which Create relies on; `CountWithinLimit`, that the
count in a slot never exceeds the calls the task has left, but for the one that has
begun; and `CallInSlot`, that the task that runs is in the slot Process has reached,
or in none. `BoundToPresent` needs that Cleanup terminates all slots of an entity,
the running one included, in the step that ends it. With `PromiseKept`, both pools
are shown to keep the specification the other one is checked against.

**CoreLifecycle** (`CoreLifecycleProofs`; any scripts and configurations, any number
of levels, starts and depth of calls): `CoreTypeCorrect`, `RunsOnceHolds`, `RunningListedHolds`,
`AllStartedHolds`, `DelayedLastHolds`, `NobodyWaits`, `EventsThereHolds`, and the
action properties `IteratorsHoldAlways` and `NoneLostEver`. `LoopWhere` is the heart
of the invariant: in each of the two loops of DoScripts it says exactly which scripts
of the list have been started, those of earlier levels and those of this level that
are not due (`Due`). It needs that a path is in the lists once (`ListsDistinct`) and
that what is in neither was started as often as it was dropped (`OnlyListedRan`), which
is never until Execute has ended, as LoadScript only accepts what it does not know.
`ExecuteWhere` says that m_Executed is FALSE from
Terminate to the end of Execute, in the second life as in the first, and `NestWhere`
that no late script is being loaded then: therefore nothing grows the list while
iterators are at it. `RunningListed` needs the order of the list: of two late scripts
whose code runs, the one that was loaded by the other is behind it (`NestOrder`), so
that the last of the list is the one that fails or one that has returned. `StagesLocked`
says which stages are over, and that scripts have the signal of such a stage only from
before it; with `events = m_Events`, InitEvents may look at the table.

**CommandManager** (`CommandManagerProofs`; any managers, listeners, names and runs):
`CommandTypeCorrect`, `UniqueCommandsHold`, `CommandsAgreeHold` and
`ContextInnermostHolds`. `CommandsAgree` is inductive with `UniqueCommands`: to erase
a command breaks the association of one listener, which has no other command.
The context needs `GuardsRemember`: each guard has stored the context its manager had
among the runs before its own, so that what a guard restores is the innermost run
that is left.

**SignalSlots** (`SignalSlotsProofs`; any listeners, matchers and sizes, any number of
slots in use and any depth of emissions): `SlotsTyped`, `ReferencesKept`,
`EmissionsOwed` and `LeadsInOrder`, from the inductive invariant `SlotsInv`. Its parts
are `Counted`, that the references are those in the slots; `Releasable`, that a slot
with a reference has a hash that is not 0, without which Release would forget the
reference, as it looks at the hash (a slot with a hash and no reference is what a
move leaves behind, and occurs); and `Owes`, that the iterator and the end of a calm
scope delimit the slots it still owes a call.

The work is in the loops. `Upwards` is induction on their passes: what holds before
the first and is kept by each holds after the last (a consequence of `LeastOf`, that a
set of naturals has a least member). `RemoveRuns`, `LeadRuns`, `TailRuns` and
`TakeRuns` say that a loop has a state after each pass, which is the pass applied to
the one before. On them rest, for each loop, what a pass keeps and what is so at its
end.

* References. `RemoveDone`: a slot that matches is released in its place, and one
  that is moved over another carries its reference along, which leaves the count of
  the others alone (`SlotDropped`, `SlotMoved`). `LeadDone`, `TailDone`: what a move
  leaves is a permutation of what there was (`RotatedDown`, `RotatedUp`, `Exchanged`,
  `ReorderedCounts`).
* Emissions. `RemovePlaces` and `LeadPlaces` say where each slot is after n passes and
  which positions the scope was told of, `RemoveScopes` and `LeadScopes` what came of
  it. From these follows, for exactly the operations the model calls survivable,
  that the scope delimits what it owes: `OwesBehind` and `OwesBefore` for a removal
  behind the emission's end and before it, `OwesLed` and `OwesPushed` for a move of
  what was called already and of what lies behind the end. That a scope survives no
  move to the back but one that moves nothing is what `TailSound` needs.
* Order. `Sorted` says what the array is after n passes of LeadIf: the matches so far in
  front, in their order or reversed, the others so far behind them, and the rest as
  it was. `SortedHit` and `SortedMiss` carry it over a pass, `OneMoved` is the case in
  which the first match ends the loop. `LeadOrder` is about every state, but its
  proof needs no more than the types: the order is right whatever the array.

The assumption is `SignalAssumption`; that the array has at least one slot is needed,
for an empty one would grow to none.

**SignalRegistry** (in `PluginProofs`; any signals and names, any nesting of
emissions): `RegistryTypeCorrect`, `OneListHolds` and `NothingKeptHolds`. `OnlyExisting`
says that nothing refers to a signal that is gone; `Terminating` that a signal which
exists and is not ahead of Terminate on its copy of the list keeps nothing, so that
nothing is left when it has come to the end, whatever is destroyed on the way, unless
it meets a signal that is gone or destroys the one it clears, where the model stops.

**PlayerPool** (`PlayerPoolProofs`; any players, values, headers and counts):
`PlayerTypeCorrect`, `OnlineReachableHolds`, `TrackedHolds`, `LastIsToldHolds` and
`KickedForHolds`. `CallsWhere` says that within a callback there are only ends of
players; `ResetWhere` that an instance without a player has no signals and nothing
that was asked of it; `OnlineWhere` how instances and connections are related while a
reload imports; `ToldWhere` that a frame which tells a health tells the one history
has as told last; `ReasonWhere` that a header that waits for its player was stored
for that player since it connected.

**Plugin** (`PluginProofs`): `PluginRefines`, that every behaviour of Plugin is a
behaviour of each of the four, so that their theorems are about what `plugin` checks,
and `PluginTypeCorrect`.

The assumptions are those of the modules (`CoreAssumption`, ...), which TLC evaluates on
every run. They only say what the constants are: numbers where they bound or count,
and a Null that is no handle.

Only model-checked: liveness (`ArmedRuns`, `ReloadAnswered`), which is out of the
prover's reach, and the violations under "Findings", which are counterexamples.

## Not modelled

* Conversions, formatting and payloads; the parsing of command lines and of
  arguments; the options of `sqmod.ini`; the contents of what signals carry.
* The bindings of entities that only validate a handle and forward to the server,
  the library for scripts, the logger, buffers, the tables of names and constants:
  code without state that outlives a call, or whose state nothing here reads.
* The optional modules and vendored libraries (SQLite, Sqrat, mongoose, SimpleIni
  and others, under `include`, `external` and `modules`): third-party code, by far most
  of the repository's lines, which the parts modelled here use through a few calls.
* How frames are measured (`Routine.cpp:36`-41): it enters as the milliseconds a
  frame takes. Each frame drops what exceeds whole milliseconds.
* In EntityPool, the Custom events of entities; in PlayerPool, the events of players
  other than those of connecting, leaving and being updated, which emit and keep
  nothing; the updates of vehicles, which have the form of those of players.
* In CommandManager, suspension, attributes, and what handlers do with results.

## Plan

1. Done: RoutineService, RoutinePool, SignalSlots, EntityPool; EntityService,
   TaskService, TaskPool; CoreLifecycle, CommandManager, SignalRegistry, PlayerPool
   and Plugin; the theorems about all of them.
2. Left: the updates of vehicles, as PlayerPool has those of players; the results of
   commands; the modules under `modules`, each with the state it keeps between calls.
