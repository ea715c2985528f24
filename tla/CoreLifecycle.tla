----------------------------- MODULE CoreLifecycle -----------------------------
(***************************************************************************)
(* The life of the scripts (source/Core.cpp, source/Main.cpp): the plug-in *)
(* is initialised and started by the server, loads the scripts of its      *)
(* configuration in levels, signals the stages of loading, answers the     *)
(* callbacks of the server, and at the end of one of them reloads when a   *)
(* script has asked for it: the scripts are unloaded, the virtual machine  *)
(* is closed, and everything begins anew.                                  *)
(*                                                                         *)
(* pc says which C++ code has control or, when it names a way to run       *)
(* scripts or an event, that script code runs on its behalf.  A script may *)
(* load others, connect to stages, ask for a reload and call the server,   *)
(* which calls back in (nest); and it may fail.                            *)
(*                                                                         *)
(* Left out: what the scripts do with entities, routines, tasks, commands  *)
(* and signals, which are modules of their own; the options; the header and*)
(* payload of a reload; m_State, whose part in a reload is that a listener *)
(* of ScriptReload may deny it.                                            *)
(***************************************************************************)
EXTENDS Naturals, FiniteSets, SequencesExt

CONSTANTS
  Paths,      (* the script files                                          *)
  Listed,     (* the scripts sqmod.ini may list: a path and whether the    *)
              (* script is delayed                                         *)
  MaxLevels,  (* how often Execute goes round for scripts that were queued *)
              (* by scripts: 8                                             *)
  MaxNest,    (* bound: how deep scripts are called from scripts           *)
  MaxStarts,  (* bound: how often a script is started in a life of the     *)
              (* machine, when it is loaded late                           *)
  MaxObtained (* bound: of how many stages scripts have the signal         *)

Script == [mPath : Paths, mDelay : BOOLEAN]

Calls  == {"pool", "command"}
Frames == Calls \cup Paths

ASSUME CoreAssumption ==
  /\ MaxLevels \in Nat \ {0}
  /\ MaxNest \in Nat
  /\ MaxStarts \in Nat /\ MaxObtained \in Nat
  /\ Paths \cap Calls = {}
  /\ Listed \subseteq Script

LoadStages == {"PreLoad", "PostLoad"}
Stages     == LoadStages \cup {"Unload"}

VARIABLES
  m_VM,             (* whether there is a virtual machine                  *)
  m_Events,         (* whether there is a table of events                  *)
  events,           (* whether the signals of the events are there         *)
  locked,           (* the stages whose signal scripts get no more         *)
  obtained,         (* the stages of loading whose signal scripts refer to *)
  listening,        (* those whose signal has listeners that were not      *)
                    (* called; Unload is called in any case                *)
  m_Scripts,        (* the loaded scripts                                  *)
  m_PendingScripts, (* those that wait for Execute                         *)
  m_Executed,       (* whether Execute came to its end                     *)
  g_Reload,         (* whether a script has asked for a reload             *)
  job,              (* what pc's code is doing it for: see Jobs            *)
  pc,               (* see Codes and Scripted                              *)
  itr, last,        (* DoScripts: the script it is at, the first of it     *)
  level,            (* Execute: the levels done                            *)
  nest              (* script code within script code: the C++ calls that  *)
                    (* are in between, a path for LoadScript of that file  *)

(* History, of this life of the machine.                                   *)
VARIABLES
  early,            (* the stages whose signal scripts referred to when its*)
                    (* emission began                                      *)
  ran,              (* how often each script was started                   *)
  dropped           (* how often a failing LoadScript took it off the list *)

machine == <<m_VM, m_Events, events, locked, obtained, listening, early>>
scripts == <<m_Scripts, m_PendingScripts, m_Executed, ran, dropped>>
loop    == <<itr, last, level>>
coreVars == <<machine, scripts, loop, g_Reload, job, pc, nest>>

(* "boot" is VcmpPluginInit and OnServerInitialise; "reload" is the end of *)
(* a callback, "last" that of OnServerShutdown, and both hold the lock     *)
(* CCL_RELOAD_SCRIPTS.                                                     *)
Jobs == {"none", "boot", "reload", "last", "shutdown"}

Reloading == job \in {"reload", "last"}

(* The plug-in comes to an end: refused by itself, unloaded, crashed on a  *)
(* signal that is not there or an exception nobody catches, or torn: the   *)
(* machine was closed while it ran script code.                            *)
Ends  == {"refused", "unloaded", "crashed", "torn"}
Codes == {"initialize", "listing", "ready", "execute", "levels", "compile", "delayed",
          "server"}

Scripted == {"immediate", "deferred", "ScriptLoaded", "Import", "Startup", "Event",
             "QuietEvent", "ScriptReload", "Cleanup", "Shutdown"} \cup Stages

Never == [p \in Paths |-> 0]

CoreInit ==
  /\ m_VM = FALSE /\ m_Events = FALSE /\ events = FALSE
  /\ locked = {} /\ obtained = {} /\ listening = {} /\ early = {}
  /\ m_Scripts = <<>> /\ m_PendingScripts = <<>>
  /\ m_Executed = FALSE
  /\ g_Reload = FALSE /\ job = "boot" /\ pc = "initialize"
  /\ itr = 0 /\ last = 0 /\ level = 0 /\ nest = <<>>
  /\ ran = Never /\ dropped = Never

PathsOf(s) == {s[i].mPath : i \in DOMAIN s}

Known == PathsOf(m_Scripts) \cup PathsOf(m_PendingScripts)

Start(p) == ran' = [ran EXCEPT ![p] = @ + 1]
Drop(p)  == dropped' = [dropped EXCEPT ![p] = @ + 1]

(* Emission of a signal: one that is not there is dereferenced all the same.*)
Emit(e) == pc' = IF events THEN e ELSE "crashed"

(* A slip: EmitStage forgets the lock.                                     *)
EmitStageUnlocked(s) ==
  /\ listening' = listening \ {s}
  /\ early' = early \cup (obtained \cap {s})
  /\ pc' = s
  /\ UNCHANGED <<m_VM, m_Events, events, locked, obtained>>

(* Emission of a stage: scripts that ask for its signal get it no more, and*)
(* the listeners it has are called.                                        *)
EmitStage(s) ==
  /\ locked' = locked \cup {s}
  /\ listening' = listening \ {s}
  /\ early' = early \cup (obtained \cap {s})
  /\ pc' = s
  /\ UNCHANGED <<m_VM, m_Events, events, obtained>>

(* ResetSignalPair, after it: whoever has come since is disconnected, and  *)
(* the signal belongs to the scripts that refer to it.                     *)
ResetStage(s) ==
  /\ listening' = listening \ {s}
  /\ UNCHANGED <<m_VM, m_Events, events, locked, obtained, early>>

-----------------------------------------------------------------------------
(* Reload returns to DoReload, whose ReloadGuard drops the request and any *)
(* that was made meanwhile; the server goes on calling unless it was in    *)
(* OnServerShutdown.                                                       *)
ReloadReturns ==
  /\ pc' = IF job = "last" THEN "unloaded" ELSE "server"
  /\ job' = "none"
  /\ g_Reload' = FALSE

LeaveLoop == itr' = 0 /\ last' = 0 /\ level' = 0

ExecuteReturns(success) ==
  /\ LeaveLoop
  /\ IF job = "boot"
       THEN /\ pc' = IF success THEN "Startup" ELSE "refused"
            /\ UNCHANGED <<job, g_Reload>>
       ELSE ReloadReturns

-----------------------------------------------------------------------------
(* Core::Initialize, for VcmpPluginInit and for Reload.                    *)

(* InitEvents looks whether the table is there, not the signals.           *)
InitEvents ==
  /\ m_Events' = TRUE
  /\ events' = IF m_Events THEN events ELSE TRUE

(* A slip: DropEvents keeps the table.                                     *)
DropEventsKeepsTable == events' = FALSE /\ UNCHANGED m_Events

DropEvents == events' = FALSE /\ m_Events' = FALSE

(* A slip: LoadScript does not look among the scripts that are pending.    *)
QueueAnyway(s, script) == Append(s, script)

Queue(s, script) ==
  IF script.mPath \in PathsOf(s) THEN s ELSE Append(s, script)

(* VcmpPluginInit terminates what there is and refuses to load; no script  *)
(* has run yet.  Reload leaves the machine and the scripts as they are.    *)
InitializeFails ==
  /\ IF job = "boot"
       THEN /\ pc' = "refused"
            /\ m_VM' = FALSE /\ DropEvents /\ m_PendingScripts' = <<>>
            /\ UNCHANGED <<job, g_Reload>>
       ELSE ReloadReturns /\ UNCHANGED <<m_VM, m_Events, events, m_PendingScripts>>
  /\ UNCHANGED <<locked, obtained, listening, early, m_Scripts, m_Executed, ran,
                 dropped, loop, nest>>

(* The configuration cannot be read or the machine not be made.            *)
InitializeNothing == pc = "initialize" /\ InitializeFails

(* The machine and its signals are made.                                   *)
Initialize ==
  /\ pc = "initialize"
  /\ pc' = "listing"
  /\ m_VM' = TRUE
  /\ InitEvents
  /\ UNCHANGED <<locked, obtained, listening, early, scripts, loop, g_Reload, job,
                 nest>>

(* ScriptLoader calls LoadScript for each script of the configuration.     *)
ListScript(script) ==
  /\ pc = "listing"
  /\ m_PendingScripts' = Queue(m_PendingScripts, script)
  /\ UNCHANGED <<machine, m_Scripts, m_Executed, ran, dropped, loop, g_Reload, job,
                 pc, nest>>

(* The file of a script is not there, or no script was listed.             *)
ListFails == pc = "listing" /\ InitializeFails

(* All is listed; an empty list passes when m_EmptyInit says so.           *)
InitializeReturns ==
  /\ pc = "listing"
  /\ pc' = IF job = "boot" THEN "ready" ELSE "execute"
  /\ UNCHANGED <<machine, scripts, loop, g_Reload, job, nest>>

-----------------------------------------------------------------------------
(* Core::Execute, for OnServerInitialise and for Reload.                   *)

ServerInitialise ==
  /\ pc = "ready"
  /\ pc' = "execute"
  /\ UNCHANGED <<machine, scripts, loop, g_Reload, job, nest>>

(* Initialize has let an empty list pass only if the configuration says so,*)
(* which Execute finds as well.                                            *)
Execute ==
  /\ pc = "execute"
  /\ IF m_PendingScripts = <<>>
       THEN ExecuteReturns(TRUE) /\ UNCHANGED locked
       ELSE /\ locked' = {}
            /\ pc' = "levels"
            /\ UNCHANGED <<loop, g_Reload, job>>
  /\ UNCHANGED <<m_VM, m_Events, events, obtained, listening, early, scripts, nest>>

(* A slip: the levels are not counted.                                     *)
LevelDueEver == m_PendingScripts # <<>>

LevelDue == m_PendingScripts # <<>> /\ level < MaxLevels

(* A level: what is pending moves to the list, and DoScripts is called on  *)
(* iterators of the list.                                                  *)
BeginLevel ==
  /\ pc = "levels" /\ LevelDue
  /\ m_Scripts' = m_Scripts \o m_PendingScripts
  /\ m_PendingScripts' = <<>>
  /\ last' = Len(m_Scripts) + 1
  /\ itr' = Len(m_Scripts) + 1
  /\ level' = level + 1
  /\ pc' = "compile"
  /\ UNCHANGED <<machine, m_Executed, ran, dropped, g_Reload, job, nest>>

(* A slip: what is left after the last level is dropped.                   *)
BeginStagesDrops ==
  /\ pc = "levels" /\ ~LevelDue
  /\ EmitStage("PreLoad")
  /\ m_PendingScripts' = <<>>
  /\ UNCHANGED <<m_Scripts, m_Executed, ran, dropped, loop, g_Reload, job, nest>>

BeginStages ==
  /\ pc = "levels" /\ ~LevelDue
  /\ EmitStage("PreLoad")
  /\ UNCHANGED <<scripts, loop, g_Reload, job, nest>>

AtScript == itr <= Len(m_Scripts)

(* DoScripts compiles every script of the level first and runs those that  *)
(* are not delayed; then it runs the delayed ones.                         *)
CompileFails ==
  /\ pc = "compile" /\ AtScript
  /\ ExecuteReturns(FALSE)
  /\ UNCHANGED <<machine, scripts, nest>>

(* A slip: the delayed scripts run in the first loop as well.              *)
CompileRunsAll ==
  /\ pc = "compile" /\ AtScript
  /\ Start(m_Scripts[itr].mPath) /\ pc' = "immediate"
  /\ UNCHANGED <<machine, m_Scripts, m_PendingScripts, m_Executed, dropped, loop,
                 g_Reload, job, nest>>

Compile ==
  /\ pc = "compile" /\ AtScript
  /\ IF m_Scripts[itr].mDelay
       THEN itr' = itr + 1 /\ UNCHANGED <<ran, pc>>
       ELSE Start(m_Scripts[itr].mPath) /\ pc' = "immediate" /\ UNCHANGED itr
  /\ UNCHANGED <<machine, m_Scripts, m_PendingScripts, m_Executed, dropped, last,
                 level, g_Reload, job, nest>>

(* A slip: the second loop begins where the first has ended.               *)
CompiledGoesOn ==
  /\ pc = "compile" /\ ~AtScript
  /\ pc' = "delayed"
  /\ UNCHANGED <<machine, scripts, loop, g_Reload, job, nest>>

Compiled ==
  /\ pc = "compile" /\ ~AtScript
  /\ itr' = last
  /\ pc' = "delayed"
  /\ UNCHANGED <<machine, scripts, last, level, g_Reload, job, nest>>

Delayed ==
  /\ pc = "delayed"
  /\ IF ~AtScript THEN pc' = "levels" /\ UNCHANGED <<itr, ran>>
     ELSE IF m_Scripts[itr].mDelay
       THEN Start(m_Scripts[itr].mPath) /\ pc' = "deferred" /\ UNCHANGED itr
       ELSE itr' = itr + 1 /\ UNCHANGED <<ran, pc>>
  /\ UNCHANGED <<machine, m_Scripts, m_PendingScripts, m_Executed, dropped, last,
                 level, g_Reload, job, nest>>

-----------------------------------------------------------------------------
(* A script, or all the listeners of a signal, come to their end.          *)

Returning(p) == pc = p /\ nest = <<>>

RunReturns ==
  /\ Returning("immediate") \/ Returning("deferred")
  /\ itr' = itr + 1
  /\ pc' = IF pc = "immediate" THEN "compile" ELSE "delayed"
  /\ UNCHANGED <<machine, scripts, last, level, g_Reload, job, nest>>

RunFails ==
  /\ Returning("immediate") \/ Returning("deferred")
  /\ ExecuteReturns(FALSE)
  /\ UNCHANGED <<machine, scripts, nest>>

PreLoadReturns ==
  /\ Returning("PreLoad")
  /\ ResetStage("PreLoad")
  /\ Emit("ScriptLoaded")
  /\ UNCHANGED <<scripts, loop, g_Reload, job, nest>>

ScriptLoadedReturns ==
  /\ Returning("ScriptLoaded")
  /\ EmitStage("PostLoad")
  /\ UNCHANGED <<scripts, loop, g_Reload, job, nest>>

(* The entities there are already are imported: listeners of Created run.  *)
PostLoadReturns ==
  /\ Returning("PostLoad")
  /\ ResetStage("PostLoad")
  /\ pc' = "Import"
  /\ UNCHANGED <<scripts, loop, g_Reload, job, nest>>

ImportReturns ==
  /\ Returning("Import")
  /\ m_Executed' = TRUE
  /\ ExecuteReturns(TRUE)
  /\ UNCHANGED <<machine, m_Scripts, m_PendingScripts, ran, dropped, nest>>

(* A listener fails in a stage of Execute: OnServerInitialise catches the  *)
(* exception, and the server goes on; DoReload is outside of any try block.*)
StageThrows ==
  /\ \E s \in {"PreLoad", "ScriptLoaded", "PostLoad", "Import"} : Returning(s)
  /\ pc' = IF job = "boot" THEN "server" ELSE "crashed"
  /\ job' = "none"
  /\ LeaveLoop
  /\ UNCHANGED <<machine, scripts, g_Reload, nest>>

(* OnServerInitialise and the callbacks that never reload, failed or not.  *)
StartupReturns ==
  /\ Returning("Startup") \/ Returning("QuietEvent")
  /\ pc' = "server"
  /\ job' = "none"
  /\ UNCHANGED <<machine, scripts, loop, g_Reload, nest>>

(* A slip: the end of a callback does not look for a request.              *)
EventReturnsBlind ==
  /\ Returning("Event")
  /\ pc' = "server"
  /\ UNCHANGED <<machine, scripts, loop, g_Reload, job, nest>>

(* SQMOD_RELOAD_CHECK(g_Reload), DoReload and the head of Core::Reload, at *)
(* the end of every other callback, failed or not.                         *)
EventReturns ==
  /\ Returning("Event")
  /\ IF g_Reload THEN job' = "reload" /\ Emit("ScriptReload")
                 ELSE pc' = "server" /\ UNCHANGED job
  /\ UNCHANGED <<machine, scripts, loop, g_Reload, nest>>

ReloadDenied ==
  /\ Returning("ScriptReload")
  /\ ReloadReturns
  /\ UNCHANGED <<machine, scripts, loop, nest>>

ReloadThrows ==
  /\ Returning("ScriptReload")
  /\ pc' = "crashed"
  /\ UNCHANGED <<machine, scripts, loop, g_Reload, job, nest>>

(* Core::Terminate begins.                                                 *)
Terminate ==
  /\ Returning("ScriptReload") \/ Returning("Shutdown")
  /\ EmitStage("Unload")
  /\ UNCHANGED <<scripts, loop, g_Reload, job, nest>>

(* The entities, routines, tasks, commands and signals are released:       *)
(* listeners of Destroyed run, and what they throw is caught.              *)
UnloadReturns ==
  /\ Returning("Unload")
  /\ pc' = "Cleanup"
  /\ UNCHANGED <<machine, scripts, loop, g_Reload, job, nest>>

(* The plug-in command that Terminate sends comes back as OnPluginCommand. *)
(* Only the lock of a reload keeps that from answering a request: by a     *)
(* denial, or by terminating what is being terminated, whose signal Unload *)
(* is gone.                                                                *)
UnloadEchoes ==
  /\ Returning("Unload")
  /\ g_Reload /\ ~Reloading
  /\ \/ pc' = "Cleanup" /\ g_Reload' = FALSE
     \/ pc' = "crashed" /\ UNCHANGED g_Reload
  /\ UNCHANGED <<machine, scripts, loop, job, nest>>

(* OnServerShutdown at its end, where a request is answered once more.     *)
ShutdownReturns ==
  IF g_Reload THEN job' = "last" /\ pc' = IF events' THEN "ScriptReload" ELSE "crashed"
              ELSE pc' = "unloaded" /\ UNCHANGED job

(* A listener of ServerShutdown or of Unload fails: OnServerShutdown skips *)
(* the rest of Terminate; a reload passes the exception on.                *)
TerminateThrows ==
  /\ Returning("Shutdown") \/ Returning("Unload")
  /\ UNCHANGED <<machine, scripts, loop, g_Reload, nest>>
  /\ IF Reloading THEN pc' = "crashed" /\ UNCHANGED job ELSE ShutdownReturns

(* A slip: Terminate leaves m_Executed as it is.                           *)
CloseKeepsExecuted ==
  /\ Returning("Cleanup")
  /\ DropEvents
  /\ m_VM' = FALSE /\ obtained' = {} /\ listening' = {} /\ early' = {}
  /\ m_Scripts' = <<>> /\ m_PendingScripts' = <<>>
  /\ ran' = Never /\ dropped' = Never
  /\ IF Reloading THEN pc' = "initialize" /\ UNCHANGED job ELSE ShutdownReturns
  /\ UNCHANGED <<locked, m_Executed, loop, g_Reload, nest>>

(* The end of Terminate, with the machine; Reload initialises another.     *)
Close ==
  /\ Returning("Cleanup")
  /\ DropEvents
  /\ m_VM' = FALSE /\ obtained' = {} /\ listening' = {} /\ early' = {}
  /\ m_Scripts' = <<>> /\ m_PendingScripts' = <<>> /\ m_Executed' = FALSE
  /\ ran' = Never /\ dropped' = Never
  /\ IF Reloading THEN pc' = "initialize" /\ UNCHANGED job ELSE ShutdownReturns
  /\ UNCHANGED <<locked, loop, g_Reload, nest>>

-----------------------------------------------------------------------------
(* The server calls: a frame or a player's callback, or one of those that  *)
(* never reload (SQMOD_RELOAD_CHECK(false)).                               *)

ServerCalls(e) ==
  /\ pc = "server"
  /\ Emit(e)
  /\ UNCHANGED <<machine, scripts, loop, g_Reload, job, nest>>

OnServerShutdown ==
  /\ pc = "server"
  /\ job' = "shutdown"
  /\ Emit("Shutdown")
  /\ UNCHANGED <<machine, scripts, loop, g_Reload, nest>>

-----------------------------------------------------------------------------
(* What script code does, once a script was run.                           *)

InScript == pc \in Scripted /\ m_Scripts # <<>>

Call(call) == Len(nest) < MaxNest /\ nest' = Append(nest, call)

(* SqCore.LoadScript of a file whose path is a new one, before Execute has *)
(* come to its end: it is queued.                                          *)
QueueScript(p, delay) ==
  /\ InScript
  /\ p \notin Known
  /\ ~m_Executed
  /\ m_PendingScripts' = Append(m_PendingScripts, [mPath |-> p, mDelay |-> delay])
  /\ UNCHANGED <<machine, m_Scripts, m_Executed, ran, dropped, loop, g_Reload, job,
                 pc, nest>>

(* And after it: it is compiled and run at once, delayed or not, and the   *)
(* list may move in memory under the scripts of it that run.  One that does*)
(* not compile leaves nothing behind.                                      *)
LoadScript(p) ==
  /\ InScript
  /\ p \notin Known
  /\ m_Executed
  /\ ran[p] < MaxStarts
  /\ m_Scripts' = Append(m_Scripts, [mPath |-> p, mDelay |-> FALSE])
  /\ Start(p)
  /\ Call(p)
  /\ pc' \in IF Range(nest) \cap Paths = {} THEN {pc} ELSE {pc, "crashed"}
  /\ UNCHANGED <<machine, m_PendingScripts, m_Executed, dropped, loop, g_Reload, job>>

(* SqCore.OnPreLoad or OnPostLoad: the signal of the stage, or none if it  *)
(* is over.                                                                *)
GetLoadEvent(s) ==
  /\ InScript
  /\ s \notin locked
  /\ obtained' = obtained \cup {s}
  /\ Cardinality(obtained') <= MaxObtained
  /\ UNCHANGED <<m_VM, m_Events, events, locked, listening, early, scripts, loop,
                 g_Reload, job, pc, nest>>

(* A listener is connected to a signal that scripts refer to: nothing looks*)
(* whether its stage is over.                                              *)
Connect(s) ==
  /\ InScript
  /\ s \in obtained
  /\ listening' = listening \cup {s}
  /\ UNCHANGED <<m_VM, m_Events, events, locked, obtained, early, scripts, loop,
                 g_Reload, job, pc, nest>>

(* SqCore.Reload.                                                          *)
SetReloadStatus(toggle) ==
  /\ InScript
  /\ g_Reload' = toggle
  /\ UNCHANGED <<machine, scripts, loop, job, pc, nest>>

(* The script makes or deletes an entity, and the server calls back:       *)
(* OnEntityPoolChange, whose listeners run.                                *)
CallPool ==
  /\ InScript
  /\ Call("pool")
  /\ UNCHANGED <<machine, scripts, loop, g_Reload, job, pc>>

(* SqServer.SendPluginCommand comes back as OnPluginCommand.  No listener  *)
(* hears of it, but unless a reload is under way already a request for one *)
(* is answered: denied, or by closing the machine that runs the script.  A *)
(* kick that the server reports at once does the same.                     *)
SendPluginCommand ==
  /\ InScript
  /\ g_Reload /\ ~Reloading
  /\ \/ pc' = "torn" /\ nest' = Append(nest, "command") /\ UNCHANGED g_Reload
     \/ g_Reload' = FALSE /\ UNCHANGED <<pc, nest>>
  /\ UNCHANGED <<machine, scripts, loop, job>>

Nested(calls) == InScript /\ nest # <<>> /\ Last(nest) \in calls

LoadReturns ==
  /\ Nested(Paths)
  /\ nest' = Front(nest)
  /\ UNCHANGED <<machine, scripts, loop, g_Reload, job, pc>>

(* A slip: the container is dropped where the script fails, and once more  *)
(* on the way out.                                                         *)
LoadFailsTwice ==
  /\ Nested(Paths)
  /\ nest' = Front(nest)
  /\ m_Scripts' = Front(Front(m_Scripts))
  /\ dropped' = [p \in Paths |->
       IF p \in PathsOf(m_Scripts) \ PathsOf(m_Scripts') THEN dropped[p] + 1 ELSE dropped[p]]
  /\ UNCHANGED <<machine, m_PendingScripts, m_Executed, ran, loop, g_Reload, job, pc>>

(* A late script fails: the last of the list is dropped.  That is another  *)
(* one if the script has loaded some, and the one that failed stays.       *)
LoadFails ==
  /\ Nested(Paths)
  /\ nest' = Front(nest)
  /\ m_Scripts' = Front(m_Scripts)
  /\ Drop(Last(m_Scripts).mPath)
  /\ UNCHANGED <<machine, m_PendingScripts, m_Executed, ran, loop, g_Reload, job, pc>>

PoolReturns ==
  /\ Nested({"pool"})
  /\ nest' = Front(nest)
  /\ UNCHANGED <<machine, scripts, loop, g_Reload, job, pc>>

-----------------------------------------------------------------------------
ExecuteNext ==
  \/ InitializeNothing \/ Initialize
  \/ (\E script \in Listed : ListScript(script)) \/ ListFails \/ InitializeReturns
  \/ Execute \/ BeginLevel \/ BeginStages
  \/ Compile \/ CompileFails \/ Compiled \/ Delayed

ReturnNext ==
  \/ RunReturns \/ RunFails
  \/ PreLoadReturns \/ ScriptLoadedReturns \/ PostLoadReturns \/ ImportReturns
  \/ StageThrows \/ StartupReturns \/ EventReturns
  \/ ReloadDenied \/ ReloadThrows
  \/ Terminate \/ UnloadReturns \/ UnloadEchoes \/ TerminateThrows \/ Close

NestedNext == LoadReturns \/ LoadFails \/ PoolReturns

ServerNext ==
  \/ ServerInitialise
  \/ \E e \in {"Event", "QuietEvent"} : ServerCalls(e)
  \/ OnServerShutdown

ScriptNext ==
  \/ \E p \in Paths, delay \in BOOLEAN : QueueScript(p, delay)
  \/ \E p \in Paths : LoadScript(p)
  \/ \E s \in LoadStages : GetLoadEvent(s) \/ Connect(s)
  \/ \E toggle \in BOOLEAN : SetReloadStatus(toggle)
  \/ CallPool \/ SendPluginCommand

CoreNext == ExecuteNext \/ ReturnNext \/ NestedNext \/ ServerNext \/ ScriptNext

CoreSpec == CoreInit /\ [][CoreNext]_coreVars

-----------------------------------------------------------------------------
TypeOK ==
  /\ m_VM \in BOOLEAN /\ m_Events \in BOOLEAN /\ events \in BOOLEAN
  /\ locked \subseteq Stages
  /\ obtained \subseteq LoadStages /\ listening \subseteq LoadStages
  /\ early \subseteq LoadStages
  /\ m_Scripts \in Seq(Script) /\ m_PendingScripts \in Seq(Script)
  /\ m_Executed \in BOOLEAN /\ g_Reload \in BOOLEAN
  /\ job \in Jobs /\ pc \in Codes \cup Scripted \cup Ends
  /\ itr \in Nat /\ last \in Nat /\ level \in 0..MaxLevels
  /\ nest \in Seq(Frames) /\ Len(nest) <= MaxNest + 1
  /\ ran \in [Paths -> Nat] /\ dropped \in [Paths -> Nat]

(* Whatever ways a script comes into the lists (the configuration, scripts *)
(* that queue it in any level, LoadScript from a listener), it is started  *)
(* once in a life of the machine, failed or not, and once more for each    *)
(* time a LoadScript that failed has dropped it: its own, or that of a     *)
(* script that had loaded it.                                              *)
RunsOnce == \A p \in Paths : ran[p] <= dropped[p] + 1

(* A late script that fails drops the last of the list, itself or one that *)
(* it has loaded, but never one whose code is still running: the scripts   *)
(* that load each other are all in the list.                               *)
RunningListed == Range(nest) \cap Paths \subseteq PathsOf(m_Scripts)

(* When Execute has come to its end, every script of the list was started, *)
(* the delayed ones of every level too.                                    *)
AllStarted ==
  m_Executed => \A i \in DOMAIN m_Scripts : ran[m_Scripts[i].mPath] > 0

(* A delayed script runs when every script of its level is compiled, the   *)
(* others have run, and the delayed ones before it have.                   *)
DelayedLast ==
  pc = "deferred" =>
    \A i \in last..Len(m_Scripts) :
      ran[m_Scripts[i].mPath] = IF m_Scripts[i].mDelay /\ i > itr THEN 0 ELSE 1

(* Scripts of a level that load others do not grow the list DoScripts goes *)
(* through with iterators: m_Executed tells LoadScript, and it must be     *)
(* right in a second Execute as well.                                      *)
IteratorsHold ==
  [][(pc \in {"compile", "delayed", "immediate", "deferred"}) =>
       UNCHANGED m_Scripts]_coreVars

(* A script that LoadScript has accepted stays in one of the lists while   *)
(* Execute works on them: none gets lost on the way from one to the other. *)
NoneLost ==
  [][m_VM /\ ~m_Executed /\ m_VM' => Known \subseteq Known']_coreVars

(* Once all has been executed nobody waits for a stage that is over, unless*)
(* a script has kept its signal from before: one that asks for the signal  *)
(* when the stage has begun gets none, so that no listener it connects is  *)
(* accepted and never called.                                              *)
NobodyWaitsInVain == m_Executed => listening \subseteq early

(* The events have their signals while there is a machine, also the second *)
(* one, although InitEvents looks at the table only.                       *)
EventsThere == m_VM => events

(* A request to reload is answered: by a reload, a denial, or a script that*)
(* takes it back, unless the plug-in comes to its end before.              *)
ReloadAnswered == g_Reload ~> (~g_Reload \/ pc \in Ends)

-----------------------------------------------------------------------------
(* What makes these inductive.                                             *)

(* A path is in the lists once.                                            *)
ListsDistinct ==
  /\ \A i, j \in DOMAIN m_Scripts : m_Scripts[i].mPath = m_Scripts[j].mPath => i = j
  /\ \A i, j \in DOMAIN m_PendingScripts :
       m_PendingScripts[i].mPath = m_PendingScripts[j].mPath => i = j
  /\ PathsOf(m_Scripts) \cap PathsOf(m_PendingScripts) = {}

(* What was started is in the list of loaded scripts, or was dropped from  *)
(* it as often, which happens to late scripts only; after Execute all that *)
(* is in the list was started since it came there.                         *)
OnlyListedRan ==
  /\ \A p \in Paths : p \notin PathsOf(m_Scripts) => ran[p] = dropped[p]
  /\ m_Executed => \A p \in PathsOf(m_Scripts) : ran[p] = dropped[p] + 1
  /\ ~m_Executed => dropped = Never

(* DoScripts is at a script of the level, and these are still to be run by *)
(* its two loops.                                                          *)
Looping == {"compile", "immediate", "delayed", "deferred"}

Due(i) ==
  LET ahead == i > itr \/ (i = itr /\ pc \in {"compile", "delayed"})
  IN  /\ i >= last
      /\ IF pc \in {"compile", "immediate"} THEN m_Scripts[i].mDelay \/ ahead
                                            ELSE m_Scripts[i].mDelay /\ ahead

LoopWhere ==
  pc \in Looping =>
    /\ last \in 1..(Len(m_Scripts) + 1) /\ itr \in last..(Len(m_Scripts) + 1)
    /\ pc \in {"immediate", "deferred"} =>
         itr <= Len(m_Scripts) /\ (m_Scripts[itr].mDelay <=> pc = "deferred")
    /\ \A i \in DOMAIN m_Scripts : ran[m_Scripts[i].mPath] = IF Due(i) THEN 0 ELSE 1

(* Execute is before its levels, between two of them, or in the stages.    *)
Beginning   == {"initialize", "listing", "ready", "execute"}
LevelsDone  == {"levels", "PreLoad", "ScriptLoaded", "PostLoad", "Import"}

ExecuteWhere ==
  /\ pc \in Beginning => m_Scripts = <<>> /\ listening = {}
  /\ pc \in Beginning \cup Looping \cup LevelsDone => ~m_Executed
  /\ pc \in LevelsDone => \A i \in DOMAIN m_Scripts : ran[m_Scripts[i].mPath] = 1

(* Who listens has the signal.  That of a stage that is locked was obtained*)
(* before its emission, and those that are over are locked.                *)
StagesLocked ==
  /\ listening \subseteq obtained /\ obtained \cap locked \subseteq early
  /\ pc \in {"PreLoad", "ScriptLoaded"} => "PreLoad" \in locked
  /\ pc \in {"PostLoad", "Import"} => LoadStages \subseteq locked
  /\ m_Executed => LoadStages \subseteq locked

(* Late scripts are loaded when Execute has come to its end, and no call   *)
(* goes deeper but the one that closes the machine.                        *)
NestWhere ==
  /\ \A i \in DOMAIN nest : nest[i] \in Paths => m_Executed
  /\ pc # "torn" => Len(nest) <= MaxNest

(* Of two late scripts that run, the one loaded by the other is behind it  *)
(* in the list.                                                            *)
NestOrder ==
  \A i, j \in DOMAIN nest : \A k, l \in DOMAIN m_Scripts :
    i < j /\ nest[i] = m_Scripts[k].mPath /\ nest[j] = m_Scripts[l].mPath => k < l

CoreInv ==
  /\ TypeOK /\ RunsOnce /\ RunningListed /\ AllStarted
  /\ ListsDistinct /\ OnlyListedRan
  /\ LoopWhere /\ ExecuteWhere
  /\ StagesLocked
  /\ EventsThere /\ events = m_Events
  /\ NestWhere /\ NestOrder
=============================================================================
