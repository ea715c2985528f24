-------------------------------- MODULE Plugin --------------------------------
(***************************************************************************)
(* The life of the scripts, the commands of scripts, the registry of       *)
(* signals and the players, side by side: they share no variable, so that a*)
(* behaviour in which the others stay as they were initially shows as much *)
(* of one as any behaviour does.                                           *)
(***************************************************************************)
EXTENDS CoreLifecycle, CommandManager, SignalRegistry, PlayerPool

VARIABLE moving  (* which of them a behaviour shows *)

pluginVars == <<coreVars, commandVars, registryVars, playerVars, moving>>

Init ==
  /\ CoreInit
  /\ CommandInit
  /\ RegistryInit
  /\ PlayerInit
  /\ moving \in {"core", "commands", "signals", "players"}

CoreMoves(step) ==
  moving = "core" /\ step /\ UNCHANGED <<commandVars, registryVars, playerVars, moving>>

CommandsMove(step) ==
  moving = "commands" /\ step /\ UNCHANGED <<coreVars, registryVars, playerVars, moving>>

SignalsMove(step) ==
  moving = "signals" /\ step /\ UNCHANGED <<coreVars, commandVars, playerVars, moving>>

PlayersMove(step) ==
  moving = "players" /\ step /\ UNCHANGED <<coreVars, commandVars, registryVars, moving>>

Next ==
  \/ CoreMoves(CoreNext)
  \/ CommandsMove(CommandNext)
  \/ SignalsMove(RegistryNext)
  \/ PlayersMove(PlayerNext)

(* Nothing blocks the C++ code, and script code ends: nothing bounds it,   *)
(* but the server has one thread and waits for it.  It may call the server *)
(* any number of times before, so that its end is not enabled continuously.*)
(* The server calls OnServerFrame ever again, whatever else it calls.      *)
Fairness ==
  /\ WF_pluginVars(CoreMoves(ExecuteNext))
  /\ \A depth \in 1..MaxNest : SF_pluginVars(CoreMoves(Len(nest) = depth /\ NestedNext))
  /\ SF_pluginVars(CoreMoves(ReturnNext))
  /\ SF_pluginVars(CoreMoves(ServerCalls("Event")))

Spec == Init /\ [][Next]_pluginVars /\ Fairness

-----------------------------------------------------------------------------
(* The state of each of the four keeps to its types, the levels of Execute *)
(* to their number and nested calls to their depth.                        *)
PluginTypeOK == TypeOK /\ CommandTypeOK /\ RegistryTypeOK /\ PlayerTypeOK
=============================================================================
