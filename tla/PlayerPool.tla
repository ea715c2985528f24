------------------------------ MODULE PlayerPool ------------------------------
(***************************************************************************)
(* The players (source/CoreEntity.cpp, CoreInst.cpp, CoreEvents.cpp,       *)
(* Main.cpp, Entity/Player.cpp).  Other than the entities of EntityPool    *)
(* they come and go by the server alone; scripts can have it kick them.    *)
(* Their instances keep the last known values of a player, which an update *)
(* is compared with to tell listeners what has changed, how many changes   *)
(* of the heading are to be told, and what a kick was for.                 *)
(*                                                                         *)
(* The frames of calls, innermost last, say where a callback of the server *)
(* is: at the emission of a signal, named as in the code, while listeners  *)
(* run; or at a value it is about to compare.  The server reports a kick   *)
(* from within the call or later.  It sends updates and connections only   *)
(* between callbacks, and the end of a connection once.                    *)
(*                                                                         *)
(* The position is tracked as the heading is, armour and weapon as the     *)
(* health, and payloads go with the headers: they are left out.  So is that*)
(* these callbacks answer requests to reload, which is in CoreLifecycle.   *)
(***************************************************************************)
EXTENDS Integers, SequencesExt

CONSTANTS
  Players,  (* the identifiers of players                                  *)
  Values,   (* of health and of heading; 0 is what an instance is reset to *)
  Headers,  (* what scripts kick for; 0 stands for no header of theirs     *)
  Tracks    (* the counts of changes scripts ask for; below 0 is for ever  *)

ASSUME PlayerAssumption ==
  /\ Players \subseteq Nat
  /\ 0 \in Values
  /\ Headers \subseteq Nat \ {0}
  /\ Tracks \subseteq Int /\ -1 \in Tracks /\ 0 \in Tracks

VARIABLES
  server,     (* external: per player, whether it is connected, its values *)
  m_Players,  (* per player, the instance                                  *)
  calls,      (* the callbacks in progress                                 *)
  stage,      (* "open", or of a reload: "clean", "import"; "undefined"    *)
  rest,       (* the players a reload has still to go through              *)
  history     (* per player, since it connected: the changes asked for and *)
              (* got, the health told, all it was kicked for, and whether  *)
              (* a listener that was told the health failed                *)

playerVars == <<server, m_Players, calls, stage, rest, history>>

Instance ==
  [mID : BOOLEAN, mEvents : BOOLEAN, mLastHeading : Values, mLastHealth : Values,
   mTrackHeading : Nat \cup Tracks, mKickBanHeader : Headers \cup {0}]

(* The signals of the instance, and those of the core, with the same name  *)
(* of an event: the former are emitted first.                              *)
Own      == {"mOnHeading", "mOnHealth", "mOnUpdate", "mOnDestroyed"}
Common   == {"mOnPlayerHeading", "mOnPlayerHealth", "mOnPlayerUpdate",
             "mOnPlayerDestroyed", "mOnPlayerCreated"}
Compared == {"heading", "health"}

(* new is the value read, header and reported are for the end of a player: *)
(* what listeners are told, and whether it is the server that told us.     *)
Frame == [at : Own \cup Common \cup Compared, player : Players, new : Values,
          header : Headers \cup {0}, reported : BOOLEAN]

At(point, p) == [at |-> point, player |-> p, new |-> 0, header |-> 0, reported |-> FALSE]

Leaving(p, h, reported) == [At("mOnDestroyed", p) EXCEPT !.header = h, !.reported = reported]

Fresh == [mID |-> FALSE, mEvents |-> FALSE, mLastHeading |-> 0, mLastHealth |-> 0,
          mTrackHeading |-> 0, mKickBanHeader |-> 0]

PlayerInit ==
  /\ server = [p \in Players |-> [online |-> FALSE, heading |-> 0, health |-> 0]]
  /\ m_Players = [p \in Players |-> Fresh]
  /\ calls = <<>>
  /\ stage = "open" /\ rest = {}
  /\ history = [p \in Players |->
       [asked |-> 0, got |-> 0, told |-> 0, reasons |-> {}, failed |-> FALSE]]

Top == Last(calls)

Quiet == calls = <<>> /\ stage = "open"

Goes(to) == calls' = Append(Front(calls), to)

(* A callback of the server begins.                                        *)
Begins(frame) == calls' = Append(calls, frame)

-----------------------------------------------------------------------------
(* A slip: like vehicles, players start with what the instance has.        *)
AllocatedOnly(inst, s) == [inst EXCEPT !.mID = TRUE, !.mEvents = TRUE]

(* ConnectPlayer up to the event.                                          *)
Allocated(inst, s) ==
  [inst EXCEPT !.mID = TRUE, !.mEvents = TRUE,
               !.mLastHeading = s.heading, !.mLastHealth = s.health]

Alloc(p, s) == m_Players' = [m_Players EXCEPT ![p] = Allocated(@, s)]

(* A slip: a member is forgotten.                                          *)
ResetKeepsHeader(inst) == [Fresh EXCEPT !.mEvents = inst.mEvents, !.mKickBanHeader = inst.mKickBanHeader]

ResetInstance(inst) == [Fresh EXCEPT !.mEvents = inst.mEvents]

(* A slip: the instance's events are kept for the next player.             *)
DropNothing(inst) == inst

PlayerDropEvents(inst) == [inst EXCEPT !.mEvents = FALSE]

-----------------------------------------------------------------------------
(* Connections and updates come for what the server has by then.           *)
OnPlayerConnect(p, heading, health) ==
  LET s == [online |-> TRUE, heading |-> heading, health |-> health]
  IN  /\ Quiet
      /\ ~server[p].online
      /\ server' = [server EXCEPT ![p] = s]
      /\ history' = [history EXCEPT ![p] =
           [asked |-> 0, got |-> 0, told |-> health, reasons |-> {}, failed |-> FALSE]]
      /\ Alloc(p, s)
      /\ Begins(At("mOnPlayerCreated", p))
      /\ UNCHANGED <<stage, rest>>

(* OnPlayerDisconnect: a player is kicked, by whomever and for whatever    *)
(* reason the instance has, or it leaves.                                  *)
OnPlayerDisconnect(p, kicked) ==
  /\ Quiet
  /\ server[p].online
  /\ Begins(Leaving(p, IF kicked THEN m_Players[p].mKickBanHeader ELSE 0, TRUE))
  /\ UNCHANGED <<server, m_Players, stage, rest, history>>

(* OnPlayerUpdate, with the values the server has by then.                 *)
OnPlayerUpdate(p, heading, health) ==
  /\ Quiet
  /\ server[p].online
  /\ server' = [server EXCEPT ![p].heading = heading, ![p].health = health]
  /\ Begins(At("heading", p))
  /\ UNCHANGED <<m_Players, stage, rest, history>>

-----------------------------------------------------------------------------
(* EmitPlayerUpdate.                                                       *)

(* The signals of an instance whose player is gone are dereferenced too.   *)
GoesToOwn(to) ==
  IF m_Players[to.player].mEvents THEN Goes(to) /\ UNCHANGED stage
                                  ELSE stage' = "undefined" /\ UNCHANGED calls

(* Any count but 0 is decreased before listeners are called; one below 0   *)
(* goes towards the least integer, which it does not reach: it stays here. *)
Count(n, decreased) == IF decreased /\ n > 0 THEN n - 1 ELSE n

CompareHeading(decreased) ==
  /\ calls # <<>> /\ Top.at = "heading"
  /\ LET p == Top.player
         new == server[p].heading
         told == new # m_Players[p].mLastHeading /\ m_Players[p].mTrackHeading # 0
     IN  IF told
           THEN /\ m_Players' = [m_Players EXCEPT ![p].mTrackHeading = Count(@, decreased)]
                /\ history' = [history EXCEPT ![p].got = IF history[p].asked > 0 THEN @ + 1 ELSE 0]
                /\ Goes([Top EXCEPT !.at = "mOnHeading", !.new = new])
           ELSE /\ m_Players' = [m_Players EXCEPT ![p].mLastHeading = new]
                /\ Goes([Top EXCEPT !.at = "health"])
                /\ UNCHANGED history
  /\ UNCHANGED <<server, stage, rest>>

HeadingTold(decreased) ==
  /\ calls # <<>> /\ Top.at = "mOnPlayerHeading"
  /\ m_Players' = [m_Players EXCEPT ![Top.player].mLastHeading = Top.new,
                                    ![Top.player].mTrackHeading = Count(@, decreased)]
  /\ Goes([Top EXCEPT !.at = "health"])
  /\ UNCHANGED <<server, stage, rest, history>>

(* A slip: the count is decreased after the listeners were called.         *)
UpdateHeadingLate == CompareHeading(FALSE) \/ HeadingTold(TRUE)

UpdateHeading == CompareHeading(TRUE) \/ HeadingTold(FALSE)

CompareHealth ==
  /\ calls # <<>> /\ Top.at = "health"
  /\ LET p == Top.player
         new == server[p].health
     IN  IF new # m_Players[p].mLastHealth
           THEN /\ GoesToOwn([Top EXCEPT !.at = "mOnHealth", !.new = new])
                /\ history' = [history EXCEPT ![p].told = new]
           ELSE GoesToOwn([Top EXCEPT !.at = "mOnUpdate"]) /\ UNCHANGED history
  /\ UNCHANGED <<server, m_Players, rest>>

HealthTold ==
  /\ calls # <<>> /\ Top.at = "mOnPlayerHealth"
  /\ m_Players' = [m_Players EXCEPT ![Top.player].mLastHealth = Top.new]
  /\ history' = [history EXCEPT ![Top.player].failed = FALSE]
  /\ GoesToOwn([Top EXCEPT !.at = "mOnUpdate"])
  /\ UNCHANGED <<server, rest>>

-----------------------------------------------------------------------------
(* The listeners of an instance's signal have run: those of the core's are *)
(* next.                                                                   *)
OwnTold ==
  /\ calls # <<>> /\ Top.at \in Own
  /\ Goes([Top EXCEPT !.at = CASE Top.at = "mOnHeading"   -> "mOnPlayerHeading"
                               [] Top.at = "mOnHealth"    -> "mOnPlayerHealth"
                               [] Top.at = "mOnUpdate"    -> "mOnPlayerUpdate"
                               [] Top.at = "mOnDestroyed" -> "mOnPlayerDestroyed"])
  /\ UNCHANGED <<server, m_Players, stage, rest, history>>

(* OnPlayerConnect and OnPlayerUpdate return.                              *)
Returns ==
  /\ calls # <<>> /\ Top.at \in {"mOnPlayerCreated", "mOnPlayerUpdate"}
  /\ calls' = Front(calls)
  /\ UNCHANGED <<server, m_Players, stage, rest, history>>

(* PlayerInst::Destroy when the listeners have run, or failed.  A signal of*)
(* the instance that is being emitted further out is dropped under it: what*)
(* the emission does then is undefined, unless a script refers to it.      *)
Destroyed ==
  LET p == Top.player
      lost == \E i \in DOMAIN Front(calls) : calls[i].player = p /\ calls[i].at \in Own
  IN  /\ m_Players' = [m_Players EXCEPT ![p] = PlayerDropEvents(ResetInstance(@))]
      /\ calls' = Front(calls)
      /\ stage' \in IF lost THEN {stage, "undefined"} ELSE {stage}
      /\ server' = IF Top.reported THEN [server EXCEPT ![p].online = FALSE] ELSE server

DestroyReturns ==
  /\ calls # <<>> /\ Top.at = "mOnPlayerDestroyed"
  /\ Destroyed
  /\ UNCHANGED <<rest, history>>

(* A listener fails.  Every callback catches that, and Destroy does; but   *)
(* not a reload, which players are imported by.                            *)
DestroyThrows ==
  /\ calls # <<>> /\ Top.at \in {"mOnDestroyed", "mOnPlayerDestroyed"}
  /\ Destroyed
  /\ UNCHANGED <<rest, history>>

UpdateThrows ==
  /\ calls # <<>>
  /\ Top.at \in (Own \cup Common) \ {"mOnDestroyed", "mOnPlayerDestroyed", "mOnPlayerCreated"}
  /\ calls' = Front(calls)
  /\ history' = [history EXCEPT ![Top.player].failed = @ \/ Top.at \in {"mOnHealth", "mOnPlayerHealth"}]
  /\ UNCHANGED <<server, m_Players, stage, rest>>

ConnectThrows ==
  /\ calls # <<>> /\ Top.at = "mOnPlayerCreated"
  /\ calls' = Front(calls)
  /\ stage' = IF stage = "import" THEN "undefined" ELSE stage
  /\ UNCHANGED <<server, m_Players, rest, history>>

-----------------------------------------------------------------------------
(* A reload: Terminate cleans up the container, Execute imports whoever is *)
(* connected by then.                                                      *)

Reload ==
  /\ Quiet
  /\ stage' = "clean"
  /\ rest' = Players
  /\ UNCHANGED <<server, m_Players, calls, history>>

(* The containers are gone through in the order of the identifiers.        *)
NextOf(p) ==
  /\ calls = <<>>
  /\ p \in rest /\ \A q \in rest : p <= q
  /\ rest' = rest \ {p}

CleanNext(p) ==
  /\ stage = "clean"
  /\ NextOf(p)
  /\ IF m_Players[p].mID
       THEN Begins(Leaving(p, 0, FALSE)) /\ UNCHANGED m_Players
       ELSE /\ m_Players' = [m_Players EXCEPT ![p] = PlayerDropEvents(ResetInstance(@))]
            /\ UNCHANGED calls
  /\ UNCHANGED <<server, stage, history>>

(* The container is cleared and filled with instances as they are made.    *)
CleanEnds ==
  /\ stage = "clean" /\ calls = <<>> /\ rest = {}
  /\ m_Players' = [p \in Players |-> Fresh]
  /\ stage' = "import"
  /\ rest' = Players
  /\ UNCHANGED <<server, calls, history>>

ImportNext(p) ==
  /\ stage = "import"
  /\ NextOf(p)
  /\ IF server[p].online /\ ~m_Players[p].mID
       THEN /\ Alloc(p, server[p])
            /\ Begins(At("mOnPlayerCreated", p))
            /\ history' = [history EXCEPT ![p].asked = 0, ![p].got = 0,
                             ![p].told = server[p].health, ![p].failed = FALSE]
       ELSE UNCHANGED <<m_Players, calls, history>>
  /\ UNCHANGED <<server, stage>>

ImportEnds ==
  /\ stage = "import" /\ calls = <<>> /\ rest = {}
  /\ stage' = "open"
  /\ UNCHANGED <<server, m_Players, calls, rest, history>>

-----------------------------------------------------------------------------
(* What scripts do with a player whose handle works: in listeners, or      *)
(* between the callbacks that are modelled.                                *)

Validate(p) ==
  /\ IF calls = <<>> THEN stage = "open"
                     ELSE stage # "undefined" /\ Top.at \in Own \cup Common
  /\ m_Players[p].mID

SetTrackHeading(p, n) ==
  /\ Validate(p)
  /\ m_Players' = [m_Players EXCEPT ![p].mTrackHeading = n]
  /\ history' = [history EXCEPT ![p].asked = n, ![p].got = 0]
  /\ UNCHANGED <<server, calls, stage, rest>>

SetHealth(p, health) ==
  /\ Validate(p)
  /\ server' = [server EXCEPT ![p].health = health]
  /\ UNCHANGED <<m_Players, calls, stage, rest, history>>

(* Kick and Ban, with a header: the server reports it now, unless the      *)
(* player is leaving; or later, if the player has not left by then.        *)
Kick(p, h) ==
  /\ Validate(p)
  /\ m_Players' = [m_Players EXCEPT ![p].mKickBanHeader = h]
  /\ history' = [history EXCEPT ![p].reasons = @ \cup {h}]
  /\ \/ UNCHANGED calls
     \/ /\ \A i \in DOMAIN calls : ~(calls[i].player = p /\ calls[i].reported)
        /\ Begins(Leaving(p, h, TRUE))
  /\ UNCHANGED <<server, stage, rest>>

-----------------------------------------------------------------------------
PlayerSteps ==
  \/ UpdateHeading \/ CompareHealth \/ HealthTold \/ OwnTold \/ Returns
  \/ DestroyReturns \/ DestroyThrows \/ UpdateThrows \/ ConnectThrows
  \/ (\E p \in Players : CleanNext(p) \/ ImportNext(p))
  \/ CleanEnds \/ ImportEnds

PlayerNext ==
  \/ \E p \in Players, heading, health \in Values :
       OnPlayerConnect(p, heading, health) \/ OnPlayerUpdate(p, heading, health)
  \/ \E p \in Players, kicked \in BOOLEAN : OnPlayerDisconnect(p, kicked)
  \/ Reload
  \/ stage # "undefined" /\ PlayerSteps
  \/ \E p \in Players, n \in Tracks : SetTrackHeading(p, n)
  \/ \E p \in Players, health \in Values : SetHealth(p, health)
  \/ \E p \in Players, h \in Headers : Kick(p, h)

PlayerSpec == PlayerInit /\ [][PlayerNext]_playerVars

-----------------------------------------------------------------------------
PlayerTypeOK ==
  /\ server \in [Players -> [online : BOOLEAN, heading : Values, health : Values]]
  /\ m_Players \in [Players -> Instance]
  /\ calls \in Seq(Frame)
  /\ stage \in {"open", "clean", "import", "undefined"}
  /\ rest \subseteq Players
  /\ history \in [Players -> [asked : Tracks, got : Nat, told : Values,
                              reasons : SUBSET Headers, failed : BOOLEAN]]

(* Between callbacks the players with an instance, a handle and signals to *)
(* emit are those the server has, whoever was kicked in the middle of what,*)
(* also by listeners of a reload: the next update finds what it emits.     *)
OnlineReachable ==
  Quiet => \A p \in Players : m_Players[p].mID = server[p].online
                           /\ m_Players[p].mEvents = server[p].online

(* A script that asks for a number of changes is told that many: calling   *)
(* listeners does not use up what they have asked for meanwhile, and no    *)
(* player starts with what was asked for another.                          *)
TrackedAsAsked ==
  \A p \in Players : m_Players[p].mID =>
    m_Players[p].mTrackHeading =
      IF history[p].asked > 0 THEN history[p].asked - history[p].got
                              ELSE history[p].asked

(* The last known health is what listeners were told last, or found when   *)
(* the player connected, so that the next change is told from there; after *)
(* a listener has failed, as soon as one is told in full.                  *)
LastIsTold ==
  \A p \in Players :
    \/ ~m_Players[p].mID
    \/ history[p].failed
    \/ \E i \in DOMAIN calls : calls[i].player = p /\ calls[i].at \in {"mOnHealth", "mOnPlayerHealth"}
    \/ m_Players[p].mLastHealth = history[p].told

(* A player leaves with a reason it was kicked for itself, not one stored  *)
(* for somebody who had the identifier before.                             *)
KickedFor ==
  \A i \in DOMAIN calls :
    calls[i].header # 0 => calls[i].header \in history[calls[i].player].reasons

-----------------------------------------------------------------------------
(* What makes these inductive.                                             *)

Destroying   == {"mOnDestroyed", "mOnPlayerDestroyed"}
TellsHealth  == {"mOnHealth", "mOnPlayerHealth"}

(* Within a callback there are only ends of players, which the server      *)
(* reports unless a reload cleans up.                                      *)
CallsWhere ==
  /\ \A i \in DOMAIN calls : i > 1 => calls[i].at \in Destroying
  /\ stage \in {"open", "import"} =>
       \A i \in DOMAIN calls : calls[i].at \in Destroying => calls[i].reported

(* An instance has its events exactly with its player; what scripts ask for*)
(* is reset with it.                                                       *)
ResetWhere ==
  \A p \in Players :
    /\ m_Players[p].mEvents = m_Players[p].mID
    /\ ~m_Players[p].mID => m_Players[p].mTrackHeading = 0 /\ m_Players[p].mKickBanHeader = 0

(* The instances are of the players the server has, but for those that a   *)
(* reload has still to import.                                             *)
OnlineWhere ==
  \A p \in Players :
    /\ stage = "open" => m_Players[p].mID = server[p].online
    /\ stage = "import" => m_Players[p].mID = (server[p].online /\ p \notin rest)

(* What has been got of what was asked for.                                *)
GotWhere ==
  \A p \in Players : history[p].asked > 0 => history[p].got <= history[p].asked

(* Listeners of the health are told what history has as told last.         *)
ToldWhere ==
  \A i \in DOMAIN calls :
    calls[i].at \in TellsHealth => calls[i].new = history[calls[i].player].told

(* A reason that waits for its player is one of the player's.              *)
ReasonWhere ==
  \A p \in Players :
    m_Players[p].mKickBanHeader # 0 => m_Players[p].mKickBanHeader \in history[p].reasons

PlayerInv ==
  /\ PlayerTypeOK
  /\ CallsWhere /\ ResetWhere /\ OnlineWhere
  /\ GotWhere /\ TrackedAsAsked
  /\ ToldWhere /\ LastIsTold
  /\ ReasonWhere /\ KickedFor
=============================================================================
