---------------------------- MODULE PlayerPoolProofs ----------------------------
(***************************************************************************)
(* Proofs about PlayerPool, for any players, values, headers and counts,   *)
(* and any nesting of callbacks: that the instances are those of the       *)
(* players there are, that listeners are told what they asked for, and that*)
(* what is told is the player's own.                                       *)
(***************************************************************************)
EXTENDS PlayerPool, SequenceTheorems, TLAPS

(* A listener is about to be told the health of p.                         *)
Telling(p) == \E i \in DOMAIN calls : calls[i].player = p /\ calls[i].at \in TellsHealth

-----------------------------------------------------------------------------
(* The frames of calls.                                                    *)
LEMMA Pushed ==
  ASSUME NEW c \in Seq(Frame), NEW f \in Frame
  PROVE  /\ Append(c, f) \in Seq(Frame)
         /\ \A i \in DOMAIN c : i \in DOMAIN Append(c, f) /\ Append(c, f)[i] = c[i]
         /\ \A i \in DOMAIN Append(c, f) :
              \/ i \in DOMAIN c /\ Append(c, f)[i] = c[i]
              \/ i = Len(c) + 1 /\ Append(c, f)[i] = f
<1>1. /\ Append(c, f) \in Seq(Frame)
      /\ Len(Append(c, f)) = Len(c) + 1
      /\ \A i \in 1..Len(c) : Append(c, f)[i] = c[i]
      /\ Append(c, f)[Len(c) + 1] = f
  BY AppendProperties
<1>2. DOMAIN Append(c, f) = 1..(Len(c) + 1) /\ DOMAIN c = 1..Len(c) /\ Len(c) \in Nat
  BY <1>1, LenProperties
<1> QED  BY <1>1, <1>2

LEMMA Popped ==
  ASSUME NEW c \in Seq(Frame), c # <<>>
  PROVE  /\ Front(c) \in Seq(Frame)
         /\ Last(c) = c[Len(c)] /\ Last(c) \in Frame
         /\ Len(c) \in DOMAIN c /\ Len(c) \in Nat \ {0} /\ DOMAIN c = 1..Len(c)
         /\ Len(Front(c)) = Len(c) - 1
         /\ \A i \in DOMAIN Front(c) : i \in DOMAIN c /\ i # Len(c) /\ Front(c)[i] = c[i]
         /\ \A i \in DOMAIN c : i # Len(c) => i \in DOMAIN Front(c)
<1>1. Len(c) \in Nat \ {0} /\ DOMAIN c = 1..Len(c) /\ \A i \in 1..Len(c) : c[i] \in Frame
  BY LenProperties, EmptySeq, ElementOfSeq
<1> DEFINE t == Front(c)
<1>2. /\ t \in Seq(Frame) /\ Len(t) = Len(c) - 1
      /\ \A i \in 1..(Len(c) - 1) : t[i] = c[i]
  <2>1. t = SubSeq(c, 1, Len(c) - 1)
    BY DEF Front
  <2>2. \A i \in 1..(Len(c) - 1) : c[i] \in Frame
    BY <1>1
  <2> HIDE DEF t
  <2> QED  BY <1>1, <2>1, <2>2, SubSeqProperties
<1>3. DOMAIN t = 1..(Len(c) - 1)
  BY <1>2, LenProperties
<1> HIDE DEF t
<1>4. /\ \A i \in DOMAIN t : i \in DOMAIN c /\ i # Len(c) /\ t[i] = c[i]
      /\ \A i \in DOMAIN c : i # Len(c) => i \in DOMAIN t
  BY <1>1, <1>2, <1>3
<1>5. Last(c) = c[Len(c)] /\ Len(c) \in DOMAIN c
  BY <1>1 DEF Last
<1>6. Last(c) \in Frame
  BY <1>1, <1>5
<1> QED  BY <1>1, <1>2, <1>4, <1>5, <1>6 DEF t

LEMMA Replaced ==
  ASSUME NEW c \in Seq(Frame), c # <<>>, NEW f \in Frame
  PROVE  /\ Append(Front(c), f) \in Seq(Frame)
         /\ \A i \in DOMAIN Append(Front(c), f) :
              \/ i \in DOMAIN c /\ i # Len(c) /\ Append(Front(c), f)[i] = c[i]
              \/ i = Len(c) /\ Append(Front(c), f)[i] = f
         /\ \A i \in DOMAIN c :
              i \in DOMAIN Append(Front(c), f)
              /\ (i # Len(c) => Append(Front(c), f)[i] = c[i])
              /\ (i = Len(c) => Append(Front(c), f)[i] = f)
<1> DEFINE t == Front(c)
<1>1. /\ t \in Seq(Frame) /\ Len(t) = Len(c) - 1 /\ Len(c) \in Nat \ {0}
      /\ DOMAIN c = 1..Len(c)
      /\ \A i \in DOMAIN t : i \in DOMAIN c /\ i # Len(c) /\ t[i] = c[i]
      /\ \A i \in DOMAIN c : i # Len(c) => i \in DOMAIN t
  BY Popped
<1> HIDE DEF t
<1>2. /\ Append(t, f) \in Seq(Frame)
      /\ Len(Append(t, f)) = Len(t) + 1
      /\ \A i \in 1..Len(t) : Append(t, f)[i] = t[i]
      /\ Append(t, f)[Len(t) + 1] = f
  BY <1>1, AppendProperties
<1>3. DOMAIN Append(t, f) = 1..Len(c) /\ DOMAIN t = 1..Len(t) /\ Len(t) + 1 = Len(c)
  BY <1>1, <1>2, LenProperties
<1>4. Append(t, f)[Len(c)] = f /\ \A i \in DOMAIN t : Append(t, f)[i] = c[i]
  BY <1>1, <1>2, <1>3
<1> QED  BY <1>1, <1>2, <1>3, <1>4 DEF t

-----------------------------------------------------------------------------
(* The types of what is read.                                              *)
LEMMA PlayerNow ==
  ASSUME PlayerInv
  PROVE  /\ PlayerTypeOK /\ CallsWhere /\ ResetWhere /\ OnlineWhere /\ GotWhere /\ TrackedAsAsked
         /\ ToldWhere /\ LastIsTold /\ ReasonWhere /\ KickedFor
         /\ calls \in Seq(Frame) /\ m_Players \in [Players -> Instance]
         /\ \A p \in Players :
              /\ m_Players[p] \in Instance
              /\ server[p] \in [online : BOOLEAN, heading : Values, health : Values]
              /\ history[p] \in [asked : Tracks, got : Nat, told : Values,
                                 reasons : SUBSET Headers, failed : BOOLEAN]
         /\ \A i \in DOMAIN calls : calls[i] \in Frame /\ calls[i].player \in Players
<1>1. PlayerTypeOK /\ calls \in Seq(Frame)
  BY DEF PlayerInv, PlayerTypeOK
<1>2. \A i \in DOMAIN calls : calls[i] \in Frame
  BY <1>1, ElementOfSeq, LenProperties
<1>3. \A i \in DOMAIN calls : calls[i].player \in Players
  BY <1>2 DEF Frame
<1> QED  BY <1>1, <1>2, <1>3 DEF PlayerInv, PlayerTypeOK

(* The callback that is innermost: only ends of players are within others. *)
LEMMA TopNow ==
  ASSUME PlayerInv, calls # <<>>
  PROVE  /\ Top = calls[Len(calls)] /\ Top \in Frame /\ Top.player \in Players
         /\ Len(calls) \in DOMAIN calls /\ Len(calls) \in Nat \ {0}
         /\ DOMAIN calls = 1..Len(calls)
         /\ Top.at \notin Destroying => Len(calls) = 1
         /\ Top.at \in TellsHealth => Top.new = history[Top.player].told
<1>1. /\ Top = calls[Len(calls)] /\ Top \in Frame /\ Len(calls) \in DOMAIN calls
      /\ Len(calls) \in Nat \ {0} /\ DOMAIN calls = 1..Len(calls)
  BY PlayerNow, Popped DEF Top
<1>2. Top.player \in Players
  BY <1>1 DEF Frame
<1>3. Top.at \notin Destroying => Len(calls) = 1
  BY <1>1, PlayerNow DEF CallsWhere
<1>4. Top.at \in TellsHealth => Top.new = history[Top.player].told
  BY <1>1, PlayerNow DEF ToldWhere
<1> QED  BY <1>1, <1>2, <1>3, <1>4

(* What history says of what is told and of reasons stays, or grows.       *)
Lasting == \A p \in Players : /\ history'[p].told = history[p].told
                              /\ history[p].reasons \subseteq history'[p].reasons

(* A callback begins, or a player ends within one.                         *)
LEMMA CallsPush ==
  ASSUME PlayerInv, NEW f \in Frame, calls' = Append(calls, f),
         calls = <<>> \/ (f.at \in Destroying /\ Lasting),
         calls = <<>> \/ stage' = stage,
         stage' \in {"open", "import"} /\ f.at \in Destroying => f.reported,
         f.at \notin TellsHealth,
         f.header # 0 => f.header \in history'[f.player].reasons
  PROVE  /\ calls' \in Seq(Frame) /\ CallsWhere' /\ ToldWhere' /\ KickedFor'
         /\ \A p \in Players : Telling(p) => Telling(p)'
<1>1. /\ calls \in Seq(Frame) /\ CallsWhere /\ ToldWhere /\ KickedFor
      /\ \A i \in DOMAIN calls : calls[i].player \in Players
  BY PlayerNow
<1>2. /\ calls' \in Seq(Frame)
      /\ \A i \in DOMAIN calls : i \in DOMAIN calls' /\ calls'[i] = calls[i]
      /\ \A i \in DOMAIN calls' :
           \/ i \in DOMAIN calls /\ calls'[i] = calls[i]
           \/ i = Len(calls) + 1 /\ calls'[i] = f
  BY <1>1, Pushed
<1>3. calls = <<>> => Len(calls) + 1 = 1 /\ DOMAIN calls = {}
  OBVIOUS
<1>4. CallsWhere'
  BY <1>1, <1>2, <1>3 DEF CallsWhere
<1>5. ToldWhere'
  BY <1>1, <1>2, <1>3 DEF ToldWhere, Lasting
<1>6. KickedFor'
  BY <1>1, <1>2, <1>3 DEF KickedFor, Lasting
<1>7. \A p \in Players : Telling(p) => Telling(p)'
  BY <1>2 DEF Telling
<1> QED  BY <1>2, <1>4, <1>5, <1>6, <1>7

(* A callback returns, or fails.                                           *)
LEMMA CallsPop ==
  ASSUME PlayerInv, calls # <<>>, calls' = Front(calls),
         stage' \in {stage, "undefined"}, Lasting
  PROVE  /\ calls' \in Seq(Frame) /\ CallsWhere' /\ ToldWhere' /\ KickedFor'
         /\ \A p \in Players :
              Telling(p) /\ (p # Top.player \/ Top.at \notin TellsHealth) => Telling(p)'
<1>1. /\ calls \in Seq(Frame) /\ CallsWhere /\ ToldWhere /\ KickedFor
      /\ \A i \in DOMAIN calls : calls[i].player \in Players
  BY PlayerNow
<1>2. /\ calls' \in Seq(Frame) /\ Top = calls[Len(calls)]
      /\ \A i \in DOMAIN calls' : i \in DOMAIN calls /\ calls'[i] = calls[i]
      /\ \A i \in DOMAIN calls : i # Len(calls) => i \in DOMAIN calls'
  BY <1>1, Popped DEF Top
<1>3. CallsWhere'
  BY <1>1, <1>2 DEF CallsWhere
<1>4. ToldWhere'
  BY <1>1, <1>2 DEF ToldWhere, Lasting
<1>5. KickedFor'
  BY <1>1, <1>2 DEF KickedFor, Lasting
<1>6. \A p \in Players :
        Telling(p) /\ (p # Top.player \/ Top.at \notin TellsHealth) => Telling(p)'
  BY <1>2 DEF Telling
<1> QED  BY <1>2, <1>3, <1>4, <1>5, <1>6

(* A callback goes on to its next point.                                   *)
LEMMA CallsMove ==
  ASSUME PlayerInv, calls # <<>>, NEW f \in Frame, calls' = Append(Front(calls), f),
         f.player = Top.player, f.header = Top.header, f.reported = Top.reported,
         f.at \in Destroying <=> Top.at \in Destroying,
         stage' = stage,
         Lasting \/ (Top.at \notin Destroying
                       /\ \A p \in Players : history'[p].reasons = history[p].reasons),
         f.at \in TellsHealth => f.new = history'[f.player].told
  PROVE  /\ calls' \in Seq(Frame) /\ CallsWhere' /\ ToldWhere' /\ KickedFor'
         /\ \A p \in Players :
              Telling(p) /\ (p # Top.player \/ Top.at \notin TellsHealth) => Telling(p)'
         /\ f.at \in TellsHealth => \A p \in Players : p = Top.player => Telling(p)'
<1>1. /\ calls \in Seq(Frame) /\ CallsWhere /\ ToldWhere /\ KickedFor
      /\ \A i \in DOMAIN calls : calls[i].player \in Players
  BY PlayerNow
<1>2. /\ Top = calls[Len(calls)] /\ Len(calls) \in DOMAIN calls
      /\ Top.at \notin Destroying => Len(calls) = 1
      /\ DOMAIN calls = 1..Len(calls)
  BY TopNow
<1>3. /\ calls' \in Seq(Frame)
      /\ \A i \in DOMAIN calls' :
           \/ i \in DOMAIN calls /\ i # Len(calls) /\ calls'[i] = calls[i]
           \/ i = Len(calls) /\ calls'[i] = f
      /\ \A i \in DOMAIN calls : i \in DOMAIN calls'
                                 /\ (i # Len(calls) => calls'[i] = calls[i])
                                 /\ (i = Len(calls) => calls'[i] = f)
  BY <1>1, Replaced
<1>4. CallsWhere'
  BY <1>1, <1>2, <1>3 DEF CallsWhere
<1>5. ToldWhere'
  <2>1. Len(calls) = 1 => \A i \in DOMAIN calls' : i = Len(calls) /\ calls'[i] = f
    BY <1>2, <1>3
  <2>2. CASE Lasting
    BY <1>1, <1>3, <2>2 DEF ToldWhere, Lasting
  <2>3. CASE Top.at \notin Destroying
    BY <1>2, <2>1, <2>3 DEF ToldWhere
  <2> QED  BY <2>2, <2>3
<1>6. KickedFor'
  BY <1>1, <1>2, <1>3 DEF KickedFor, Lasting
<1>7. \A p \in Players :
        Telling(p) /\ (p # Top.player \/ Top.at \notin TellsHealth) => Telling(p)'
  BY <1>2, <1>3 DEF Telling
<1>8. f.at \in TellsHealth => \A p \in Players : p = Top.player => Telling(p)'
  <2>1. Len(calls) \in DOMAIN calls' /\ calls'[Len(calls)] = f
    BY <1>2, <1>3
  <2> QED  BY <2>1 DEF Telling
<1> QED  BY <1>3, <1>4, <1>5, <1>6, <1>7, <1>8

(* No callback begins or goes on.                                          *)
LEMMA CallsStay ==
  ASSUME PlayerInv, calls' = calls,
         calls = <<>> \/ (stage' \in {stage, "undefined"} /\ Lasting)
  PROVE  /\ calls' \in Seq(Frame) /\ CallsWhere' /\ ToldWhere' /\ KickedFor'
         /\ \A p \in Players : Telling(p) => Telling(p)'
<1>1. /\ calls \in Seq(Frame) /\ CallsWhere /\ ToldWhere /\ KickedFor
      /\ \A i \in DOMAIN calls : calls[i].player \in Players
  BY PlayerNow
<1>2. calls = <<>> => DOMAIN calls = {}
  OBVIOUS
<1>3. CallsWhere'
  BY <1>1, <1>2 DEF CallsWhere
<1>4. ToldWhere'
  BY <1>1, <1>2 DEF ToldWhere, Lasting
<1>5. KickedFor'
  BY <1>1, <1>2 DEF KickedFor, Lasting
<1>6. \A p \in Players : Telling(p) => Telling(p)'
  BY DEF Telling
<1> QED  BY <1>1, <1>3, <1>4, <1>5, <1>6

-----------------------------------------------------------------------------
(* The players.                                                            *)

(* What is not about calls holds after a step that leaves instances alone. *)
LEMMA InstancesStay ==
  ASSUME PlayerInv, UNCHANGED <<m_Players, rest>>, stage' \in {stage, "undefined"},
         \A p \in Players : server'[p].online = server[p].online,
         \A p \in Players : /\ history'[p].asked = history[p].asked
                            /\ history'[p].got = history[p].got
                            /\ history'[p].reasons = history[p].reasons
  PROVE  /\ ResetWhere' /\ OnlineWhere' /\ GotWhere' /\ TrackedAsAsked' /\ ReasonWhere'
         /\ m_Players' \in [Players -> Instance]
         /\ stage' \in {"open", "clean", "import", "undefined"} /\ rest' \subseteq Players
BY PlayerNow
DEF PlayerTypeOK, ResetWhere, OnlineWhere, GotWhere, TrackedAsAsked, ReasonWhere

(* What is told of the health stays right for a player whose last known    *)
(* health and history do.                                                  *)
LEMMA LastStays ==
  ASSUME PlayerInv, NEW p \in Players,
         m_Players'[p].mID => m_Players[p].mID,
         history[p].failed => history'[p].failed,
         Telling(p) => Telling(p)',
         m_Players'[p].mLastHealth = m_Players[p].mLastHealth,
         history'[p].told = history[p].told
  PROVE  \/ ~m_Players'[p].mID \/ history'[p].failed \/ Telling(p)'
         \/ m_Players'[p].mLastHealth = history'[p].told
<1>1. \/ ~m_Players[p].mID \/ history[p].failed \/ Telling(p)
      \/ m_Players[p].mLastHealth = history[p].told
  BY PlayerNow DEF LastIsTold, Telling, TellsHealth
<1> QED  BY <1>1

LEMMA LastHolds ==
  ASSUME \A p \in Players : \/ ~m_Players'[p].mID \/ history'[p].failed \/ Telling(p)'
                            \/ m_Players'[p].mLastHealth = history'[p].told
  PROVE  LastIsTold'
BY DEF LastIsTold, Telling, TellsHealth

(* A step of calls alone.                                                  *)
LEMMA CallsAloneInv ==
  ASSUME PlayerInv, OwnTold \/ Returns \/ ConnectThrows
                    \/ \E p \in Players : OnPlayerDisconnect(p, TRUE) \/ OnPlayerDisconnect(p, FALSE)
  PROVE  PlayerInv'
<1>1. UNCHANGED <<server, m_Players, rest, history>> /\ stage' \in {stage, "undefined"}
  BY DEF OwnTold, Returns, ConnectThrows, OnPlayerDisconnect
<1>2. /\ ResetWhere' /\ OnlineWhere' /\ GotWhere' /\ TrackedAsAsked' /\ ReasonWhere'
      /\ m_Players' \in [Players -> Instance]
      /\ stage' \in {"open", "clean", "import", "undefined"} /\ rest' \subseteq Players
      /\ Lasting
  BY <1>1, InstancesStay DEF Lasting
<1>3. /\ calls' \in Seq(Frame) /\ CallsWhere' /\ ToldWhere' /\ KickedFor'
      /\ \A p \in Players : Telling(p) => Telling(p)'
  <2>1. CASE OwnTold
    <3> DEFINE f == [Top EXCEPT !.at = CASE Top.at = "mOnHeading"   -> "mOnPlayerHeading"
                                         [] Top.at = "mOnHealth"    -> "mOnPlayerHealth"
                                         [] Top.at = "mOnUpdate"    -> "mOnPlayerUpdate"
                                         [] Top.at = "mOnDestroyed" -> "mOnPlayerDestroyed"]
    <3>1. calls # <<>> /\ Top.at \in Own /\ calls' = Append(Front(calls), f)
      BY <2>1 DEF OwnTold, Goes
    <3>2. /\ f \in Frame /\ f.player = Top.player /\ f.header = Top.header
          /\ f.reported = Top.reported /\ f.new = Top.new
          /\ f.at \in Destroying <=> Top.at \in Destroying
          /\ f.at \in TellsHealth <=> Top.at \in TellsHealth
      BY <3>1, TopNow DEF Frame, Own, Common, Destroying, TellsHealth
    <3>3. stage' = stage /\ history' = history
      BY <2>1 DEF OwnTold
    <3>4. f.at \in TellsHealth => f.new = history'[f.player].told
      BY <3>1, <3>2, <3>3, TopNow
    <3> HIDE DEF f
    <3>5. /\ calls' \in Seq(Frame) /\ CallsWhere' /\ ToldWhere' /\ KickedFor'
          /\ \A p \in Players :
               Telling(p) /\ (p # Top.player \/ Top.at \notin TellsHealth) => Telling(p)'
          /\ f.at \in TellsHealth => \A p \in Players : p = Top.player => Telling(p)'
      BY <1>2, <3>1, <3>2, <3>3, <3>4, CallsMove
    <3>6. Top.at \in TellsHealth => \A p \in Players : p = Top.player => Telling(p)'
      BY <3>2, <3>5
    <3> QED  BY <3>5, <3>6
  <2>2. CASE Returns \/ ConnectThrows
    <3>1. calls # <<>> /\ calls' = Front(calls) /\ Top.at \notin TellsHealth
      BY <2>2 DEF Returns, ConnectThrows, TellsHealth
    <3> QED  BY <1>1, <1>2, <3>1, CallsPop
  <2>3. ASSUME NEW p \in Players, NEW h \in Headers \cup {0},
               calls = <<>>, calls' = Append(calls, Leaving(p, h, TRUE)), h \in {0, m_Players[p].mKickBanHeader}
        PROVE  /\ calls' \in Seq(Frame) /\ CallsWhere' /\ ToldWhere' /\ KickedFor'
               /\ \A q \in Players : Telling(q) => Telling(q)'
    <3> DEFINE f == Leaving(p, h, TRUE)
    <3>1. /\ f \in Frame /\ f.player = p /\ f.header = h /\ f.reported /\ f.at = "mOnDestroyed"
      BY <2>3, PlayerAssumption DEF Leaving, At, Frame, Own
    <3>2. h # 0 => h \in history'[p].reasons
      BY <1>1, <2>3, PlayerNow DEF ReasonWhere
    <3> HIDE DEF f
    <3>3. f.at \notin TellsHealth /\ (f.header # 0 => f.header \in history'[f.player].reasons)
      BY <3>1, <3>2 DEF TellsHealth
    <3>4. calls' = Append(calls, f)
      BY <2>3 DEF f
    <3> QED  BY <2>3, <3>1, <3>3, <3>4, CallsPush
  <2>4. CASE \E p \in Players : OnPlayerDisconnect(p, TRUE) \/ OnPlayerDisconnect(p, FALSE)
    <3>1. PICK p \in Players : OnPlayerDisconnect(p, TRUE) \/ OnPlayerDisconnect(p, FALSE)
      BY <2>4
    <3>2. m_Players[p].mKickBanHeader \in Headers \cup {0}
      BY PlayerNow DEF Instance
    <3>3. calls = <<>> /\ \E h \in {0, m_Players[p].mKickBanHeader} :
                            calls' = Append(calls, Leaving(p, h, TRUE))
      BY <3>1 DEF OnPlayerDisconnect, Begins, Quiet
    <3> QED  BY <2>3, <3>2, <3>3
  <2> QED  BY <2>1, <2>2, <2>4
<1>4. LastIsTold'
  BY <1>1, <1>3, LastStays, LastHolds
<1>5. PlayerTypeOK'
  BY <1>1, <1>2, <1>3, PlayerNow DEF PlayerTypeOK
<1> QED  BY <1>2, <1>3, <1>4, <1>5 DEF PlayerInv

(* Values of the server change, and what is told.                          *)
LEMMA OnPlayerUpdateInv ==
  ASSUME PlayerInv, NEW p \in Players, NEW heading \in Values, NEW health \in Values,
         OnPlayerUpdate(p, heading, health)
  PROVE  PlayerInv'
<1>1. /\ calls = <<>> /\ calls' = Append(calls, At("heading", p))
      /\ server' = [server EXCEPT ![p].heading = heading, ![p].health = health]
      /\ UNCHANGED <<m_Players, stage, rest, history>>
  BY DEF OnPlayerUpdate, Begins, Quiet
<1>2. server' \in [Players -> [online : BOOLEAN, heading : Values, health : Values]]
      /\ \A q \in Players : server'[q].online = server[q].online
  BY <1>1, PlayerNow DEF PlayerTypeOK
<1>3. /\ ResetWhere' /\ OnlineWhere' /\ GotWhere' /\ TrackedAsAsked' /\ ReasonWhere'
      /\ m_Players' \in [Players -> Instance]
      /\ stage' \in {"open", "clean", "import", "undefined"} /\ rest' \subseteq Players
  BY <1>1, <1>2, InstancesStay
<1>4. /\ calls' \in Seq(Frame) /\ CallsWhere' /\ ToldWhere' /\ KickedFor'
      /\ \A q \in Players : Telling(q) => Telling(q)'
  <2> DEFINE f == At("heading", p)
  <2>1. f \in Frame /\ f.at \notin Destroying /\ f.at \notin TellsHealth /\ f.header = 0
    BY PlayerAssumption DEF At, Frame, Compared, Destroying, TellsHealth
  <2> HIDE DEF f
  <2>2. calls' = Append(calls, f)
    BY <1>1 DEF f
  <2> QED  BY <1>1, <2>1, <2>2, CallsPush
<1>5. LastIsTold'
  BY <1>1, <1>4, LastStays, LastHolds
<1>6. PlayerTypeOK'
  BY <1>1, <1>2, <1>3, <1>4, PlayerNow DEF PlayerTypeOK
<1> QED  BY <1>3, <1>4, <1>5, <1>6 DEF PlayerInv

LEMMA SetHealthInv ==
  ASSUME PlayerInv, NEW p \in Players, NEW health \in Values, SetHealth(p, health)
  PROVE  PlayerInv'
<1>1. /\ server' = [server EXCEPT ![p].health = health]
      /\ UNCHANGED <<m_Players, calls, stage, rest, history>>
  BY DEF SetHealth
<1>2. server' \in [Players -> [online : BOOLEAN, heading : Values, health : Values]]
      /\ \A q \in Players : server'[q].online = server[q].online
  BY <1>1, PlayerNow DEF PlayerTypeOK
<1>3. /\ ResetWhere' /\ OnlineWhere' /\ GotWhere' /\ TrackedAsAsked' /\ ReasonWhere'
      /\ m_Players' \in [Players -> Instance]
      /\ stage' \in {"open", "clean", "import", "undefined"} /\ rest' \subseteq Players
  BY <1>1, <1>2, InstancesStay
<1>4. /\ calls' \in Seq(Frame) /\ CallsWhere' /\ ToldWhere' /\ KickedFor'
      /\ \A q \in Players : Telling(q) => Telling(q)'
  BY <1>1, CallsStay DEF Lasting
<1>5. LastIsTold'
  BY <1>1, <1>4, LastStays, LastHolds
<1>6. PlayerTypeOK'
  BY <1>1, <1>2, <1>3, <1>4, PlayerNow DEF PlayerTypeOK
<1> QED  BY <1>3, <1>4, <1>5, <1>6 DEF PlayerInv

LEMMA CompareHealthInv ==
  ASSUME PlayerInv, CompareHealth
  PROVE  PlayerInv'
<1> DEFINE p   == Top.player
           new == server[p].health
<1>1. /\ calls # <<>> /\ Top.at = "health" /\ Top.at \notin Destroying /\ Top.at \notin TellsHealth
      /\ UNCHANGED <<server, m_Players, rest>>
  BY DEF CompareHealth, Destroying, TellsHealth
<1>2. p \in Players /\ Top \in Frame /\ new \in Values
  BY <1>1, TopNow, PlayerNow
<1>3. CASE new # m_Players[p].mLastHealth
  <2> DEFINE f == [Top EXCEPT !.at = "mOnHealth", !.new = new]
  <2>1. history' = [history EXCEPT ![p].told = new] /\ GoesToOwn(f)
    BY <1>3 DEF CompareHealth
  <2>2. /\ f \in Frame /\ f.player = p /\ f.header = Top.header /\ f.reported = Top.reported
        /\ f.new = new /\ f.at \notin Destroying /\ f.at \in TellsHealth
    BY <1>2 DEF Frame, Own, Destroying, TellsHealth
  <2>3. /\ history' \in [Players -> [asked : Tracks, got : Nat, told : Values,
                                    reasons : SUBSET Headers, failed : BOOLEAN]]
        /\ \A q \in Players : /\ history'[q].asked = history[q].asked
                              /\ history'[q].got = history[q].got
                              /\ history'[q].reasons = history[q].reasons
                              /\ history'[q].failed = history[q].failed
                              /\ q # p => history'[q].told = history[q].told
        /\ history'[p].told = new
    BY <1>2, <2>1, PlayerNow DEF PlayerTypeOK
  <2> HIDE DEF f, new
  <2>4. CASE m_Players[p].mEvents
    <3>1. calls' = Append(Front(calls), f) /\ stage' = stage
      BY <2>1, <2>2, <2>4 DEF GoesToOwn, Goes
    <3>2. /\ ResetWhere' /\ OnlineWhere' /\ GotWhere' /\ TrackedAsAsked' /\ ReasonWhere'
          /\ m_Players' \in [Players -> Instance]
          /\ stage' \in {"open", "clean", "import", "undefined"} /\ rest' \subseteq Players
      BY <1>1, <2>3, <3>1, InstancesStay
    <3>3. /\ calls' \in Seq(Frame) /\ CallsWhere' /\ ToldWhere' /\ KickedFor'
          /\ \A q \in Players : Telling(q) => Telling(q)'
          /\ \A q \in Players : q = p => Telling(q)'
      BY <1>1, <1>2, <2>2, <2>3, <3>1, CallsMove
    <3>4. LastIsTold'
      <4>1. \A q \in Players : q # p =>
              \/ ~m_Players'[q].mID \/ history'[q].failed \/ Telling(q)'
              \/ m_Players'[q].mLastHealth = history'[q].told
        BY <1>1, <2>3, <3>3, LastStays
      <4> QED  BY <3>3, <4>1, LastHolds
    <3>5. PlayerTypeOK'
      BY <1>1, <2>3, <3>2, <3>3, PlayerNow DEF PlayerTypeOK
    <3> QED  BY <3>2, <3>3, <3>4, <3>5 DEF PlayerInv
  <2>5. CASE ~m_Players[p].mEvents
    <3>1. calls' = calls /\ stage' = "undefined"
      BY <2>1, <2>2, <2>5 DEF GoesToOwn
    <3>2. /\ ResetWhere' /\ OnlineWhere' /\ GotWhere' /\ TrackedAsAsked' /\ ReasonWhere'
          /\ m_Players' \in [Players -> Instance]
          /\ stage' \in {"open", "clean", "import", "undefined"} /\ rest' \subseteq Players
      BY <1>1, <2>3, <3>1, InstancesStay
    <3>3. Len(calls) = 1 /\ DOMAIN calls = {1} /\ calls[1].at \notin TellsHealth
          /\ calls[1].at \notin Destroying
      <4>1. Len(calls) = 1 /\ Top = calls[1] /\ DOMAIN calls = 1..1
        BY <1>1, TopNow
      <4>2. DOMAIN calls = {1}
        BY <4>1
      <4> QED  BY <1>1, <4>1, <4>2
    <3>4. /\ calls' \in Seq(Frame) /\ CallsWhere' /\ ToldWhere' /\ KickedFor'
          /\ \A q \in Players : Telling(q) => Telling(q)'
      <4>1. CallsWhere' /\ ToldWhere'
        BY <3>1, <3>3 DEF CallsWhere, ToldWhere
      <4>2. KickedFor'
        BY <2>3, <3>1, PlayerNow DEF KickedFor
      <4>3. \A q \in Players : Telling(q) => Telling(q)'
        BY <3>1 DEF Telling
      <4> QED  BY <3>1, <4>1, <4>2, <4>3, PlayerNow
    <3>5. LastIsTold'
      <4>1. \A q \in Players : q # p =>
              \/ ~m_Players'[q].mID \/ history'[q].failed \/ Telling(q)'
              \/ m_Players'[q].mLastHealth = history'[q].told
        BY <1>1, <2>3, <3>4, LastStays
      <4>2. ~m_Players'[p].mID
        BY <1>1, <1>2, <2>5, PlayerNow DEF ResetWhere
      <4> QED  BY <4>1, <4>2, LastHolds
    <3>6. PlayerTypeOK'
      BY <1>1, <2>3, <3>2, <3>4, PlayerNow DEF PlayerTypeOK
    <3> QED  BY <3>2, <3>4, <3>5, <3>6 DEF PlayerInv
  <2> QED  BY <2>4, <2>5
<1>4. CASE new = m_Players[p].mLastHealth
  <2> DEFINE f == [Top EXCEPT !.at = "mOnUpdate"]
  <2>1. history' = history /\ GoesToOwn(f) /\ Lasting
    BY <1>4 DEF CompareHealth, Lasting
  <2>2. /\ f \in Frame /\ f.player = p /\ f.header = Top.header /\ f.reported = Top.reported
        /\ f.at \notin Destroying /\ f.at \notin TellsHealth
    BY <1>2 DEF Frame, Own, Destroying, TellsHealth
  <2> HIDE DEF f, new
  <2>3. \/ calls' = Append(Front(calls), f) /\ stage' = stage
        \/ calls' = calls /\ stage' = "undefined"
    BY <2>1, <2>2 DEF GoesToOwn, Goes
  <2>4. /\ ResetWhere' /\ OnlineWhere' /\ GotWhere' /\ TrackedAsAsked' /\ ReasonWhere'
        /\ m_Players' \in [Players -> Instance]
        /\ stage' \in {"open", "clean", "import", "undefined"} /\ rest' \subseteq Players
    BY <1>1, <2>1, <2>3, InstancesStay
  <2>5. /\ calls' \in Seq(Frame) /\ CallsWhere' /\ ToldWhere' /\ KickedFor'
        /\ \A q \in Players : Telling(q) => Telling(q)'
    BY <1>1, <1>2, <2>1, <2>2, <2>3, CallsMove, CallsStay
  <2>6. LastIsTold'
    BY <1>1, <2>1, <2>5, LastStays, LastHolds
  <2>7. PlayerTypeOK'
    BY <1>1, <2>1, <2>4, <2>5, PlayerNow DEF PlayerTypeOK
  <2> QED  BY <2>4, <2>5, <2>6, <2>7 DEF PlayerInv
<1> QED  BY <1>3, <1>4

(* A listener fails: one of the health leaves that to be told.             *)
LEMMA UpdateThrowsInv ==
  ASSUME PlayerInv, UpdateThrows
  PROVE  PlayerInv'
<1> DEFINE p == Top.player
<1>1. /\ calls # <<>> /\ Top.at \notin Destroying /\ calls' = Front(calls)
      /\ history' = [history EXCEPT ![p].failed = @ \/ Top.at \in TellsHealth]
      /\ UNCHANGED <<server, m_Players, stage, rest>>
  BY DEF UpdateThrows, Destroying, TellsHealth
<1>2. p \in Players
  BY <1>1, TopNow
<1>3. /\ history' \in [Players -> [asked : Tracks, got : Nat, told : Values,
                                  reasons : SUBSET Headers, failed : BOOLEAN]]
      /\ \A q \in Players : /\ history'[q].asked = history[q].asked
                            /\ history'[q].got = history[q].got
                            /\ history'[q].reasons = history[q].reasons
                            /\ history'[q].told = history[q].told
                            /\ history[q].failed => history'[q].failed
      /\ Top.at \in TellsHealth => history'[p].failed
  <2>1. history \in [Players -> [asked : Tracks, got : Nat, told : Values,
                                reasons : SUBSET Headers, failed : BOOLEAN]]
    BY PlayerNow DEF PlayerTypeOK
  <2>2. CASE Top.at \in TellsHealth
    <3>1. history' = [history EXCEPT ![p].failed = TRUE]
      BY <1>1, <2>2
    <3> HIDE DEF p
    <3> QED  BY <1>2, <2>1, <3>1
  <2>3. CASE Top.at \notin TellsHealth
    <3>1. history' = history
      <4>1. history[p].failed \in BOOLEAN /\ history[p] = [history[p] EXCEPT !.failed = history[p].failed]
        BY <1>2, <2>1
      <4>2. (history[p].failed \/ Top.at \in TellsHealth) = history[p].failed
        BY <2>3, <4>1
      <4>3. history' = [history EXCEPT ![p] = [history[p] EXCEPT !.failed = history[p].failed]]
        BY <1>1, <4>2
      <4> QED  BY <1>2, <2>1, <4>1, <4>3
    <3> QED  BY <1>2, <2>1, <2>3, <3>1
  <2> QED  BY <2>2, <2>3
<1>4. Lasting
  BY <1>3 DEF Lasting
<1> HIDE DEF p
<1>5. /\ ResetWhere' /\ OnlineWhere' /\ GotWhere' /\ TrackedAsAsked' /\ ReasonWhere'
      /\ m_Players' \in [Players -> Instance]
      /\ stage' \in {"open", "clean", "import", "undefined"} /\ rest' \subseteq Players
  BY <1>1, <1>3, InstancesStay
<1>6. /\ calls' \in Seq(Frame) /\ CallsWhere' /\ ToldWhere' /\ KickedFor'
      /\ \A q \in Players :
           Telling(q) /\ (q # p \/ Top.at \notin TellsHealth) => Telling(q)'
  BY <1>1, <1>4, CallsPop DEF p
<1>7. LastIsTold'
  <2>1. \A q \in Players : q # p \/ Top.at \notin TellsHealth =>
          \/ ~m_Players'[q].mID \/ history'[q].failed \/ Telling(q)'
          \/ m_Players'[q].mLastHealth = history'[q].told
    BY <1>1, <1>3, <1>6, LastStays
  <2> QED  BY <1>3, <2>1, LastHolds
<1>8. PlayerTypeOK'
  BY <1>1, <1>3, <1>5, <1>6, PlayerNow DEF PlayerTypeOK
<1> QED  BY <1>5, <1>6, <1>7, <1>8 DEF PlayerInv

(* The listeners of the health have been called: what they were told is    *)
(* the last known health.                                                  *)
LEMMA HealthToldInv ==
  ASSUME PlayerInv, HealthTold
  PROVE  PlayerInv'
<1> DEFINE p == Top.player
           f == [Top EXCEPT !.at = "mOnUpdate"]
<1>1. /\ calls # <<>> /\ Top.at = "mOnPlayerHealth"
      /\ Top.at \notin Destroying /\ Top.at \in TellsHealth
      /\ m_Players' = [m_Players EXCEPT ![p].mLastHealth = Top.new]
      /\ history' = [history EXCEPT ![p].failed = FALSE]
      /\ GoesToOwn(f)
      /\ UNCHANGED <<server, rest>>
  BY DEF HealthTold, Destroying, TellsHealth
<1>2. p \in Players /\ Top \in Frame /\ Top.new \in Values /\ Top.new = history[p].told
  <2>1. p \in Players /\ Top \in Frame /\ Top.new = history[p].told
    BY <1>1, TopNow
  <2> QED  BY <2>1 DEF Frame
<1>3. /\ history' \in [Players -> [asked : Tracks, got : Nat, told : Values,
                                  reasons : SUBSET Headers, failed : BOOLEAN]]
      /\ \A q \in Players : /\ history'[q].asked = history[q].asked
                            /\ history'[q].got = history[q].got
                            /\ history'[q].reasons = history[q].reasons
                            /\ history'[q].told = history[q].told
                            /\ q # p => history'[q] = history[q]
  BY <1>1, <1>2, PlayerNow DEF PlayerTypeOK
<1>4. /\ m_Players' \in [Players -> Instance]
      /\ \A q \in Players : /\ m_Players'[q].mID = m_Players[q].mID
                            /\ m_Players'[q].mEvents = m_Players[q].mEvents
                            /\ m_Players'[q].mTrackHeading = m_Players[q].mTrackHeading
                            /\ m_Players'[q].mKickBanHeader = m_Players[q].mKickBanHeader
                            /\ q # p => m_Players'[q] = m_Players[q]
      /\ m_Players'[p].mLastHealth = Top.new
  <2> DEFINE n == Top.new
  <2>1. m_Players' = [m_Players EXCEPT ![p].mLastHealth = n] /\ n \in Values
        /\ m_Players \in [Players -> Instance]
    BY <1>1, <1>2, PlayerNow
  <2> HIDE DEF p, f, n
  <2>2. /\ \A q \in Players : q # p => m_Players'[q] = m_Players[q]
        /\ m_Players'[p] = [m_Players[p] EXCEPT !.mLastHealth = n]
        /\ m_Players[p] \in Instance
        /\ DOMAIN m_Players' = Players /\ m_Players' = [q \in Players |-> m_Players'[q]]
    BY <1>2, <2>1
  <2>3. /\ m_Players'[p] \in Instance
        /\ m_Players'[p].mID = m_Players[p].mID
        /\ m_Players'[p].mEvents = m_Players[p].mEvents
        /\ m_Players'[p].mTrackHeading = m_Players[p].mTrackHeading
        /\ m_Players'[p].mKickBanHeader = m_Players[p].mKickBanHeader
        /\ m_Players'[p].mLastHealth = n
    BY <2>1, <2>2 DEF Instance
  <2>4. \A q \in Players : m_Players'[q] \in Instance
    BY <2>1, <2>2, <2>3
  <2>5. m_Players' \in [Players -> Instance]
    BY <2>2, <2>4
  <2> QED  BY <2>2, <2>3, <2>5 DEF n
<1>5. /\ f \in Frame /\ f.player = p /\ f.header = Top.header /\ f.reported = Top.reported
      /\ f.at \notin Destroying /\ f.at \notin TellsHealth
  BY <1>2 DEF Frame, Own, Destroying, TellsHealth
<1>6. Lasting
  BY <1>3 DEF Lasting
<1> HIDE DEF f
<1>7. \/ calls' = Append(Front(calls), f) /\ stage' = stage
      \/ calls' = calls /\ stage' = "undefined"
  BY <1>1 DEF GoesToOwn, Goes
<1> HIDE DEF p
<1>8. /\ calls' \in Seq(Frame) /\ CallsWhere' /\ ToldWhere' /\ KickedFor'
      /\ \A q \in Players : Telling(q) /\ q # p => Telling(q)'
  BY <1>1, <1>5, <1>6, <1>7, CallsMove, CallsStay DEF p
<1>9. stage' \in {stage, "undefined"}
  BY <1>7
<1>10. /\ ResetWhere' /\ OnlineWhere' /\ GotWhere' /\ TrackedAsAsked' /\ ReasonWhere'
  BY <1>1, <1>3, <1>4, <1>9, PlayerNow
  DEF ResetWhere, OnlineWhere, GotWhere, TrackedAsAsked, ReasonWhere
<1>11. LastIsTold'
  <2>1. \A q \in Players : q # p =>
          \/ ~m_Players'[q].mID \/ history'[q].failed \/ Telling(q)'
          \/ m_Players'[q].mLastHealth = history'[q].told
    BY <1>3, <1>4, <1>8, LastStays
  <2>2. m_Players'[p].mLastHealth = history'[p].told
    BY <1>2, <1>3, <1>4 DEF p
  <2> QED  BY <2>1, <2>2, LastHolds
<1>12. PlayerTypeOK'
  BY <1>1, <1>3, <1>4, <1>8, <1>9, PlayerNow DEF PlayerTypeOK
<1> QED  BY <1>8, <1>10, <1>11, <1>12 DEF PlayerInv

(* The heading is compared and told: the count goes down before listeners  *)
(* are called, and not after.                                              *)
LEMMA CompareHeadingInv ==
  ASSUME PlayerInv, CompareHeading(TRUE)
  PROVE  PlayerInv'
<1> DEFINE p   == Top.player
           new == server[p].heading
<1>1. /\ calls # <<>> /\ Top.at = "heading" /\ Top.at \notin Destroying /\ Top.at \notin TellsHealth
      /\ UNCHANGED <<server, stage, rest>>
  BY DEF CompareHeading, Destroying, TellsHealth
<1>2. p \in Players /\ Top \in Frame /\ new \in Values
  BY <1>1, TopNow, PlayerNow
<1>3. PICK f \in Frame : /\ f.player = p /\ f.header = Top.header /\ f.reported = Top.reported
                         /\ f.at \notin Destroying /\ f.at \notin TellsHealth
                         /\ calls' = Append(Front(calls), f)
  <2>1. /\ [Top EXCEPT !.at = "mOnHeading", !.new = new] \in Frame
        /\ [Top EXCEPT !.at = "health"] \in Frame
    BY <1>2 DEF Frame, Own, Compared
  <2>2. \/ calls' = Append(Front(calls), [Top EXCEPT !.at = "mOnHeading", !.new = new])
        \/ calls' = Append(Front(calls), [Top EXCEPT !.at = "health"])
    BY DEF CompareHeading, Goes
  <2>3. CASE calls' = Append(Front(calls), [Top EXCEPT !.at = "mOnHeading", !.new = new])
    <3> DEFINE f == [Top EXCEPT !.at = "mOnHeading", !.new = new]
    <3>1. /\ f.player = p /\ f.header = Top.header /\ f.reported = Top.reported
          /\ f.at \notin Destroying /\ f.at \notin TellsHealth
      BY <1>2 DEF Frame, Destroying, TellsHealth
    <3> QED  BY <2>1, <2>3, <3>1
  <2>4. CASE calls' = Append(Front(calls), [Top EXCEPT !.at = "health"])
    <3> DEFINE f == [Top EXCEPT !.at = "health"]
    <3>1. /\ f.player = p /\ f.header = Top.header /\ f.reported = Top.reported
          /\ f.at \notin Destroying /\ f.at \notin TellsHealth
      BY <1>2 DEF Frame, Destroying, TellsHealth
    <3> QED  BY <2>1, <2>4, <3>1
  <2> QED  BY <2>2, <2>3, <2>4
<1>4. \/ /\ m_Players[p].mTrackHeading # 0
         /\ m_Players' = [m_Players EXCEPT ![p].mTrackHeading = IF @ > 0 THEN @ - 1 ELSE @]
         /\ history' = [history EXCEPT ![p].got = IF history[p].asked > 0 THEN @ + 1 ELSE 0]
      \/ /\ m_Players' = [m_Players EXCEPT ![p].mLastHeading = new]
         /\ UNCHANGED history
  BY DEF CompareHeading, Count
<1> HIDE DEF p, new
<1>5. /\ Tracks \subseteq Int /\ m_Players[p].mTrackHeading \in Nat \cup Tracks
      /\ m_Players[p].mTrackHeading \in Int
      /\ history[p].asked \in Int /\ history[p].got \in Nat /\ history[p].got \in Int
  <2>1. Tracks \subseteq Int
    BY PlayerAssumption
  <2>2. m_Players[p].mTrackHeading \in Nat \cup Tracks
    BY <1>2, PlayerNow DEF Instance
  <2>3. history[p].asked \in Tracks /\ history[p].got \in Nat
    BY <1>2, PlayerNow
  <2>4. m_Players[p].mTrackHeading \in Int
    <3>1. CASE m_Players[p].mTrackHeading \in Nat
      BY <3>1
    <3>2. CASE m_Players[p].mTrackHeading \in Tracks
      BY <2>1, <3>2
    <3> QED  BY <2>2, <3>1, <3>2
  <2>5. history[p].asked \in Int
    BY <2>1, <2>3
  <2>6. history[p].got \in Int
    BY <2>3
  <2> QED  BY <2>1, <2>2, <2>3, <2>4, <2>5, <2>6
<1>6. /\ m_Players' \in [Players -> Instance]
      /\ \A q \in Players : /\ m_Players'[q].mID = m_Players[q].mID
                            /\ m_Players'[q].mEvents = m_Players[q].mEvents
                            /\ m_Players'[q].mLastHealth = m_Players[q].mLastHealth
                            /\ m_Players'[q].mKickBanHeader = m_Players[q].mKickBanHeader
                            /\ q # p => m_Players'[q] = m_Players[q]
  <2>1. CASE m_Players' = [m_Players EXCEPT ![p].mLastHeading = new]
    BY <1>2, <2>1, PlayerNow DEF Instance
  <2>2. CASE m_Players' = [m_Players EXCEPT ![p].mTrackHeading = IF @ > 0 THEN @ - 1 ELSE @]
    <3> DEFINE n == IF m_Players[p].mTrackHeading > 0 THEN m_Players[p].mTrackHeading - 1
                                                      ELSE m_Players[p].mTrackHeading
    <3>1. n \in Nat \cup Tracks
      BY <1>5
    <3>2. m_Players' = [m_Players EXCEPT ![p].mTrackHeading = n]
      BY <2>2
    <3> HIDE DEF n
    <3> QED  BY <1>2, <3>1, <3>2, PlayerNow DEF Instance
  <2> QED  BY <1>4, <2>1, <2>2
<1>7. /\ history' \in [Players -> [asked : Tracks, got : Nat, told : Values,
                                  reasons : SUBSET Headers, failed : BOOLEAN]]
      /\ \A q \in Players : /\ history'[q].asked = history[q].asked
                            /\ history'[q].reasons = history[q].reasons
                            /\ history'[q].told = history[q].told
                            /\ history'[q].failed = history[q].failed
                            /\ q # p => history'[q] = history[q]
  <2>1. CASE UNCHANGED history
    BY <2>1, PlayerNow DEF PlayerTypeOK
  <2>2. CASE history' = [history EXCEPT ![p].got = IF history[p].asked > 0 THEN @ + 1 ELSE 0]
    <3> DEFINE n == IF history[p].asked > 0 THEN history[p].got + 1 ELSE 0
    <3>1. n \in Nat
      BY <1>5
    <3>2. history' = [history EXCEPT ![p].got = n]
      BY <2>2
    <3> HIDE DEF n
    <3> QED  BY <1>2, <3>1, <3>2, PlayerNow DEF PlayerTypeOK
  <2> QED  BY <1>4, <2>1, <2>2
<1>8. /\ ~m_Players[p].mID => m_Players'[p].mTrackHeading = 0
      /\ history'[p].asked > 0 => history'[p].got <= history'[p].asked
      /\ m_Players'[p].mID => m_Players'[p].mTrackHeading =
           IF history'[p].asked > 0 THEN history'[p].asked - history'[p].got
                                    ELSE history'[p].asked
  <2>1. /\ ~m_Players[p].mID => m_Players[p].mTrackHeading = 0
        /\ history[p].asked > 0 => history[p].got <= history[p].asked
        /\ m_Players[p].mID => m_Players[p].mTrackHeading =
             IF history[p].asked > 0 THEN history[p].asked - history[p].got
                                     ELSE history[p].asked
    BY <1>2, PlayerNow DEF ResetWhere, GotWhere, TrackedAsAsked
  <2>2. CASE m_Players' = [m_Players EXCEPT ![p].mLastHeading = new] /\ UNCHANGED history
    <3>1. m_Players'[p].mTrackHeading = m_Players[p].mTrackHeading
      BY <1>2, <2>2, PlayerNow DEF Instance
    <3> QED  BY <1>2, <1>6, <2>1, <2>2, <3>1
  <2>3. CASE /\ m_Players[p].mTrackHeading # 0
             /\ m_Players' = [m_Players EXCEPT ![p].mTrackHeading = IF @ > 0 THEN @ - 1 ELSE @]
             /\ history' = [history EXCEPT ![p].got = IF history[p].asked > 0 THEN @ + 1 ELSE 0]
    <3>1. /\ m_Players'[p].mTrackHeading = IF m_Players[p].mTrackHeading > 0
                                             THEN m_Players[p].mTrackHeading - 1
                                             ELSE m_Players[p].mTrackHeading
          /\ history'[p].got = IF history[p].asked > 0 THEN history[p].got + 1 ELSE 0
          /\ history'[p].asked = history[p].asked
      BY <1>2, <1>7, <2>3, PlayerNow DEF Instance, PlayerTypeOK
    <3>2. m_Players[p].mID
      BY <2>1, <2>3
    <3> QED  BY <1>5, <2>1, <2>3, <3>1, <3>2
  <2> QED  BY <1>4, <2>2, <2>3
<1>9. Lasting
  BY <1>7 DEF Lasting
<1>10. /\ calls' \in Seq(Frame) /\ CallsWhere' /\ ToldWhere' /\ KickedFor'
       /\ \A q \in Players : Telling(q) => Telling(q)'
  BY <1>1, <1>3, <1>9, CallsMove DEF p
<1>11. ResetWhere' /\ OnlineWhere' /\ ReasonWhere'
  BY <1>1, <1>2, <1>6, <1>7, <1>8, PlayerNow DEF ResetWhere, OnlineWhere, ReasonWhere
<1>12. GotWhere' /\ TrackedAsAsked'
  <2>1. \A q \in Players : q # p => m_Players'[q] = m_Players[q] /\ history'[q] = history[q]
    BY <1>6, <1>7
  <2>2. GotWhere'
    BY <1>8, <2>1, PlayerNow DEF GotWhere
  <2>3. TrackedAsAsked'
    BY <1>8, <2>1, PlayerNow DEF TrackedAsAsked
  <2> QED  BY <2>2, <2>3
<1>13. LastIsTold'
  BY <1>6, <1>7, <1>10, LastStays, LastHolds
<1>14. PlayerTypeOK'
  BY <1>1, <1>6, <1>7, <1>10, PlayerNow DEF PlayerTypeOK
<1> QED  BY <1>10, <1>11, <1>12, <1>13, <1>14 DEF PlayerInv

-----------------------------------------------------------------------------
(* One player at a time.                                                   *)

(* What the invariant says of a player alone.                              *)
Right(p) ==
  /\ m_Players[p].mEvents = m_Players[p].mID
  /\ ~m_Players[p].mID => m_Players[p].mTrackHeading = 0 /\ m_Players[p].mKickBanHeader = 0
  /\ history[p].asked > 0 => history[p].got <= history[p].asked
  /\ m_Players[p].mID =>
       m_Players[p].mTrackHeading =
         IF history[p].asked > 0 THEN history[p].asked - history[p].got
                                 ELSE history[p].asked
  /\ m_Players[p].mKickBanHeader # 0 => m_Players[p].mKickBanHeader \in history[p].reasons

LEMMA RightNow ==
  ASSUME PlayerInv
  PROVE  \A p \in Players : Right(p)
BY PlayerNow DEF Right, ResetWhere, GotWhere, TrackedAsAsked, ReasonWhere

LEMMA OthersStay ==
  ASSUME PlayerInv,
         \A q \in Players : Right(q)' \/ (m_Players'[q] = m_Players[q] /\ history'[q] = history[q])
  PROVE  ResetWhere' /\ GotWhere' /\ TrackedAsAsked' /\ ReasonWhere'
<1>1. \A q \in Players : Right(q)'
  BY RightNow DEF Right
<1> QED  BY <1>1 DEF Right, ResetWhere, GotWhere, TrackedAsAsked, ReasonWhere

(* The instance of one player is replaced.                                 *)
LEMMA OneInstance ==
  ASSUME PlayerInv, NEW p \in Players, NEW n \in Instance,
         m_Players' = [m_Players EXCEPT ![p] = n]
  PROVE  /\ m_Players' \in [Players -> Instance] /\ m_Players'[p] = n
         /\ \A q \in Players : q # p => m_Players'[q] = m_Players[q]
BY PlayerNow

LEMMA FreshIsOne ==
  Fresh \in Instance
BY PlayerAssumption DEF Fresh, Instance

LEMMA SameFields ==
  ASSUME NEW a \in Instance, NEW b \in Instance,
         a.mID = b.mID, a.mEvents = b.mEvents, a.mLastHeading = b.mLastHeading,
         a.mLastHealth = b.mLastHealth, a.mTrackHeading = b.mTrackHeading,
         a.mKickBanHeader = b.mKickBanHeader
  PROVE  a = b
BY DEF Instance

LEMMA ResetIsFresh ==
  ASSUME NEW inst \in Instance
  PROVE  PlayerDropEvents(ResetInstance(inst)) = Fresh
<1> DEFINE r == ResetInstance(inst)
           n == PlayerDropEvents(r)
<1>1. /\ Fresh \in Instance /\ inst.mEvents \in BOOLEAN
      /\ Fresh.mID = FALSE /\ Fresh.mEvents = FALSE
  BY FreshIsOne DEF Fresh, Instance
<1>2. /\ r \in Instance /\ r.mID = Fresh.mID /\ r.mLastHeading = Fresh.mLastHeading
      /\ r.mLastHealth = Fresh.mLastHealth /\ r.mTrackHeading = Fresh.mTrackHeading
      /\ r.mKickBanHeader = Fresh.mKickBanHeader
  BY <1>1 DEF Instance, ResetInstance
<1> HIDE DEF r
<1>3. /\ n \in Instance /\ n.mEvents = FALSE /\ n.mID = r.mID
      /\ n.mLastHeading = r.mLastHeading /\ n.mLastHealth = r.mLastHealth
      /\ n.mTrackHeading = r.mTrackHeading /\ n.mKickBanHeader = r.mKickBanHeader
  BY <1>2 DEF Instance, PlayerDropEvents
<1> HIDE DEF n
<1>4. n = Fresh
  BY <1>1, <1>2, <1>3, SameFields
<1> QED  BY <1>4 DEF n, r

(* The common listeners of the heading have been called, and the count     *)
(* stays what they have made it.                                           *)
LEMMA HeadingToldInv ==
  ASSUME PlayerInv, HeadingTold(FALSE)
  PROVE  PlayerInv'
<1>1. /\ calls # <<>> /\ Top.at = "mOnPlayerHeading"
      /\ Top.at \notin Destroying /\ Top.at \notin TellsHealth
      /\ UNCHANGED <<server, stage, rest, history>>
  BY DEF HeadingTold, Destroying, TellsHealth
<1>2. Top \in Frame /\ Top.player \in Players
  BY <1>1, TopNow
<1>3. PICK p \in Players : p = Top.player
  BY <1>2
<1>4. PICK v \in Values : v = Top.new
  BY <1>2 DEF Frame
<1>5. PICK n \in Instance : /\ m_Players' = [m_Players EXCEPT ![p] = n]
                            /\ n.mID = m_Players[p].mID
                            /\ n.mEvents = m_Players[p].mEvents
                            /\ n.mLastHealth = m_Players[p].mLastHealth
                            /\ n.mTrackHeading = m_Players[p].mTrackHeading
                            /\ n.mKickBanHeader = m_Players[p].mKickBanHeader
  <2> DEFINE t == m_Players[p].mTrackHeading
             n == [m_Players[p] EXCEPT !.mLastHeading = v, !.mTrackHeading = t]
  <2>1. m_Players' = [m_Players EXCEPT ![p].mLastHeading = v, ![p].mTrackHeading = t]
    BY <1>3, <1>4, PlayerNow DEF HeadingTold, Count
  <2>2. m_Players[p] \in Instance /\ t \in Nat \cup Tracks
    BY PlayerNow DEF Instance
  <2> HIDE DEF t
  <2>3. m_Players' = [m_Players EXCEPT ![p] = n]
    BY <2>1, PlayerNow
  <2>4. n \in Instance
    BY <2>2 DEF Instance
  <2>5. /\ n.mID = m_Players[p].mID /\ n.mEvents = m_Players[p].mEvents
        /\ n.mLastHealth = m_Players[p].mLastHealth /\ n.mTrackHeading = t
        /\ n.mKickBanHeader = m_Players[p].mKickBanHeader
    BY <2>2 DEF Instance
  <2> HIDE DEF n
  <2> QED  BY <2>3, <2>4, <2>5 DEF t
<1>6. /\ m_Players' \in [Players -> Instance] /\ m_Players'[p] = n
      /\ \A q \in Players : q # p => m_Players'[q] = m_Players[q]
  BY <1>5, OneInstance
<1>7. /\ calls' \in Seq(Frame) /\ CallsWhere' /\ ToldWhere' /\ KickedFor'
      /\ \A q \in Players : Telling(q) => Telling(q)'
  <2> DEFINE f == [Top EXCEPT !.at = "health"]
  <2>1. /\ f \in Frame /\ f.player = Top.player /\ f.header = Top.header
        /\ f.reported = Top.reported /\ f.at \notin Destroying /\ f.at \notin TellsHealth
    BY <1>2 DEF Frame, Compared, Destroying, TellsHealth
  <2>2. calls' = Append(Front(calls), f)
    BY DEF HeadingTold, Goes
  <2> HIDE DEF f
  <2>3. Lasting
    BY <1>1 DEF Lasting
  <2> QED  BY <1>1, <2>1, <2>2, <2>3, CallsMove
<1>8. ResetWhere' /\ GotWhere' /\ TrackedAsAsked' /\ ReasonWhere'
  <2>1. Right(p)'
    BY <1>1, <1>5, <1>6, RightNow DEF Right
  <2> QED  BY <1>1, <1>6, <2>1, OthersStay
<1>9. OnlineWhere'
  BY <1>1, <1>5, <1>6, PlayerNow DEF OnlineWhere
<1>10. LastIsTold'
  <2>1. \A q \in Players : /\ m_Players'[q].mID = m_Players[q].mID
                           /\ m_Players'[q].mLastHealth = m_Players[q].mLastHealth
    BY <1>5, <1>6
  <2> QED  BY <1>1, <1>7, <2>1, LastStays, LastHolds
<1>11. PlayerTypeOK'
  BY <1>1, <1>6, <1>7, PlayerNow DEF PlayerTypeOK
<1> QED  BY <1>7, <1>8, <1>9, <1>10, <1>11 DEF PlayerInv

(* A script asks for changes: none of them is got yet.                     *)
LEMMA SetTrackHeadingInv ==
  ASSUME PlayerInv, NEW p \in Players, NEW k \in Tracks, SetTrackHeading(p, k)
  PROVE  PlayerInv'
<1>1. /\ m_Players[p].mID
      /\ m_Players' = [m_Players EXCEPT ![p].mTrackHeading = k]
      /\ history' = [history EXCEPT ![p].asked = k, ![p].got = 0]
      /\ UNCHANGED <<server, calls, stage, rest>>
  BY DEF SetTrackHeading, Validate
<1>2. /\ m_Players' \in [Players -> Instance]
      /\ m_Players'[p].mID = m_Players[p].mID
      /\ m_Players'[p].mEvents = m_Players[p].mEvents
      /\ m_Players'[p].mLastHealth = m_Players[p].mLastHealth
      /\ m_Players'[p].mTrackHeading = k
      /\ m_Players'[p].mKickBanHeader = m_Players[p].mKickBanHeader
      /\ \A q \in Players : q # p => m_Players'[q] = m_Players[q]
  BY <1>1, PlayerNow DEF Instance
<1>3. /\ history' \in [Players -> [asked : Tracks, got : Nat, told : Values,
                                  reasons : SUBSET Headers, failed : BOOLEAN]]
      /\ history'[p].asked = k /\ history'[p].got = 0
      /\ \A q \in Players : /\ history'[q].told = history[q].told
                            /\ history'[q].reasons = history[q].reasons
                            /\ history'[q].failed = history[q].failed
                            /\ q # p => history'[q] = history[q]
  BY <1>1, PlayerNow DEF PlayerTypeOK
<1>4. /\ calls' \in Seq(Frame) /\ CallsWhere' /\ ToldWhere' /\ KickedFor'
      /\ \A q \in Players : Telling(q) => Telling(q)'
  BY <1>1, <1>3, CallsStay DEF Lasting
<1>5. ResetWhere' /\ GotWhere' /\ TrackedAsAsked' /\ ReasonWhere'
  <2>1. k \in Int
    BY PlayerAssumption
  <2>2. /\ m_Players'[p].mEvents = m_Players'[p].mID /\ m_Players'[p].mID
        /\ m_Players'[p].mKickBanHeader # 0 =>
             m_Players'[p].mKickBanHeader \in history'[p].reasons
    BY <1>1, <1>2, <1>3, RightNow DEF Right
  <2>3. /\ history'[p].asked > 0 => history'[p].got <= history'[p].asked
        /\ m_Players'[p].mTrackHeading =
             IF history'[p].asked > 0 THEN history'[p].asked - history'[p].got
                                      ELSE history'[p].asked
    BY <1>2, <1>3, <2>1
  <2>4. Right(p)'
    BY <2>2, <2>3 DEF Right
  <2> QED  BY <1>2, <1>3, <2>4, OthersStay
<1>6. OnlineWhere'
  BY <1>1, <1>2, PlayerNow DEF OnlineWhere
<1>7. LastIsTold'
  <2>1. \A q \in Players : /\ m_Players'[q].mID = m_Players[q].mID
                           /\ m_Players'[q].mLastHealth = m_Players[q].mLastHealth
    BY <1>2
  <2> QED  BY <1>3, <1>4, <2>1, LastStays, LastHolds
<1>8. PlayerTypeOK'
  BY <1>1, <1>2, <1>3, <1>4, PlayerNow DEF PlayerTypeOK
<1> QED  BY <1>4, <1>5, <1>6, <1>7, <1>8 DEF PlayerInv

(* A script has a player kicked, whatever callback it is in.               *)
LEMMA KickInv ==
  ASSUME PlayerInv, NEW p \in Players, NEW h \in Headers, Kick(p, h)
  PROVE  PlayerInv'
<1>1. /\ m_Players[p].mID
      /\ m_Players' = [m_Players EXCEPT ![p].mKickBanHeader = h]
      /\ history' = [history EXCEPT ![p].reasons = @ \cup {h}]
      /\ UNCHANGED <<server, stage, rest>>
      /\ calls' = calls \/ calls' = Append(calls, Leaving(p, h, TRUE))
  BY DEF Kick, Validate, Begins
<1>2. /\ m_Players' \in [Players -> Instance]
      /\ m_Players'[p].mID = m_Players[p].mID
      /\ m_Players'[p].mEvents = m_Players[p].mEvents
      /\ m_Players'[p].mLastHealth = m_Players[p].mLastHealth
      /\ m_Players'[p].mTrackHeading = m_Players[p].mTrackHeading
      /\ m_Players'[p].mKickBanHeader = h
      /\ \A q \in Players : q # p => m_Players'[q] = m_Players[q]
  BY <1>1, PlayerNow DEF Instance
<1>3. /\ history' \in [Players -> [asked : Tracks, got : Nat, told : Values,
                                  reasons : SUBSET Headers, failed : BOOLEAN]]
      /\ history'[p].reasons = history[p].reasons \cup {h}
      /\ \A q \in Players : /\ history'[q].asked = history[q].asked
                            /\ history'[q].got = history[q].got
                            /\ history'[q].told = history[q].told
                            /\ history'[q].failed = history[q].failed
                            /\ q # p => history'[q] = history[q]
  <2> DEFINE r == history[p].reasons \cup {h}
  <2>1. r \in SUBSET Headers
    BY PlayerNow
  <2>2. history' = [history EXCEPT ![p].reasons = r]
    BY <1>1
  <2> HIDE DEF r
  <2>3. /\ history' \in [Players -> [asked : Tracks, got : Nat, told : Values,
                                    reasons : SUBSET Headers, failed : BOOLEAN]]
        /\ history'[p].reasons = r
        /\ \A q \in Players : /\ history'[q].asked = history[q].asked
                              /\ history'[q].got = history[q].got
                              /\ history'[q].told = history[q].told
                              /\ history'[q].failed = history[q].failed
                              /\ q # p => history'[q] = history[q]
    BY <2>1, <2>2, PlayerNow DEF PlayerTypeOK
  <2> QED  BY <2>3 DEF r
<1>4. Lasting
  BY <1>3 DEF Lasting
<1>5. /\ calls' \in Seq(Frame) /\ CallsWhere' /\ ToldWhere' /\ KickedFor'
      /\ \A q \in Players : Telling(q) => Telling(q)'
  <2>1. CASE calls' = calls
    BY <1>1, <1>4, <2>1, CallsStay
  <2>2. CASE calls' = Append(calls, Leaving(p, h, TRUE))
    <3> DEFINE f == Leaving(p, h, TRUE)
    <3>1. /\ f \in Frame /\ f.player = p /\ f.header = h /\ f.reported
          /\ f.at \in Destroying /\ f.at \notin TellsHealth
      BY PlayerAssumption DEF Leaving, At, Frame, Own, Destroying, TellsHealth
    <3>2. f.header \in history'[f.player].reasons
      BY <1>3, <3>1
    <3> HIDE DEF f
    <3>3. calls' = Append(calls, f)
      BY <2>2 DEF f
    <3> QED  BY <1>1, <1>4, <3>1, <3>2, <3>3, CallsPush
  <2> QED  BY <1>1, <2>1, <2>2
<1>6. ResetWhere' /\ GotWhere' /\ TrackedAsAsked' /\ ReasonWhere'
  <2>1. Right(p)'
    BY <1>1, <1>2, <1>3, RightNow DEF Right
  <2> QED  BY <1>2, <1>3, <2>1, OthersStay
<1>7. OnlineWhere'
  BY <1>1, <1>2, PlayerNow DEF OnlineWhere
<1>8. LastIsTold'
  <2>1. \A q \in Players : /\ m_Players'[q].mID = m_Players[q].mID
                           /\ m_Players'[q].mLastHealth = m_Players[q].mLastHealth
    BY <1>2
  <2> QED  BY <1>3, <1>5, <2>1, LastStays, LastHolds
<1>9. PlayerTypeOK'
  BY <1>1, <1>2, <1>3, <1>5, PlayerNow DEF PlayerTypeOK
<1> QED  BY <1>5, <1>6, <1>7, <1>8, <1>9 DEF PlayerInv

-----------------------------------------------------------------------------
(* Players come and go.                                                    *)

(* An instance is destroyed from within whatever callback.                 *)
LEMMA DestroyInv ==
  ASSUME PlayerInv, DestroyReturns \/ DestroyThrows
  PROVE  PlayerInv'
<1>1. /\ calls # <<>> /\ Top.at \in Destroying /\ Top.at \notin TellsHealth
      /\ Destroyed /\ UNCHANGED <<rest, history>>
  BY DEF DestroyReturns, DestroyThrows, Destroying, TellsHealth
<1>2. Top \in Frame /\ Top.player \in Players
  BY <1>1, TopNow
<1>3. PICK p \in Players : p = Top.player
  BY <1>2
<1>4. /\ m_Players' = [m_Players EXCEPT ![p] = Fresh]
      /\ calls' = Front(calls)
      /\ stage' \in {stage, "undefined"}
      /\ server' = IF Top.reported THEN [server EXCEPT ![p].online = FALSE] ELSE server
  <2>1. PlayerDropEvents(ResetInstance(m_Players[p])) = Fresh
    BY PlayerNow, ResetIsFresh
  <2>2. m_Players' = [m_Players EXCEPT ![p] = PlayerDropEvents(ResetInstance(m_Players[p]))]
    BY <1>1, <1>3 DEF Destroyed
  <2> QED  BY <1>1, <1>3, <2>1, <2>2 DEF Destroyed
<1>5. /\ m_Players' \in [Players -> Instance] /\ m_Players'[p] = Fresh
      /\ \A q \in Players : q # p => m_Players'[q] = m_Players[q]
  BY <1>4, FreshIsOne, OneInstance
<1>6. /\ server' \in [Players -> [online : BOOLEAN, heading : Values, health : Values]]
      /\ \A q \in Players : q # p => server'[q] = server[q]
      /\ Top.reported => ~server'[p].online
  <2>1. CASE Top.reported
    <3>1. server' = [server EXCEPT ![p].online = FALSE]
      BY <1>4, <2>1
    <3> QED  BY <3>1, PlayerNow DEF PlayerTypeOK
  <2>2. CASE ~Top.reported
    BY <1>4, <2>2, PlayerNow DEF PlayerTypeOK
  <2> QED  BY <2>1, <2>2
<1>7. Lasting
  BY <1>1 DEF Lasting
<1>8. /\ calls' \in Seq(Frame) /\ CallsWhere' /\ ToldWhere' /\ KickedFor'
      /\ \A q \in Players : Telling(q) => Telling(q)'
  BY <1>1, <1>4, <1>7, CallsPop
<1>9. ResetWhere' /\ GotWhere' /\ TrackedAsAsked' /\ ReasonWhere'
  <2>1. Right(p)'
    <3>1. Right(p)
      BY RightNow
    <3> QED  BY <1>1, <1>5, <3>1 DEF Right, Fresh
  <2> QED  BY <1>1, <1>5, <2>1, OthersStay
<1>10. OnlineWhere'
  <2>1. stage \in {"open", "import"} => Top.reported
    BY <1>1, TopNow, PlayerNow DEF CallsWhere
  <2>2. ~m_Players'[p].mID
    BY <1>5 DEF Fresh
  <2>3. stage' \in {"open", "import"} => stage = stage' /\ ~server'[p].online
    BY <1>4, <1>6, <2>1
  <2>4. \A q \in Players :
          /\ stage' = "open" => m_Players'[q].mID = server'[q].online
          /\ stage' = "import" => m_Players'[q].mID = (server'[q].online /\ q \notin rest')
    <3> SUFFICES ASSUME NEW q \in Players
                 PROVE  /\ stage' = "open" => m_Players'[q].mID = server'[q].online
                        /\ stage' = "import" =>
                             m_Players'[q].mID = (server'[q].online /\ q \notin rest')
      OBVIOUS
    <3>1. CASE q = p
      <4>1. stage' \in {"open", "import"} =>
              m_Players'[q].mID = FALSE /\ server'[q].online = FALSE
        BY <1>5, <1>6, <2>3, <3>1 DEF Fresh
      <4> QED  BY <4>1
    <3>2. CASE q # p
      BY <1>1, <1>5, <1>6, <2>3, <3>2, PlayerNow DEF OnlineWhere
    <3> QED  BY <3>1, <3>2
  <2> QED  BY <2>4 DEF OnlineWhere
<1>11. LastIsTold'
  <2>1. ~m_Players'[p].mID
    BY <1>5 DEF Fresh
  <2>2. \A q \in Players : q # p =>
          \/ ~m_Players'[q].mID \/ history'[q].failed \/ Telling(q)'
          \/ m_Players'[q].mLastHealth = history'[q].told
    BY <1>1, <1>5, <1>8, LastStays
  <2> QED  BY <2>1, <2>2, LastHolds
<1>12. PlayerTypeOK'
  BY <1>1, <1>4, <1>5, <1>6, <1>8, PlayerNow DEF PlayerTypeOK
<1> QED  BY <1>8, <1>9, <1>10, <1>11, <1>12 DEF PlayerInv

LEMMA OnPlayerConnectInv ==
  ASSUME PlayerInv, NEW p \in Players, NEW heading \in Values, NEW health \in Values,
         OnPlayerConnect(p, heading, health)
  PROVE  PlayerInv'
<1> DEFINE s == [online |-> TRUE, heading |-> heading, health |-> health]
           n == [m_Players[p] EXCEPT !.mID = TRUE, !.mEvents = TRUE,
                                     !.mLastHeading = heading, !.mLastHealth = health]
<1>1. /\ calls = <<>> /\ stage = "open" /\ ~server[p].online
      /\ server' = [server EXCEPT ![p] = s]
      /\ history' = [history EXCEPT ![p] =
           [asked |-> 0, got |-> 0, told |-> health, reasons |-> {}, failed |-> FALSE]]
      /\ m_Players' = [m_Players EXCEPT ![p] = n]
      /\ calls' = Append(calls, At("mOnPlayerCreated", p))
      /\ UNCHANGED <<stage, rest>>
  BY DEF OnPlayerConnect, Quiet, Alloc, Allocated, Begins
<1>2. ~m_Players[p].mID /\ m_Players[p].mTrackHeading = 0 /\ m_Players[p].mKickBanHeader = 0
  BY <1>1, PlayerNow DEF OnlineWhere, ResetWhere
<1>3. /\ n \in Instance /\ n.mID = TRUE /\ n.mEvents = TRUE /\ n.mLastHealth = health
      /\ n.mTrackHeading = 0 /\ n.mKickBanHeader = 0
  <2>1. m_Players[p] \in Instance
    BY PlayerNow
  <2> QED  BY <1>2, <2>1 DEF Instance
<1> HIDE DEF n
<1>4. /\ m_Players' \in [Players -> Instance] /\ m_Players'[p] = n
      /\ \A q \in Players : q # p => m_Players'[q] = m_Players[q]
  BY <1>1, <1>3, OneInstance
<1>5. /\ server' \in [Players -> [online : BOOLEAN, heading : Values, health : Values]]
      /\ server'[p].online
      /\ \A q \in Players : q # p => server'[q] = server[q]
  BY <1>1, PlayerNow DEF PlayerTypeOK
<1>6. /\ history' \in [Players -> [asked : Tracks, got : Nat, told : Values,
                                  reasons : SUBSET Headers, failed : BOOLEAN]]
      /\ history'[p].asked = 0 /\ history'[p].told = health
      /\ \A q \in Players : q # p => history'[q] = history[q]
  BY <1>1, PlayerNow, PlayerAssumption DEF PlayerTypeOK
<1>7. /\ calls' \in Seq(Frame) /\ CallsWhere' /\ ToldWhere' /\ KickedFor'
      /\ \A q \in Players : Telling(q) => Telling(q)'
  <2> DEFINE f == At("mOnPlayerCreated", p)
  <2>1. f \in Frame /\ f.at \notin Destroying /\ f.at \notin TellsHealth /\ f.header = 0
    BY PlayerAssumption DEF At, Frame, Common, Destroying, TellsHealth
  <2> HIDE DEF f
  <2>2. calls' = Append(calls, f)
    BY <1>1 DEF f
  <2> QED  BY <1>1, <2>1, <2>2, CallsPush
<1>8. ResetWhere' /\ GotWhere' /\ TrackedAsAsked' /\ ReasonWhere'
  <2>1. m_Players'[p].mEvents = m_Players'[p].mID
    BY <1>3, <1>4
  <2>2. Right(p)'
    BY <1>3, <1>4, <1>6, <2>1 DEF Right
  <2> QED  BY <1>4, <1>6, <2>2, OthersStay
<1>9. OnlineWhere'
  <2>1. m_Players'[p].mID = server'[p].online
    BY <1>3, <1>4, <1>5
  <2> QED  BY <1>1, <1>4, <1>5, <2>1, PlayerNow DEF OnlineWhere
<1>10. LastIsTold'
  <2>1. m_Players'[p].mLastHealth = history'[p].told
    BY <1>3, <1>4, <1>6
  <2>2. \A q \in Players : q # p =>
          \/ ~m_Players'[q].mID \/ history'[q].failed \/ Telling(q)'
          \/ m_Players'[q].mLastHealth = history'[q].told
    BY <1>4, <1>6, <1>7, LastStays
  <2> QED  BY <2>1, <2>2, LastHolds
<1>11. PlayerTypeOK'
  BY <1>1, <1>4, <1>5, <1>6, <1>7, PlayerNow DEF PlayerTypeOK
<1> QED  BY <1>7, <1>8, <1>9, <1>10, <1>11 DEF PlayerInv

-----------------------------------------------------------------------------
(* A reload.                                                               *)

(* The stages of a reload, which change nothing of the players.            *)
LEMMA StagesInv ==
  ASSUME PlayerInv, Reload \/ ImportEnds
  PROVE  PlayerInv'
<1>1. /\ calls = <<>> /\ UNCHANGED <<server, m_Players, calls, history>>
      /\ \/ stage' = "clean" /\ rest' = Players
         \/ stage = "import" /\ stage' = "open" /\ rest = {} /\ rest' = rest
  BY DEF Reload, ImportEnds, Quiet
<1>2. /\ calls' \in Seq(Frame) /\ CallsWhere' /\ ToldWhere' /\ KickedFor'
      /\ \A q \in Players : Telling(q) => Telling(q)'
  BY <1>1, CallsStay
<1>3. ResetWhere' /\ GotWhere' /\ TrackedAsAsked' /\ ReasonWhere'
  BY <1>1, OthersStay
<1>4. OnlineWhere'
  BY <1>1, PlayerNow DEF OnlineWhere
<1>5. LastIsTold'
  BY <1>1, <1>2, LastStays, LastHolds
<1>6. PlayerTypeOK'
  BY <1>1, <1>2, PlayerNow DEF PlayerTypeOK
<1> QED  BY <1>2, <1>3, <1>4, <1>5, <1>6 DEF PlayerInv

LEMMA CleanNextInv ==
  ASSUME PlayerInv, NEW p \in Players, CleanNext(p)
  PROVE  PlayerInv'
<1>1. /\ stage = "clean" /\ calls = <<>> /\ rest' = rest \ {p}
      /\ UNCHANGED <<server, stage, history>>
      /\ \/ m_Players' = m_Players /\ calls' = Append(calls, Leaving(p, 0, FALSE))
         \/ calls' = calls /\ m_Players' = [m_Players EXCEPT ![p] = Fresh]
  <2>1. PlayerDropEvents(ResetInstance(m_Players[p])) = Fresh
    BY PlayerNow, ResetIsFresh
  <2> QED  BY <2>1 DEF CleanNext, NextOf, Begins
<1>2. /\ calls' \in Seq(Frame) /\ CallsWhere' /\ ToldWhere' /\ KickedFor'
      /\ \A q \in Players : Telling(q) => Telling(q)'
  <2>1. CASE calls' = calls
    BY <1>1, <2>1, CallsStay
  <2>2. CASE calls' = Append(calls, Leaving(p, 0, FALSE))
    <3> DEFINE f == Leaving(p, 0, FALSE)
    <3>1. f \in Frame /\ f.at \notin TellsHealth /\ f.header = 0
      BY PlayerAssumption DEF Leaving, At, Frame, Own, TellsHealth
    <3> HIDE DEF f
    <3>2. calls' = Append(calls, f)
      BY <2>2 DEF f
    <3> QED  BY <1>1, <3>1, <3>2, CallsPush
  <2> QED  BY <1>1, <2>1, <2>2
<1>3. /\ m_Players' \in [Players -> Instance]
      /\ \A q \in Players : m_Players'[q] = m_Players[q] \/ (q = p /\ m_Players'[q] = Fresh)
  BY <1>1, FreshIsOne, OneInstance, PlayerNow
<1>4. ResetWhere' /\ GotWhere' /\ TrackedAsAsked' /\ ReasonWhere'
  <2>1. Right(p)
    BY RightNow
  <2>2. m_Players'[p] = Fresh => Right(p)'
    BY <1>1, <2>1 DEF Right, Fresh
  <2> QED  BY <1>1, <1>3, <2>2, OthersStay
<1>5. OnlineWhere'
  BY <1>1 DEF OnlineWhere
<1>6. LastIsTold'
  <2>1. \A q \in Players : m_Players'[q] = m_Players[q] \/ ~m_Players'[q].mID
    BY <1>3 DEF Fresh
  <2> QED  BY <1>1, <1>2, <2>1, LastStays, LastHolds
<1>7. PlayerTypeOK'
  BY <1>1, <1>2, <1>3, PlayerNow DEF PlayerTypeOK
<1> QED  BY <1>2, <1>4, <1>5, <1>6, <1>7 DEF PlayerInv

LEMMA CleanEndsInv ==
  ASSUME PlayerInv, CleanEnds
  PROVE  PlayerInv'
<1>1. /\ calls = <<>> /\ m_Players' = [p \in Players |-> Fresh]
      /\ stage' = "import" /\ rest' = Players
      /\ UNCHANGED <<server, calls, history>>
  BY DEF CleanEnds
<1>2. m_Players' \in [Players -> Instance] /\ \A q \in Players : m_Players'[q] = Fresh
  BY <1>1, FreshIsOne
<1>3. /\ calls' \in Seq(Frame) /\ CallsWhere' /\ ToldWhere' /\ KickedFor'
  BY <1>1, CallsStay
<1>4. ResetWhere' /\ GotWhere' /\ TrackedAsAsked' /\ ReasonWhere'
  <2>1. \A q \in Players : Right(q)'
    BY <1>1, <1>2, RightNow DEF Right, Fresh
  <2> QED  BY <2>1, OthersStay
<1>5. OnlineWhere' /\ LastIsTold'
  BY <1>1, <1>2 DEF OnlineWhere, LastIsTold, Fresh
<1>6. PlayerTypeOK'
  BY <1>1, <1>2, <1>3, PlayerNow DEF PlayerTypeOK
<1> QED  BY <1>3, <1>4, <1>5, <1>6 DEF PlayerInv

(* A player that the reload finds gets its instance; the others that it    *)
(* has been through have theirs.                                           *)
LEMMA ImportNextInv ==
  ASSUME PlayerInv, NEW p \in Players, ImportNext(p)
  PROVE  PlayerInv'
<1>1. /\ stage = "import" /\ calls = <<>> /\ p \in rest /\ rest' = rest \ {p}
      /\ UNCHANGED <<server, stage>>
  BY DEF ImportNext, NextOf
<1>2. ~m_Players[p].mID /\ m_Players[p].mTrackHeading = 0 /\ m_Players[p].mKickBanHeader = 0
  BY <1>1, PlayerNow DEF OnlineWhere, ResetWhere
<1>3. CASE server[p].online
  <2> DEFINE heading == server[p].heading
             health  == server[p].health
             n == [m_Players[p] EXCEPT !.mID = TRUE, !.mEvents = TRUE,
                                       !.mLastHeading = heading, !.mLastHealth = health]
  <2>1. /\ m_Players' = [m_Players EXCEPT ![p] = n]
        /\ calls' = Append(calls, At("mOnPlayerCreated", p))
        /\ history' = [history EXCEPT ![p].asked = 0, ![p].got = 0,
                         ![p].told = health, ![p].failed = FALSE]
    BY <1>2, <1>3 DEF ImportNext, Alloc, Allocated, Begins
  <2>2. heading \in Values /\ health \in Values
    BY PlayerNow
  <2> HIDE DEF heading, health
  <2>3. /\ n \in Instance /\ n.mID = TRUE /\ n.mEvents = TRUE /\ n.mLastHealth = health
        /\ n.mTrackHeading = 0 /\ n.mKickBanHeader = 0
    <3>1. m_Players[p] \in Instance
      BY PlayerNow
    <3> QED  BY <1>2, <2>2, <3>1 DEF Instance
  <2> HIDE DEF n
  <2>4. /\ m_Players' \in [Players -> Instance] /\ m_Players'[p] = n
        /\ \A q \in Players : q # p => m_Players'[q] = m_Players[q]
    BY <2>1, <2>3, OneInstance
  <2>5. /\ history' \in [Players -> [asked : Tracks, got : Nat, told : Values,
                                    reasons : SUBSET Headers, failed : BOOLEAN]]
        /\ history'[p].asked = 0 /\ history'[p].told = health
        /\ \A q \in Players : q # p => history'[q] = history[q]
    <3> DEFINE r == [history[p] EXCEPT !.asked = 0, !.got = 0, !.told = health, !.failed = FALSE]
    <3>1. history' = [history EXCEPT ![p] = r]
      BY <2>1, PlayerNow DEF PlayerTypeOK
    <3>2. /\ r \in [asked : Tracks, got : Nat, told : Values,
                    reasons : SUBSET Headers, failed : BOOLEAN]
          /\ r.asked = 0 /\ r.told = health
      <4>1. history[p] \in [asked : Tracks, got : Nat, told : Values,
                            reasons : SUBSET Headers, failed : BOOLEAN]
        BY PlayerNow
      <4> QED  BY <2>2, <4>1, PlayerAssumption
    <3> HIDE DEF r
    <3> QED  BY <3>1, <3>2, PlayerNow DEF PlayerTypeOK
  <2>6. /\ calls' \in Seq(Frame) /\ CallsWhere' /\ ToldWhere' /\ KickedFor'
        /\ \A q \in Players : Telling(q) => Telling(q)'
    <3> DEFINE f == At("mOnPlayerCreated", p)
    <3>1. f \in Frame /\ f.at \notin Destroying /\ f.at \notin TellsHealth /\ f.header = 0
      BY PlayerAssumption DEF At, Frame, Common, Destroying, TellsHealth
    <3> HIDE DEF f
    <3>2. calls' = Append(calls, f)
      BY <2>1 DEF f
    <3> QED  BY <1>1, <3>1, <3>2, CallsPush
  <2>7. ResetWhere' /\ GotWhere' /\ TrackedAsAsked' /\ ReasonWhere'
    <3>1. m_Players'[p].mEvents = m_Players'[p].mID
      BY <2>3, <2>4
    <3>2. Right(p)'
      BY <2>3, <2>4, <2>5, <3>1 DEF Right
    <3> QED  BY <2>4, <2>5, <3>2, OthersStay
  <2>8. OnlineWhere'
    <3>1. m_Players'[p].mID = (server'[p].online /\ p \notin rest')
      BY <1>1, <1>3, <2>3, <2>4
    <3>2. \A q \in Players : q # p =>
            m_Players'[q].mID = (server'[q].online /\ q \notin rest')
      BY <1>1, <2>4, PlayerNow DEF OnlineWhere
    <3> QED  BY <1>1, <3>1, <3>2 DEF OnlineWhere
  <2>9. LastIsTold'
    <3>1. m_Players'[p].mLastHealth = history'[p].told
      BY <2>3, <2>4, <2>5
    <3>2. \A q \in Players : q # p =>
            \/ ~m_Players'[q].mID \/ history'[q].failed \/ Telling(q)'
            \/ m_Players'[q].mLastHealth = history'[q].told
      BY <2>4, <2>5, <2>6, LastStays
    <3> QED  BY <3>1, <3>2, LastHolds
  <2>10. PlayerTypeOK'
    BY <1>1, <2>4, <2>5, <2>6, PlayerNow DEF PlayerTypeOK
  <2> QED  BY <2>6, <2>7, <2>8, <2>9, <2>10 DEF PlayerInv
<1>4. CASE ~server[p].online
  <2>1. UNCHANGED <<m_Players, calls, history>>
    BY <1>4 DEF ImportNext
  <2>2. /\ calls' \in Seq(Frame) /\ CallsWhere' /\ ToldWhere' /\ KickedFor'
        /\ \A q \in Players : Telling(q) => Telling(q)'
    BY <1>1, <2>1, CallsStay
  <2>3. ResetWhere' /\ GotWhere' /\ TrackedAsAsked' /\ ReasonWhere'
    BY <2>1, OthersStay
  <2>4. OnlineWhere'
    <3>1. \A q \in Players : m_Players'[q].mID = (server'[q].online /\ q \notin rest')
      BY <1>1, <1>4, <2>1, PlayerNow DEF OnlineWhere
    <3> QED  BY <1>1, <3>1 DEF OnlineWhere
  <2>5. LastIsTold'
    BY <2>1, <2>2, LastStays, LastHolds
  <2>6. PlayerTypeOK'
    BY <1>1, <2>1, <2>2, PlayerNow DEF PlayerTypeOK
  <2> QED  BY <2>2, <2>3, <2>4, <2>5, <2>6 DEF PlayerInv
<1> QED  BY <1>3, <1>4

-----------------------------------------------------------------------------
LEMMA PlayerInitInv ==
  PlayerInit => PlayerInv
<1> SUFFICES ASSUME PlayerInit
             PROVE  PlayerInv
  OBVIOUS
<1>1. /\ calls = <<>> /\ calls \in Seq(Frame) /\ DOMAIN calls = {}
      /\ stage = "open" /\ rest = {}
      /\ m_Players \in [Players -> Instance] /\ \A p \in Players : m_Players[p] = Fresh
  BY FreshIsOne DEF PlayerInit
<1>2. /\ server \in [Players -> [online : BOOLEAN, heading : Values, health : Values]]
      /\ \A p \in Players : ~server[p].online /\ server[p].online = FALSE
  BY PlayerAssumption DEF PlayerInit
<1>3. /\ history \in [Players -> [asked : Tracks, got : Nat, told : Values,
                                 reasons : SUBSET Headers, failed : BOOLEAN]]
      /\ \A p \in Players : history[p].asked = 0
  BY PlayerAssumption DEF PlayerInit
<1>4. PlayerTypeOK
  BY <1>1, <1>2, <1>3 DEF PlayerTypeOK
<1>5. CallsWhere /\ ToldWhere /\ KickedFor
  BY <1>1 DEF CallsWhere, ToldWhere, KickedFor
<1>6. \A p \in Players : /\ m_Players[p].mID = FALSE /\ m_Players[p].mEvents = FALSE
                         /\ m_Players[p].mTrackHeading = 0 /\ m_Players[p].mKickBanHeader = 0
  BY <1>1 DEF Fresh
<1>7. ResetWhere /\ GotWhere /\ TrackedAsAsked /\ ReasonWhere /\ LastIsTold
  <2>1. ResetWhere
    BY <1>6 DEF ResetWhere
  <2>2. GotWhere
    BY <1>3 DEF GotWhere
  <2>3. TrackedAsAsked /\ ReasonWhere /\ LastIsTold
    BY <1>6 DEF TrackedAsAsked, ReasonWhere, LastIsTold
  <2> QED  BY <2>1, <2>2, <2>3
<1>8. OnlineWhere
  BY <1>1, <1>2, <1>6 DEF OnlineWhere
<1> QED  BY <1>4, <1>5, <1>7, <1>8 DEF PlayerInv

LEMMA PlayerUnchanged ==
  ASSUME PlayerInv, UNCHANGED playerVars
  PROVE  PlayerInv'
BY DEF PlayerInv, PlayerTypeOK, CallsWhere, ResetWhere, OnlineWhere, GotWhere, TrackedAsAsked,
       ToldWhere, LastIsTold, ReasonWhere, KickedFor, playerVars

LEMMA PlayerStepsInv ==
  ASSUME PlayerInv, PlayerSteps
  PROVE  PlayerInv'
<1>1. CASE UpdateHeading
  BY <1>1, CompareHeadingInv, HeadingToldInv DEF UpdateHeading
<1>2. CASE CompareHealth
  BY <1>2, CompareHealthInv
<1>3. CASE HealthTold
  BY <1>3, HealthToldInv
<1>4. CASE OwnTold \/ Returns \/ ConnectThrows
  BY <1>4, CallsAloneInv
<1>5. CASE DestroyReturns \/ DestroyThrows
  BY <1>5, DestroyInv
<1>6. CASE UpdateThrows
  BY <1>6, UpdateThrowsInv
<1>7. CASE \E p \in Players : CleanNext(p) \/ ImportNext(p)
  BY <1>7, CleanNextInv, ImportNextInv
<1>8. CASE CleanEnds
  BY <1>8, CleanEndsInv
<1>9. CASE ImportEnds
  BY <1>9, StagesInv
<1> QED  BY <1>1, <1>2, <1>3, <1>4, <1>5, <1>6, <1>7, <1>8, <1>9 DEF PlayerSteps

LEMMA PlayerNextInv ==
  ASSUME PlayerInv, [PlayerNext]_playerVars
  PROVE  PlayerInv'
<1>1. CASE \E p \in Players, heading, health \in Values :
             OnPlayerConnect(p, heading, health) \/ OnPlayerUpdate(p, heading, health)
  BY <1>1, OnPlayerConnectInv, OnPlayerUpdateInv
<1>2. CASE \E p \in Players, kicked \in BOOLEAN : OnPlayerDisconnect(p, kicked)
  <2>1. \E p \in Players : OnPlayerDisconnect(p, TRUE) \/ OnPlayerDisconnect(p, FALSE)
    BY <1>2 DEF OnPlayerDisconnect
  <2> QED  BY <2>1, CallsAloneInv
<1>3. CASE Reload
  BY <1>3, StagesInv
<1>4. CASE PlayerSteps
  BY <1>4, PlayerStepsInv
<1>5. CASE \E p \in Players, n \in Tracks : SetTrackHeading(p, n)
  BY <1>5, SetTrackHeadingInv
<1>6. CASE \E p \in Players, health \in Values : SetHealth(p, health)
  BY <1>6, SetHealthInv
<1>7. CASE \E p \in Players, h \in Headers : Kick(p, h)
  BY <1>7, KickInv
<1>8. CASE UNCHANGED playerVars
  BY <1>8, PlayerUnchanged
<1> QED  BY <1>1, <1>2, <1>3, <1>4, <1>5, <1>6, <1>7, <1>8 DEF PlayerNext

(* PlayerInv is inductive, whichever callbacks are within which others.    *)
THEOREM PlayerInvariance == PlayerSpec => []PlayerInv
<1> QED  BY PlayerInitInv, PlayerNextInv, PTL DEF PlayerSpec

(* The variables of PlayerPool keep their types: the counts of changes that*)
(* EmitPlayerUpdate decreases stay counts, and frames name players.        *)
THEOREM PlayerTypeCorrect == PlayerSpec => []PlayerTypeOK
<1>1. PlayerInv => PlayerTypeOK
  BY DEF PlayerInv
<1> QED  BY <1>1, PlayerInvariance, PTL

(* ConnectPlayer, DisconnectPlayer and a reload leave exactly the players  *)
(* of the server with an instance and its events, whoever was kicked from  *)
(* within which callback.                                                  *)
THEOREM OnlineReachableHolds == PlayerSpec => []OnlineReachable
<1>1. PlayerInv => OnlineReachable
  BY DEF PlayerInv, OnlineWhere, ResetWhere, OnlineReachable, Quiet
<1> QED  BY <1>1, PlayerInvariance, PTL

(* EmitPlayerUpdate counts down before it calls listeners, and resets of   *)
(* an instance take what was asked for with them: a script gets as many    *)
(* changes as it asked for.                                                *)
THEOREM TrackedHolds == PlayerSpec => []TrackedAsAsked
<1>1. PlayerInv => TrackedAsAsked
  BY DEF PlayerInv
<1> QED  BY <1>1, PlayerInvariance, PTL

(* The last known health of an instance is what its listeners were told,   *)
(* or what the player had when it connected or was imported.               *)
THEOREM LastIsToldHolds == PlayerSpec => []LastIsTold
<1>1. PlayerInv => LastIsTold
  BY DEF PlayerInv
<1> QED  BY <1>1, PlayerInvariance, PTL

(* The header that OnPlayerDisconnect and Kick tell is one that this player*)
(* was kicked for.                                                         *)
THEOREM KickedForHolds == PlayerSpec => []KickedFor
<1>1. PlayerInv => KickedFor
  BY DEF PlayerInv
<1> QED  BY <1>1, PlayerInvariance, PTL
=============================================================================
