-------------------------- MODULE CoreLifecycleProofs --------------------------
(***************************************************************************)
(* Proofs about CoreLifecycle, for any scripts, any configuration and any  *)
(* number of levels: that scripts run once and in order, that none is lost *)
(* on the way, and that events and stages are there when they are needed.  *)
(***************************************************************************)
EXTENDS CoreLifecycle, SequenceTheorems, TLAPS

(* What pc can be, once and for all.                                       *)
Places == Codes \cup Scripted \cup Ends

-----------------------------------------------------------------------------
(* Lists of scripts.                                                       *)
DistinctPaths(s) == \A i, j \in DOMAIN s : s[i].mPath = s[j].mPath => i = j

LEMMA DistinctLists ==
  ListsDistinct <=> /\ DistinctPaths(m_Scripts) /\ DistinctPaths(m_PendingScripts)
                    /\ PathsOf(m_Scripts) \cap PathsOf(m_PendingScripts) = {}
BY DEF ListsDistinct, DistinctPaths

LEMMA NoScripts == <<>> \in Seq(Script) /\ DistinctPaths(<<>>) /\ PathsOf(<<>>) = {}
BY DEF DistinctPaths, PathsOf

(* A list is its places.                                                   *)
LEMMA PlacesOfList ==
  ASSUME NEW s \in Seq(Script)
  PROVE  /\ Len(s) \in Nat /\ DOMAIN s = 1..Len(s)
         /\ \A i \in DOMAIN s : /\ s[i] \in Script
                                /\ s[i].mPath \in Paths /\ s[i].mPath \in PathsOf(s)
                                /\ s[i].mDelay \in BOOLEAN
         /\ PathsOf(s) \subseteq Paths
<1>1. Len(s) \in Nat /\ DOMAIN s = 1..Len(s) /\ \A i \in DOMAIN s : s[i] \in Script
  BY LenProperties, ElementOfSeq
<1> QED  BY <1>1 DEF Script, PathsOf

(* A script is appended to a list.                                         *)
LEMMA AppendedScripts ==
  ASSUME NEW s \in Seq(Script), NEW x \in Script
  PROVE  /\ Append(s, x) \in Seq(Script)
         /\ Len(Append(s, x)) = Len(s) + 1
         /\ \A i \in DOMAIN s : Append(s, x)[i] = s[i]
         /\ Append(s, x)[Len(s) + 1] = x
         /\ PathsOf(Append(s, x)) = PathsOf(s) \cup {x.mPath}
         /\ DistinctPaths(s) /\ x.mPath \notin PathsOf(s) => DistinctPaths(Append(s, x))
<1> DEFINE t == Append(s, x)
<1>1. /\ t \in Seq(Script) /\ Len(t) = Len(s) + 1
      /\ \A i \in 1..Len(s) : t[i] = s[i]
      /\ t[Len(s) + 1] = x
  BY AppendProperties
<1> HIDE DEF t
<1>2. /\ Len(s) \in Nat /\ DOMAIN s = 1..Len(s) /\ DOMAIN t = 1..(Len(s) + 1)
  BY <1>1, LenProperties
<1>3. /\ \A i \in DOMAIN t : (i \in DOMAIN s /\ t[i] = s[i]) \/ (i = Len(s) + 1 /\ t[i] = x)
      /\ \A i \in DOMAIN s : i \in DOMAIN t /\ i # Len(s) + 1 /\ t[i] = s[i]
      /\ Len(s) + 1 \in DOMAIN t
  BY <1>1, <1>2
<1>4. PathsOf(t) = PathsOf(s) \cup {x.mPath}
  BY <1>1, <1>3 DEF PathsOf
<1>5. DistinctPaths(s) /\ x.mPath \notin PathsOf(s) => DistinctPaths(t)
  BY <1>3 DEF DistinctPaths, PathsOf
<1> QED  BY <1>1, <1>2, <1>4, <1>5 DEF t

(* A list is appended to another: BeginLevel.                              *)
LEMMA ConcatScripts ==
  ASSUME NEW s \in Seq(Script), NEW t \in Seq(Script)
  PROVE  /\ s \o t \in Seq(Script)
         /\ Len(s \o t) = Len(s) + Len(t)
         /\ \A i \in DOMAIN s : (s \o t)[i] = s[i]
         /\ \A i \in DOMAIN (s \o t) : i > Len(s) => (s \o t)[i].mPath \in PathsOf(t)
         /\ PathsOf(s \o t) = PathsOf(s) \cup PathsOf(t)
         /\ DistinctPaths(s) /\ DistinctPaths(t) /\ PathsOf(s) \cap PathsOf(t) = {}
              => DistinctPaths(s \o t)
<1> DEFINE u == s \o t
<1>1. /\ u \in Seq(Script) /\ Len(u) = Len(s) + Len(t)
      /\ \A i \in 1..(Len(s) + Len(t)) : u[i] = IF i <= Len(s) THEN s[i] ELSE t[i - Len(s)]
  BY ConcatProperties
<1> HIDE DEF u
<1>2. /\ Len(s) \in Nat /\ DOMAIN s = 1..Len(s)
      /\ Len(t) \in Nat /\ DOMAIN t = 1..Len(t) /\ DOMAIN u = 1..(Len(s) + Len(t))
  BY <1>1, LenProperties
<1>3. /\ \A i \in DOMAIN s : i \in DOMAIN u /\ u[i] = s[i]
      /\ \A i \in DOMAIN u : i > Len(s) => i - Len(s) \in DOMAIN t /\ u[i] = t[i - Len(s)]
      /\ \A i \in DOMAIN u : ~(i > Len(s)) => i \in DOMAIN s
      /\ \A i \in DOMAIN t : i + Len(s) \in DOMAIN u /\ u[i + Len(s)] = t[i]
  <2>1. \A i \in DOMAIN t : i + Len(s) \in DOMAIN u /\ i + Len(s) - Len(s) = i /\ ~(i + Len(s) <= Len(s))
    BY <1>2
  <2>2. \A i \in DOMAIN t : u[i + Len(s)] = t[i]
    BY <1>1, <1>2, <2>1
  <2>3. \A i \in DOMAIN u : i > Len(s) => i - Len(s) \in DOMAIN t /\ u[i] = t[i - Len(s)]
    BY <1>1, <1>2
  <2> QED  BY <1>1, <1>2, <2>1, <2>2, <2>3
<1>4. \A i \in DOMAIN u : i > Len(s) => u[i].mPath \in PathsOf(t)
  BY <1>3 DEF PathsOf
<1>5. PathsOf(u) = PathsOf(s) \cup PathsOf(t)
  <2>1. PathsOf(u) \subseteq PathsOf(s) \cup PathsOf(t)
    BY <1>3 DEF PathsOf
  <2>2. PathsOf(s) \subseteq PathsOf(u)
    BY <1>3 DEF PathsOf
  <2>3. PathsOf(t) \subseteq PathsOf(u)
    BY <1>3 DEF PathsOf
  <2> QED  BY <2>1, <2>2, <2>3
<1>6. ASSUME DistinctPaths(s), DistinctPaths(t), PathsOf(s) \cap PathsOf(t) = {}
      PROVE  DistinctPaths(u)
  <2> SUFFICES ASSUME NEW i \in DOMAIN u, NEW j \in DOMAIN u, u[i].mPath = u[j].mPath
               PROVE  i = j
    BY DEF DistinctPaths
  <2>1. CASE i > Len(s) /\ j > Len(s)
    <3>1. i - Len(s) = j - Len(s)
      BY <1>3, <1>6, <2>1 DEF DistinctPaths
    <3> QED  BY <1>2, <3>1
  <2>2. CASE ~(i > Len(s)) /\ ~(j > Len(s))
    BY <1>3, <1>6, <2>2 DEF DistinctPaths
  <2>3. \A k \in DOMAIN u : ~(k > Len(s)) => u[k].mPath \in PathsOf(s)
    BY <1>3 DEF PathsOf
  <2> QED  BY <1>4, <1>6, <2>1, <2>2, <2>3
<1> QED  BY <1>1, <1>3, <1>4, <1>5, <1>6 DEF u

(* The last script of a list is dropped.                                   *)
LEMMA FrontScripts ==
  ASSUME NEW s \in Seq(Script), s # <<>>, DistinctPaths(s)
  PROVE  /\ Front(s) \in Seq(Script)
         /\ DOMAIN Front(s) \subseteq DOMAIN s
         /\ \A i \in DOMAIN Front(s) : Front(s)[i] = s[i] /\ s[i].mPath # Last(s).mPath
         /\ DistinctPaths(Front(s))
         /\ PathsOf(Front(s)) = PathsOf(s) \ {Last(s).mPath}
         /\ Last(s).mPath \in Paths
<1>1. /\ Len(s) \in Nat \ {0} /\ DOMAIN s = 1..Len(s)
      /\ \A i \in 1..Len(s) : s[i] \in Script
  BY LenProperties, EmptySeq, ElementOfSeq
<1> DEFINE t == Front(s)
<1>2. /\ t \in Seq(Script) /\ Len(t) = Len(s) - 1
      /\ \A i \in 1..(Len(s) - 1) : t[i] = s[i]
  <2>1. t = SubSeq(s, 1, Len(s) - 1)
    BY DEF Front
  <2>2. \A i \in 1..(Len(s) - 1) : s[i] \in Script
    BY <1>1
  <2> HIDE DEF t
  <2> QED  BY <1>1, <2>1, <2>2, SubSeqProperties
<1>3. DOMAIN t = 1..(Len(s) - 1)
  BY <1>2, LenProperties
<1> HIDE DEF t
<1>4. Last(s) = s[Len(s)] /\ Len(s) \in DOMAIN s
  BY <1>1 DEF Last
<1>5. /\ \A i \in DOMAIN t : i \in DOMAIN s /\ i # Len(s) /\ t[i] = s[i]
      /\ \A i \in DOMAIN s : i # Len(s) => i \in DOMAIN t
  BY <1>1, <1>2, <1>3
<1>6. \A i \in DOMAIN t : t[i].mPath # Last(s).mPath
  BY <1>4, <1>5 DEF DistinctPaths
<1>7. DistinctPaths(t)
  BY <1>5 DEF DistinctPaths
<1>8. PathsOf(t) = PathsOf(s) \ {Last(s).mPath}
  BY <1>4, <1>5, <1>6 DEF PathsOf
<1>9. Last(s).mPath \in Paths
  BY <1>1, <1>4 DEF Script
<1> QED  BY <1>2, <1>5, <1>6, <1>7, <1>8, <1>9 DEF t
-----------------------------------------------------------------------------
(* The lists as they are in an invariant state.                            *)
LEMMA CoreNow ==
  ASSUME CoreInv
  PROVE  /\ TypeOK /\ RunsOnce /\ AllStarted /\ OnlyListedRan /\ LoopWhere
         /\ ExecuteWhere /\ StagesLocked /\ EventsThere /\ events = m_Events /\ NestWhere
         /\ RunningListed /\ NestOrder
         /\ m_Scripts \in Seq(Script) /\ m_PendingScripts \in Seq(Script)
         /\ DistinctPaths(m_Scripts) /\ DistinctPaths(m_PendingScripts)
         /\ PathsOf(m_Scripts) \cap PathsOf(m_PendingScripts) = {}
BY DistinctLists DEF CoreInv, TypeOK

(* The parts that are about the lists and what was started hold after a    *)
(* step that leaves these alone.                                           *)
LEMMA ScriptsStay ==
  ASSUME CoreInv, UNCHANGED scripts
  PROVE  /\ RunsOnce' /\ AllStarted' /\ ListsDistinct' /\ OnlyListedRan'
         /\ m_Scripts' \in Seq(Script) /\ m_PendingScripts' \in Seq(Script)
         /\ m_Executed' \in BOOLEAN /\ ran' \in [Paths -> Nat] /\ dropped' \in [Paths -> Nat]
<1>1. UNCHANGED <<m_Scripts, m_PendingScripts, m_Executed, ran, dropped>>
  BY DEF scripts
<1>2. RunsOnce' /\ AllStarted'
  BY <1>1, CoreNow DEF RunsOnce, AllStarted
<1>3. ListsDistinct'
  BY <1>1 DEF CoreInv, ListsDistinct, PathsOf
<1>4. OnlyListedRan'
  BY <1>1, CoreNow DEF OnlyListedRan, PathsOf
<1>5. m_Executed' \in BOOLEAN
  BY <1>1, CoreNow, Zenon DEF TypeOK
<1> QED  BY <1>1, <1>2, <1>3, <1>4, <1>5, CoreNow DEF TypeOK

(* So do those about the calls, after one that leaves these alone.         *)
LEMMA NestStays ==
  ASSUME CoreInv, UNCHANGED <<m_Scripts, nest>>
  PROVE  RunningListed' /\ NestOrder'
<1>1. m_Scripts' = m_Scripts /\ nest' = nest
  OBVIOUS
<1>2. RunningListed'
  BY <1>1, CoreNow DEF RunningListed, PathsOf, Range
<1>3. NestOrder'
  BY <1>1, CoreNow DEF NestOrder
<1> QED  BY <1>2, <1>3

(* And before Execute has come to its end, when no late script runs.       *)
LEMMA NoneRunsYet ==
  ASSUME CoreInv, ~m_Executed, nest' = nest, m_Scripts' \in Seq(Script)
  PROVE  RunningListed' /\ NestOrder'
<1>1. /\ nest' \in Seq(Frames) /\ \A i \in DOMAIN nest' : nest'[i] \notin Paths
  BY CoreNow DEF TypeOK, NestWhere
<1>2. RunningListed'
  BY <1>1 DEF RunningListed, Range
<1>3. \A i \in DOMAIN m_Scripts' : m_Scripts'[i].mPath \in Paths
  BY PlacesOfList
<1>4. NestOrder'
  BY <1>1, <1>3 DEF NestOrder
<1> QED  BY <1>2, <1>4

LEMMA LoopStays ==
  ASSUME LoopWhere, UNCHANGED <<m_Scripts, ran>>,
         pc' \notin Looping \/ UNCHANGED <<pc, itr, last>>
  PROVE  LoopWhere'
BY DEF LoopWhere, Due

(* A step of the control alone: the lists and the machine stay, and DoScripts*)
(* goes on where it was, or is left.                                       *)
LEMMA ControlInv ==
  ASSUME CoreInv, UNCHANGED <<scripts, m_VM, m_Events, events>>,
         pc' \notin Looping \/ UNCHANGED <<pc, itr, last>>,
         pc' \in Places, job' \in Jobs, g_Reload' \in BOOLEAN,
         itr' \in Nat, last' \in Nat, level' \in 0..MaxLevels,
         locked' \subseteq Stages, obtained' \subseteq LoadStages,
         listening' \subseteq LoadStages, early' \subseteq LoadStages,
         nest' = nest \/ (RunningListed' /\ NestOrder'),
         nest' \in Seq(Frames), Len(nest') <= MaxNest + 1,
         ExecuteWhere', StagesLocked', NestWhere'
  PROVE  CoreInv'
<1>1. TypeOK'
  BY ScriptsStay DEF CoreInv, TypeOK, Places
<1>2. LoopWhere'
  BY LoopStays DEF CoreInv, scripts
<1>3. EventsThere' /\ events' = m_Events'
  BY DEF CoreInv, EventsThere
<1>4. RunningListed' /\ NestOrder'
  BY NestStays DEF scripts
<1> QED  BY <1>1, <1>2, <1>3, <1>4, ScriptsStay DEF CoreInv

LEMMA CoreUnchanged ==
  ASSUME CoreInv, UNCHANGED coreVars
  PROVE  CoreInv'
<1>1. UNCHANGED <<m_VM, m_Events, events, scripts, locked, obtained, listening, early, pc,
                  itr, last, level, job, g_Reload, nest>>
  BY DEF coreVars, machine, loop
<1>2. ExecuteWhere' /\ StagesLocked' /\ NestWhere'
  BY <1>1, CoreNow DEF ExecuteWhere, StagesLocked, NestWhere, scripts
<1>3. pc' \in Places
  BY <1>1, CoreNow DEF TypeOK, Places
<1>4. g_Reload' \in BOOLEAN
  BY <1>1, CoreNow, Zenon DEF TypeOK
<1> QED  BY <1>1, <1>2, <1>3, <1>4, CoreNow, ControlInv DEF TypeOK

LEMMA CoreInitInv == CoreInit => CoreInv
<1> SUFFICES ASSUME CoreInit PROVE CoreInv
  OBVIOUS
<1>1. TypeOK
  <2>1. m_VM \in BOOLEAN /\ m_Events \in BOOLEAN /\ events \in BOOLEAN
        /\ m_Executed \in BOOLEAN /\ g_Reload \in BOOLEAN
    BY Zenon DEF CoreInit
  <2>2. locked \subseteq Stages /\ listening \subseteq LoadStages
        /\ obtained \subseteq LoadStages /\ early \subseteq LoadStages
        /\ job \in Jobs /\ pc \in Codes \cup Scripted \cup Ends
    BY DEF CoreInit, Codes, Jobs
  <2>3. /\ m_Scripts \in Seq(Script) /\ m_PendingScripts \in Seq(Script)
        /\ nest \in Seq(Frames) /\ Len(nest) <= MaxNest + 1
        /\ itr \in Nat /\ last \in Nat /\ level \in 0..MaxLevels
        /\ ran \in [Paths -> Nat] /\ dropped \in [Paths -> Nat]
    BY CoreAssumption DEF CoreInit, Never
  <2> QED  BY <2>1, <2>2, <2>3 DEF TypeOK
<1>2. RunsOnce /\ AllStarted /\ OnlyListedRan
  BY DEF CoreInit, RunsOnce, AllStarted, OnlyListedRan, PathsOf, Never
<1>3. ListsDistinct
  BY DEF CoreInit, ListsDistinct, PathsOf
<1>4. LoopWhere /\ ExecuteWhere /\ StagesLocked
  BY DEF CoreInit, LoopWhere, ExecuteWhere, StagesLocked, Looping, Beginning, LevelsDone
<1>5. EventsThere /\ events = m_Events
  BY DEF CoreInit, EventsThere
<1>6. NestWhere /\ RunningListed /\ NestOrder
  BY CoreAssumption DEF CoreInit, NestWhere, RunningListed, NestOrder, Range
<1> QED  BY <1>1, <1>2, <1>3, <1>4, <1>5, <1>6 DEF CoreInv

(* The steps of Execute and of the callbacks that are control alone.       *)
LEMMA PlainInv ==
  ASSUME CoreInv,
         InitializeReturns \/ ServerInitialise \/ BeginStages \/ PreLoadReturns
         \/ ScriptLoadedReturns \/ PostLoadReturns
  PROVE  CoreInv'
<1> USE DEF Places, Codes, Scripted, Ends, Jobs, Stages, LoadStages, Looping, Beginning,
            LevelsDone
<1>1. TypeOK /\ ExecuteWhere /\ StagesLocked /\ NestWhere
  BY CoreNow
<1>2. CASE InitializeReturns
  <2>1. ExecuteWhere' /\ StagesLocked' /\ NestWhere'
    BY <1>1, <1>2 DEF InitializeReturns, ExecuteWhere, StagesLocked, NestWhere, machine, scripts
  <2> QED  BY <1>1, <1>2, <2>1, ControlInv DEF InitializeReturns, TypeOK, machine, loop
<1>3. CASE ServerInitialise
  <2>1. ExecuteWhere' /\ StagesLocked' /\ NestWhere'
    BY <1>1, <1>3 DEF ServerInitialise, ExecuteWhere, StagesLocked, NestWhere, machine, scripts
  <2> QED  BY <1>1, <1>3, <2>1, ControlInv DEF ServerInitialise, TypeOK, machine, loop
<1>4. CASE BeginStages
  <2>1. ExecuteWhere' /\ StagesLocked' /\ NestWhere'
    BY <1>1, <1>4 DEF BeginStages, EmitStage, ExecuteWhere, StagesLocked, NestWhere, machine, scripts
  <2> QED  BY <1>1, <1>4, <2>1, ControlInv DEF BeginStages, EmitStage, TypeOK, machine, loop
<1>5. CASE PreLoadReturns
  <2>1. ExecuteWhere' /\ StagesLocked' /\ NestWhere'
    BY <1>1, <1>5 DEF PreLoadReturns, ResetStage, Returning, Emit, ExecuteWhere, StagesLocked, NestWhere, machine, scripts
  <2> QED  BY <1>1, <1>5, <2>1, ControlInv DEF PreLoadReturns, ResetStage, Emit, TypeOK, machine, loop
<1>6. CASE ScriptLoadedReturns
  <2>1. ExecuteWhere' /\ StagesLocked' /\ NestWhere'
    BY <1>1, <1>6 DEF ScriptLoadedReturns, Returning, EmitStage, ExecuteWhere, StagesLocked, NestWhere, machine, scripts
  <2> QED  BY <1>1, <1>6, <2>1, ControlInv DEF ScriptLoadedReturns, EmitStage, TypeOK, machine, loop
<1>7. CASE PostLoadReturns
  <2>1. ExecuteWhere' /\ StagesLocked' /\ NestWhere'
    BY <1>1, <1>7 DEF PostLoadReturns, ResetStage, Returning, ExecuteWhere, StagesLocked, NestWhere, machine, scripts
  <2> QED  BY <1>1, <1>7, <2>1, ControlInv DEF PostLoadReturns, ResetStage, TypeOK, machine, loop
<1> QED  BY <1>2, <1>3, <1>4, <1>5, <1>6, <1>7
(* Wherever Execute is left for.                                           *)
LEMMA ExecuteReturnsTo ==
  ASSUME TypeOK, ExecuteReturns(TRUE) \/ ExecuteReturns(FALSE)
  PROVE  /\ pc' \in {"Startup", "refused", "unloaded", "server"}
         /\ job' \in Jobs /\ g_Reload' \in BOOLEAN
         /\ itr' = 0 /\ last' = 0 /\ level' = 0
<1>1. CASE job = "boot"
  <2>1. g_Reload' \in BOOLEAN /\ job' \in Jobs
    BY <1>1, Zenon DEF TypeOK, ExecuteReturns
  <2> QED  BY <1>1, <2>1 DEF ExecuteReturns, LeaveLoop
<1>2. CASE job # "boot"
  <2>1. g_Reload' \in BOOLEAN /\ job' \in Jobs
    BY <1>2, Zenon DEF ExecuteReturns, ReloadReturns, Jobs
  <2> QED  BY <1>2, <2>1 DEF ExecuteReturns, ReloadReturns, LeaveLoop
<1> QED  BY <1>1, <1>2

(* Those that leave Execute, a callback or a reload, and the server.       *)
LEMMA LeavingInv ==
  ASSUME CoreInv,
         Execute \/ CompileFails \/ RunFails \/ StageThrows
         \/ StartupReturns \/ EventReturns \/ ReloadDenied \/ ReloadThrows
         \/ Terminate \/ UnloadReturns \/ UnloadEchoes \/ TerminateThrows
         \/ OnServerShutdown
  PROVE  CoreInv'
<1> USE CoreAssumption
    DEF Places, Codes, Scripted, Ends, Jobs, Stages, LoadStages, Looping, Beginning,
        LevelsDone
<1>1. TypeOK /\ ExecuteWhere /\ StagesLocked /\ NestWhere
  BY CoreNow
<1>2. CASE Execute
  <2>1. /\ pc' \in {"levels", "Startup", "refused", "unloaded", "server"}
        /\ job' \in Jobs /\ g_Reload' \in BOOLEAN
        /\ itr' \in Nat /\ last' \in Nat /\ level' \in 0..MaxLevels
    <3>1. CASE m_PendingScripts = <<>>
      BY <1>1, <1>2, <3>1, ExecuteReturnsTo DEF Execute
    <3>2. CASE m_PendingScripts # <<>>
      <4>1. g_Reload' = g_Reload /\ g_Reload \in BOOLEAN
        BY <1>1, <1>2, <3>2, Zenon DEF Execute, TypeOK
      <4> QED  BY <1>1, <1>2, <3>2, <4>1 DEF Execute, TypeOK, loop
    <3> QED  BY <3>1, <3>2
  <2>2. /\ pc = "execute" /\ ~m_Executed /\ m_Executed' = m_Executed
        /\ UNCHANGED <<m_Scripts, listening, obtained, early, nest>>
        /\ m_Scripts = <<>> /\ listening \subseteq obtained
        /\ obtained \cap locked \subseteq early
        /\ locked' = {} \/ locked' = locked
    BY <1>1, <1>2, Zenon DEF Execute, ExecuteWhere, StagesLocked, scripts
  <2>3. ExecuteWhere'
    BY <2>1, <2>2 DEF ExecuteWhere
  <2>4. StagesLocked'
    BY <2>1, <2>2 DEF StagesLocked
  <2>5. NestWhere'
    BY <1>1, <2>1, <2>2 DEF NestWhere
  <2> QED  BY <1>1, <1>2, <2>1, <2>3, <2>4, <2>5, ControlInv DEF Execute, TypeOK, machine
<1>3. CASE CompileFails
  <2>1. /\ pc' \in {"Startup", "refused", "unloaded", "server"}
        /\ job' \in Jobs /\ g_Reload' \in BOOLEAN
        /\ itr' \in Nat /\ last' \in Nat /\ level' \in 0..MaxLevels
    BY <1>1, <1>3, ExecuteReturnsTo DEF CompileFails
  <2>2. ExecuteWhere' /\ StagesLocked' /\ NestWhere'
    BY <1>1, <1>3, <2>1 DEF CompileFails, ExecuteWhere, StagesLocked, NestWhere, machine, scripts
  <2> QED  BY <1>1, <1>3, <2>1, <2>2, ControlInv DEF CompileFails, TypeOK, machine
<1>4. CASE RunFails
  <2>1. /\ pc' \in {"Startup", "refused", "unloaded", "server"}
        /\ job' \in Jobs /\ g_Reload' \in BOOLEAN
        /\ itr' \in Nat /\ last' \in Nat /\ level' \in 0..MaxLevels
    BY <1>1, <1>4, ExecuteReturnsTo DEF RunFails
  <2>2. ExecuteWhere' /\ StagesLocked' /\ NestWhere'
    BY <1>1, <1>4, <2>1 DEF RunFails, ExecuteWhere, StagesLocked, NestWhere, machine, scripts, Returning
  <2> QED  BY <1>1, <1>4, <2>1, <2>2, ControlInv DEF RunFails, TypeOK, machine
<1>5. CASE StageThrows
  <2>1. ExecuteWhere' /\ StagesLocked' /\ NestWhere'
    BY <1>1, <1>5 DEF StageThrows, ExecuteWhere, StagesLocked, NestWhere, machine, scripts, Returning, LeaveLoop
  <2> QED  BY <1>1, <1>5, <2>1, ControlInv DEF StageThrows, TypeOK, machine, loop, Returning, LeaveLoop
<1>6. CASE StartupReturns
  <2>1. ExecuteWhere' /\ StagesLocked' /\ NestWhere'
    BY <1>1, <1>6 DEF StartupReturns, ExecuteWhere, StagesLocked, NestWhere, machine, scripts, Returning
  <2> QED  BY <1>1, <1>6, <2>1, ControlInv DEF StartupReturns, TypeOK, machine, loop, Returning
<1>7. CASE EventReturns
  <2>1. ExecuteWhere' /\ StagesLocked' /\ NestWhere'
    BY <1>1, <1>7 DEF EventReturns, ExecuteWhere, StagesLocked, NestWhere, machine, scripts, Returning, Emit
  <2> QED  BY <1>1, <1>7, <2>1, ControlInv DEF EventReturns, TypeOK, machine, loop, Returning, Emit
<1>8. CASE ReloadDenied
  <2>1. ExecuteWhere' /\ StagesLocked' /\ NestWhere'
    BY <1>1, <1>8 DEF ReloadDenied, ExecuteWhere, StagesLocked, NestWhere, machine, scripts, Returning, ReloadReturns
  <2> QED  BY <1>1, <1>8, <2>1, ControlInv DEF ReloadDenied, TypeOK, machine, loop, Returning, ReloadReturns
<1>9. CASE ReloadThrows
  <2>1. ExecuteWhere' /\ StagesLocked' /\ NestWhere'
    BY <1>1, <1>9 DEF ReloadThrows, ExecuteWhere, StagesLocked, NestWhere, machine, scripts, Returning
  <2> QED  BY <1>1, <1>9, <2>1, ControlInv DEF ReloadThrows, TypeOK, machine, loop, Returning
<1>10. CASE Terminate
  <2>1. ExecuteWhere' /\ StagesLocked' /\ NestWhere'
    BY <1>1, <1>10 DEF Terminate, ExecuteWhere, StagesLocked, NestWhere, machine, scripts, Returning, EmitStage
  <2> QED  BY <1>1, <1>10, <2>1, ControlInv DEF Terminate, TypeOK, machine, loop, Returning, EmitStage
<1>11. CASE UnloadReturns
  <2>1. ExecuteWhere' /\ StagesLocked' /\ NestWhere'
    BY <1>1, <1>11 DEF UnloadReturns, ExecuteWhere, StagesLocked, NestWhere, machine, scripts, Returning
  <2> QED  BY <1>1, <1>11, <2>1, ControlInv DEF UnloadReturns, TypeOK, machine, loop, Returning
<1>12. CASE UnloadEchoes
  <2>1. ExecuteWhere' /\ StagesLocked' /\ NestWhere'
    BY <1>1, <1>12 DEF UnloadEchoes, ExecuteWhere, StagesLocked, NestWhere, machine, scripts, Returning
  <2> QED  BY <1>1, <1>12, <2>1, ControlInv DEF UnloadEchoes, TypeOK, machine, loop, Returning
<1>13. CASE TerminateThrows
  <2>1. ExecuteWhere' /\ StagesLocked' /\ NestWhere'
    BY <1>1, <1>13 DEF TerminateThrows, ExecuteWhere, StagesLocked, NestWhere, machine, scripts, Returning, ShutdownReturns
  <2> QED  BY <1>1, <1>13, <2>1, ControlInv DEF TerminateThrows, TypeOK, machine, loop, Returning, ShutdownReturns
<1>14. CASE OnServerShutdown
  <2>1. ExecuteWhere' /\ StagesLocked' /\ NestWhere'
    BY <1>1, <1>14 DEF OnServerShutdown, ExecuteWhere, StagesLocked, NestWhere, machine, scripts, Emit
  <2> QED  BY <1>1, <1>14, <2>1, ControlInv DEF OnServerShutdown, TypeOK, machine, loop, Emit
<1> QED  BY <1>2, <1>3, <1>4, <1>5, <1>6, <1>7, <1>8, <1>9, <1>10, <1>11, <1>12, <1>13, <1>14
LEMMA ServerCallsInv ==
  ASSUME CoreInv, NEW e \in {"Event", "QuietEvent"}, ServerCalls(e)
  PROVE  CoreInv'
<1> USE DEF Places, Codes, Scripted, Ends, Jobs, Stages, LoadStages, Looping, Beginning,
            LevelsDone
<1>1. TypeOK /\ ExecuteWhere /\ StagesLocked /\ NestWhere
  BY CoreNow
<1>2. pc' \in {"Event", "QuietEvent", "crashed"}
  BY DEF ServerCalls, Emit
<1>3. ExecuteWhere' /\ StagesLocked' /\ NestWhere'
  BY <1>1, <1>2 DEF ServerCalls, ExecuteWhere, StagesLocked, NestWhere, machine, scripts
<1> QED  BY <1>1, <1>2, <1>3, ControlInv DEF ServerCalls, TypeOK, machine, loop

-----------------------------------------------------------------------------
(* What script code does.                                                  *)

(* A call goes one deeper.                                                 *)
LEMMA Deeper ==
  ASSUME NEW n \in Seq(Frames), NEW call \in Frames
  PROVE  /\ Append(n, call) \in Seq(Frames)
         /\ Len(Append(n, call)) = Len(n) + 1
         /\ \A i \in DOMAIN Append(n, call) :
              (i \in DOMAIN n /\ Append(n, call)[i] = n[i]) \/ Append(n, call)[i] = call
<1>1. /\ Append(n, call) \in Seq(Frames)
      /\ Len(Append(n, call)) = Len(n) + 1
      /\ \A i \in 1..Len(n) : Append(n, call)[i] = n[i]
      /\ Append(n, call)[Len(n) + 1] = call
  BY AppendProperties
<1>2. DOMAIN Append(n, call) = 1..(Len(n) + 1) /\ DOMAIN n = 1..Len(n) /\ Len(n) \in Nat
  BY <1>1, LenProperties
<1> QED  BY <1>1, <1>2

(* A call returns.                                                         *)
LEMMA LessDeep ==
  ASSUME NEW n \in Seq(Frames), n # <<>>
  PROVE  /\ Front(n) \in Seq(Frames)
         /\ Len(Front(n)) = Len(n) - 1
         /\ \A i \in DOMAIN Front(n) : i \in DOMAIN n /\ Front(n)[i] = n[i]
         /\ Len(n) \in DOMAIN n /\ Last(n) = n[Len(n)] /\ Len(n) \in Nat
<1>1. Len(n) \in Nat \ {0} /\ DOMAIN n = 1..Len(n) /\ \A i \in 1..Len(n) : n[i] \in Frames
  BY LenProperties, EmptySeq, ElementOfSeq
<1> DEFINE t == Front(n)
<1>2. /\ t \in Seq(Frames) /\ Len(t) = Len(n) - 1
      /\ \A i \in 1..(Len(n) - 1) : t[i] = n[i]
  <2>1. t = SubSeq(n, 1, Len(n) - 1)
    BY DEF Front
  <2>2. \A i \in 1..(Len(n) - 1) : n[i] \in Frames
    BY <1>1
  <2> HIDE DEF t
  <2> QED  BY <1>1, <2>1, <2>2, SubSeqProperties
<1>3. DOMAIN t = 1..(Len(n) - 1)
  BY <1>2, LenProperties
<1> HIDE DEF t
<1>4. \A i \in DOMAIN t : i \in DOMAIN n /\ t[i] = n[i]
  BY <1>1, <1>2, <1>3
<1> QED  BY <1>1, <1>2, <1>4 DEF Last, t

(* A script asks for the signal of a stage that is not locked, or connects *)
(* a listener to one that it has.                                          *)
LEMMA StageScriptInv ==
  ASSUME CoreInv, NEW s \in LoadStages, GetLoadEvent(s) \/ Connect(s)
  PROVE  CoreInv'
<1>1. TypeOK /\ ExecuteWhere /\ StagesLocked /\ NestWhere
  BY CoreNow
<1>2. /\ InScript
      /\ UNCHANGED <<m_VM, m_Events, events, locked, early, scripts, loop, g_Reload, job,
                     pc, nest>>
      /\ obtained' \subseteq LoadStages /\ listening' \subseteq LoadStages
      /\ listening' \subseteq obtained' /\ obtained' \cap locked \subseteq early
  BY <1>1 DEF GetLoadEvent, Connect, TypeOK, StagesLocked
<1>3. pc \notin Beginning
  BY <1>1, <1>2 DEF InScript, ExecuteWhere
<1>4. ExecuteWhere' /\ StagesLocked' /\ NestWhere'
  BY <1>1, <1>2, <1>3 DEF ExecuteWhere, StagesLocked, NestWhere, scripts
<1>5. pc' \in Places
  BY <1>1, <1>2 DEF TypeOK, Places
<1>6. g_Reload' \in BOOLEAN
  BY <1>1, <1>2, Zenon DEF TypeOK
<1> QED  BY <1>1, <1>2, <1>4, <1>5, <1>6, ControlInv DEF TypeOK, loop

(* SqCore.Reload.                                                          *)
LEMMA SetReloadStatusInv ==
  ASSUME CoreInv, NEW toggle \in BOOLEAN, SetReloadStatus(toggle)
  PROVE  CoreInv'
<1>1. TypeOK /\ ExecuteWhere /\ StagesLocked /\ NestWhere
  BY CoreNow
<1>2. ExecuteWhere' /\ StagesLocked' /\ NestWhere'
  BY <1>1 DEF SetReloadStatus, ExecuteWhere, StagesLocked, NestWhere, scripts, machine
<1>3. pc' \in Places
  BY <1>1 DEF SetReloadStatus, TypeOK, Places
<1>4. g_Reload' \in BOOLEAN
  BY Zenon DEF SetReloadStatus
<1> QED  BY <1>1, <1>2, <1>3, <1>4, ControlInv DEF SetReloadStatus, TypeOK, loop, machine

(* A call that is not LoadScript's goes one deeper.                        *)
LEMMA ServerCalled ==
  ASSUME CoreInv, NEW call \in Calls, nest' = Append(nest, call), UNCHANGED m_Scripts
  PROVE  RunningListed' /\ NestOrder'
<1>1. nest \in Seq(Frames) /\ RunningListed /\ NestOrder /\ m_Scripts \in Seq(Script)
      /\ call \in Frames /\ call \notin Paths
  BY CoreNow, CoreAssumption DEF TypeOK, Frames
<1>2. \A i \in DOMAIN nest' : (i \in DOMAIN nest /\ nest'[i] = nest[i]) \/ nest'[i] = call
  BY <1>1, Deeper
<1>3. RunningListed'
  BY <1>1, <1>2 DEF RunningListed, Range, PathsOf
<1>4. \A k \in DOMAIN m_Scripts' : m_Scripts'[k].mPath # call
  BY <1>1, PlacesOfList
<1>5. NestOrder'
  BY <1>1, <1>2, <1>4 DEF NestOrder
<1> QED  BY <1>3, <1>5

(* The server is called and calls back.                                    *)
LEMMA CallPoolInv ==
  ASSUME CoreInv, CallPool
  PROVE  CoreInv'
<1>1. TypeOK /\ ExecuteWhere /\ StagesLocked /\ NestWhere
  BY CoreNow
<1>2. nest \in Seq(Frames) /\ nest' = Append(nest, "pool") /\ Len(nest) < MaxNest
  BY <1>1 DEF CallPool, Call, TypeOK
<1>3. /\ nest' \in Seq(Frames) /\ Len(nest') = Len(nest) + 1 /\ Len(nest) \in Nat
      /\ \A i \in DOMAIN nest' : (i \in DOMAIN nest /\ nest'[i] = nest[i]) \/ nest'[i] = "pool"
  BY <1>2, Deeper, LenProperties DEF Calls, Frames
<1>4. NestWhere'
  BY <1>1, <1>2, <1>3, CoreAssumption DEF NestWhere, CallPool, scripts, Calls
<1>5. ExecuteWhere' /\ StagesLocked'
  BY <1>1 DEF CallPool, ExecuteWhere, StagesLocked, scripts, machine
<1>6. pc' \in Places
  BY <1>1 DEF CallPool, TypeOK, Places
<1>7. Len(nest') <= MaxNest + 1
  BY <1>2, <1>3, CoreAssumption
<1>8. RunningListed' /\ NestOrder'
  BY <1>2, ServerCalled DEF CallPool, scripts, Calls
<1> QED
  BY <1>1, <1>3, <1>4, <1>5, <1>6, <1>7, <1>8, ControlInv DEF CallPool, TypeOK, loop, machine

(* SqServer.SendPluginCommand: one deeper than the others, and the last.   *)
LEMMA SendPluginCommandInv ==
  ASSUME CoreInv, SendPluginCommand
  PROVE  CoreInv'
<1> USE DEF Looping, Beginning, LevelsDone
<1>1. TypeOK /\ ExecuteWhere /\ StagesLocked /\ NestWhere
  BY CoreNow
<1>2. pc # "torn" /\ Len(nest) <= MaxNest /\ nest \in Seq(Frames) /\ Len(nest) \in Nat
  BY <1>1, LenProperties
  DEF SendPluginCommand, InScript, NestWhere, TypeOK, Scripted, Stages, LoadStages
<1>3. CASE pc' = "torn" /\ nest' = Append(nest, "command") /\ UNCHANGED g_Reload
  <2>1. /\ nest' \in Seq(Frames) /\ Len(nest') = Len(nest) + 1
        /\ \A i \in DOMAIN nest' :
             (i \in DOMAIN nest /\ nest'[i] = nest[i]) \/ nest'[i] = "command"
    BY <1>2, <1>3, Deeper DEF Calls, Frames
  <2>2. NestWhere'
    BY <1>1, <1>3, <2>1, CoreAssumption DEF NestWhere, SendPluginCommand, scripts, Calls
  <2>3. ExecuteWhere' /\ StagesLocked'
    BY <1>1, <1>3 DEF SendPluginCommand, ExecuteWhere, StagesLocked, scripts, machine
  <2>4. pc' \in Places /\ pc' \notin Looping /\ Len(nest') <= MaxNest + 1
    BY <1>2, <1>3, <2>1, CoreAssumption DEF Places, Ends
  <2>5. g_Reload' \in BOOLEAN
    BY <1>1, <1>3, Zenon DEF TypeOK
  <2>6. RunningListed' /\ NestOrder'
    BY <1>3, ServerCalled DEF SendPluginCommand, scripts, Calls
  <2> QED  BY <1>1, <2>1, <2>2, <2>3, <2>4, <2>5, <2>6, ControlInv
           DEF SendPluginCommand, TypeOK, loop, machine
<1>4. CASE g_Reload' = FALSE /\ UNCHANGED <<pc, nest>>
  <2>1. ExecuteWhere' /\ StagesLocked' /\ NestWhere'
    BY <1>1, <1>4 DEF SendPluginCommand, ExecuteWhere, StagesLocked, NestWhere, scripts, machine
  <2>2. pc' \in Places
    BY <1>1, <1>4 DEF TypeOK, Places
  <2>3. g_Reload' \in BOOLEAN
    BY <1>4, Zenon
  <2> QED  BY <1>1, <1>4, <2>1, <2>2, <2>3, ControlInv DEF SendPluginCommand, TypeOK, loop, machine
<1> QED  BY <1>3, <1>4 DEF SendPluginCommand

(* A call returns to the script that made it.                              *)
LEMMA CallReturnsInv ==
  ASSUME CoreInv, LoadReturns \/ PoolReturns
  PROVE  CoreInv'
<1>1. TypeOK /\ ExecuteWhere /\ StagesLocked /\ NestWhere
  BY CoreNow
<1>2. /\ nest \in Seq(Frames) /\ nest # <<>> /\ nest' = Front(nest)
      /\ UNCHANGED <<machine, scripts, loop, g_Reload, job, pc>>
  BY <1>1 DEF LoadReturns, PoolReturns, Nested, TypeOK
<1>3. /\ nest' \in Seq(Frames) /\ Len(nest') = Len(nest) - 1 /\ Len(nest) \in Nat
      /\ \A i \in DOMAIN nest' : i \in DOMAIN nest /\ nest'[i] = nest[i]
  BY <1>2, LessDeep
<1>4. NestWhere' /\ Len(nest') <= MaxNest + 1
  BY <1>1, <1>2, <1>3, CoreAssumption DEF NestWhere, scripts, TypeOK
<1>5. ExecuteWhere' /\ StagesLocked'
  BY <1>1, <1>2 DEF ExecuteWhere, StagesLocked, scripts, machine
<1>6. pc' \in Places
  BY <1>1, <1>2 DEF TypeOK, Places
<1>7. RunningListed' /\ NestOrder'
  <2>1. UNCHANGED m_Scripts /\ RunningListed /\ NestOrder
    BY <1>2, CoreNow DEF scripts
  <2>2. RunningListed'
    BY <1>3, <2>1 DEF RunningListed, Range, PathsOf
  <2>3. NestOrder'
    BY <1>3, <2>1 DEF NestOrder
  <2> QED  BY <2>2, <2>3
<1> QED  BY <1>1, <1>2, <1>3, <1>4, <1>5, <1>6, <1>7, ControlInv DEF TypeOK, loop, machine
-----------------------------------------------------------------------------
(* Core::Initialize.                                                       *)

(* It fails before any script was loaded: what is listed is still there, or*)
(* the plug-in is refused.                                                 *)
LEMMA InitializeFailsInv ==
  ASSUME CoreInv, pc \in {"initialize", "listing"}, InitializeFails
  PROVE  CoreInv'
<1>1. m_Scripts = <<>> /\ listening = {} /\ ~m_Executed
  BY CoreNow DEF ExecuteWhere, Beginning
<1>2. /\ UNCHANGED <<locked, obtained, listening, early, m_Scripts, m_Executed, ran,
                     dropped, loop, nest>>
      /\ m_PendingScripts' = <<>> \/ m_PendingScripts' = m_PendingScripts
      /\ pc' \in {"refused", "unloaded", "server"} /\ job' \in Jobs
  BY CoreNow DEF InitializeFails, ReloadReturns, Jobs, TypeOK
<1>3. g_Reload' \in BOOLEAN
  <2>1. CASE job = "boot"
    BY <2>1, CoreNow, Zenon DEF InitializeFails, TypeOK
  <2>2. CASE job # "boot"
    BY <2>2, Zenon DEF InitializeFails, ReloadReturns
  <2> QED  BY <2>1, <2>2
<1>4. /\ m_VM' \in BOOLEAN /\ m_Events' \in BOOLEAN /\ events' \in BOOLEAN
      /\ EventsThere' /\ events' = m_Events'
  <2>1. CASE job = "boot"
    BY <2>1, Zenon DEF InitializeFails, DropEvents, EventsThere
  <2>2. CASE job # "boot"
    <3>1. UNCHANGED <<m_VM, m_Events, events>>
      BY <2>2 DEF InitializeFails
    <3> QED  BY <3>1, CoreNow, Zenon DEF TypeOK, EventsThere
  <2> QED  BY <2>1, <2>2
<1>5. m_Executed' \in BOOLEAN
  BY <1>2, CoreNow, Zenon DEF TypeOK
<1>6. TypeOK'
  <2>1. /\ locked' \subseteq Stages /\ listening' \subseteq LoadStages
        /\ obtained' \subseteq LoadStages /\ early' \subseteq LoadStages
        /\ m_Scripts' \in Seq(Script) /\ m_PendingScripts' \in Seq(Script)
        /\ itr' \in Nat /\ last' \in Nat /\ level' \in 0..MaxLevels
        /\ nest' \in Seq(Frames) /\ Len(nest') <= MaxNest + 1
        /\ ran' \in [Paths -> Nat] /\ dropped' \in [Paths -> Nat]
    BY <1>2, CoreNow, NoScripts DEF TypeOK, loop
  <2>2. pc' \in Codes \cup Scripted \cup Ends
    BY <1>2 DEF Codes, Ends
  <2> QED  BY <1>2, <1>3, <1>4, <1>5, <2>1, <2>2 DEF TypeOK
<1>7. RunsOnce' /\ AllStarted' /\ OnlyListedRan'
  BY <1>1, <1>2, CoreNow DEF RunsOnce, AllStarted, OnlyListedRan
<1>8. ListsDistinct'
  BY <1>1, <1>2, CoreNow, NoScripts DEF ListsDistinct, DistinctPaths
<1>9. LoopWhere' /\ ExecuteWhere' /\ StagesLocked'
  BY <1>1, <1>2, CoreNow
  DEF LoopWhere, ExecuteWhere, StagesLocked, Looping, Beginning, LevelsDone
<1>10. NestWhere' /\ RunningListed' /\ NestOrder'
  BY <1>1, <1>2, CoreNow, NestStays DEF NestWhere
<1> QED  BY <1>4, <1>6, <1>7, <1>8, <1>9, <1>10 DEF CoreInv

(* InitEvents: the table tells whether the signals are there.              *)
LEMMA InitializeInv ==
  ASSUME CoreInv, Initialize
  PROVE  CoreInv'
<1>1. m_VM' \in BOOLEAN /\ m_Events' \in BOOLEAN /\ events' \in BOOLEAN
      /\ EventsThere' /\ events' = m_Events'
  <2>1. CASE m_Events
    <3>1. events' = events /\ m_Events' = TRUE /\ m_VM' = TRUE
      BY <2>1, Zenon DEF Initialize, InitEvents
    <3>2. events = TRUE
      BY <2>1, CoreNow, Zenon DEF TypeOK
    <3> QED  BY <3>1, <3>2, Zenon DEF EventsThere
  <2>2. CASE ~m_Events
    <3>1. events' = TRUE /\ m_Events' = TRUE /\ m_VM' = TRUE
      BY <2>2, Zenon DEF Initialize, InitEvents
    <3> QED  BY <3>1, Zenon DEF EventsThere
  <2> QED  BY <2>1, <2>2
<1>2. /\ UNCHANGED <<locked, obtained, listening, early, loop, g_Reload, job, nest, scripts>>
      /\ pc' = "listing" /\ pc = "initialize"
  BY DEF Initialize
<1>3. g_Reload' \in BOOLEAN
  BY <1>2, CoreNow, Zenon DEF TypeOK
<1>4. TypeOK'
  <2>1. pc' \in Codes \cup Scripted \cup Ends
    BY <1>2 DEF Codes
  <2> QED  BY <1>1, <1>2, <1>3, <2>1, CoreNow, ScriptsStay DEF TypeOK, loop
<1>5. LoopWhere' /\ ExecuteWhere' /\ StagesLocked' /\ NestWhere'
  BY <1>2, CoreNow
  DEF LoopWhere, ExecuteWhere, StagesLocked, NestWhere, Looping, Beginning, LevelsDone, scripts
<1>6. RunningListed' /\ NestOrder'
  BY <1>2, NestStays DEF scripts
<1> QED  BY <1>1, <1>2, <1>4, <1>5, <1>6, ScriptsStay DEF CoreInv

(* The machine and its events stay.                                        *)
LEMMA MachineStays ==
  ASSUME CoreInv, UNCHANGED <<m_VM, m_Events, events>>
  PROVE  /\ m_VM' \in BOOLEAN /\ m_Events' \in BOOLEAN /\ events' \in BOOLEAN
         /\ EventsThere' /\ events' = m_Events'
<1>1. m_VM' = m_VM /\ m_Events' = m_Events /\ events' = events
  OBVIOUS
<1>2. /\ m_VM \in BOOLEAN /\ m_Events \in BOOLEAN /\ events \in BOOLEAN
      /\ (m_VM => events) /\ events = m_Events
  BY CoreNow, Zenon DEF TypeOK, EventsThere
<1>3. m_VM' \in BOOLEAN /\ m_Events' \in BOOLEAN /\ events' \in BOOLEAN
  BY <1>1, <1>2
<1>4. events' = m_Events'
  BY <1>1, <1>2
<1>5. EventsThere'
  BY <1>1, <1>2 DEF EventsThere
<1> QED  BY <1>3, <1>4, <1>5

(* Scripts come to the list of pending ones: ListScript and QueueScript.   *)
LEMMA QueuedInv ==
  ASSUME CoreInv, NEW x \in Script, x.mPath \notin Known,
         m_PendingScripts' = Append(m_PendingScripts, x),
         UNCHANGED <<machine, m_Scripts, m_Executed, ran, dropped, loop, g_Reload, job, pc,
                        nest>>
  PROVE  CoreInv'
<1>1. /\ m_PendingScripts' \in Seq(Script) /\ DistinctPaths(m_PendingScripts')
      /\ PathsOf(m_PendingScripts') = PathsOf(m_PendingScripts) \cup {x.mPath}
  BY CoreNow, AppendedScripts DEF Known
<1>2. ListsDistinct'
  <2>1. m_Scripts' = m_Scripts /\ PathsOf(m_Scripts') = PathsOf(m_Scripts)
    OBVIOUS
  <2>2. PathsOf(m_Scripts') \cap PathsOf(m_PendingScripts') = {}
    BY <1>1, <2>1, CoreNow DEF ListsDistinct, Known
  <2> QED  BY <1>1, <2>1, <2>2, CoreNow DEF ListsDistinct, DistinctPaths
<1>3. /\ m_VM' \in BOOLEAN /\ m_Events' \in BOOLEAN /\ events' \in BOOLEAN
      /\ EventsThere' /\ events' = m_Events'
  BY MachineStays DEF machine
<1>4. m_Executed' \in BOOLEAN /\ g_Reload' \in BOOLEAN
  BY CoreNow, Zenon DEF TypeOK
<1>5. TypeOK'
  BY <1>1, <1>3, <1>4, CoreNow DEF TypeOK, loop, machine
<1>6. RunsOnce' /\ AllStarted' /\ OnlyListedRan'
  BY CoreNow DEF RunsOnce, AllStarted, OnlyListedRan, PathsOf
<1>7. LoopWhere'
  BY CoreNow, LoopStays DEF loop
<1>8. ExecuteWhere' /\ StagesLocked' /\ NestWhere' /\ RunningListed' /\ NestOrder'
  BY CoreNow, NestStays DEF ExecuteWhere, StagesLocked, NestWhere, machine
<1> QED  BY <1>2, <1>3, <1>5, <1>6, <1>7, <1>8 DEF CoreInv

LEMMA ListScriptInv ==
  ASSUME CoreInv, NEW x \in Listed, ListScript(x)
  PROVE  CoreInv'
<1>1. x \in Script
  BY CoreAssumption
<1>2. m_Scripts = <<>>
  BY CoreNow DEF ListScript, ExecuteWhere, Beginning
<1>3. CASE x.mPath \in PathsOf(m_PendingScripts)
  <2>1. UNCHANGED coreVars
    BY <1>3 DEF ListScript, Queue, coreVars, scripts
  <2> QED  BY <2>1, CoreUnchanged
<1>4. CASE x.mPath \notin PathsOf(m_PendingScripts)
  <2>1. x.mPath \notin Known
    BY <1>2, <1>4, NoScripts DEF Known
  <2>2. /\ m_PendingScripts' = Append(m_PendingScripts, x)
        /\ UNCHANGED <<machine, m_Scripts, m_Executed, ran, dropped, loop, g_Reload, job, pc,
                        nest>>
    BY <1>4 DEF ListScript, Queue
  <2> QED  BY <1>1, <2>1, <2>2, QueuedInv
<1> QED  BY <1>3, <1>4

LEMMA QueueScriptInv ==
  ASSUME CoreInv, NEW p \in Paths, NEW delay \in BOOLEAN, QueueScript(p, delay)
  PROVE  CoreInv'
<1> DEFINE x == [mPath |-> p, mDelay |-> delay]
<1>1. x \in Script /\ x.mPath = p
  BY DEF Script
<1>2. /\ m_PendingScripts' = Append(m_PendingScripts, x) /\ p \notin Known
      /\ UNCHANGED <<machine, m_Scripts, m_Executed, ran, dropped, loop, g_Reload, job, pc,
                        nest>>
  BY DEF QueueScript
<1> HIDE DEF x
<1> QED  BY <1>1, <1>2, QueuedInv

-----------------------------------------------------------------------------
(* The loops of Execute.                                                   *)

LEMMA ListsHold ==
  ASSUME DistinctPaths(m_Scripts'), DistinctPaths(m_PendingScripts'),
         PathsOf(m_Scripts') \cap PathsOf(m_PendingScripts') = {}
  PROVE  ListsDistinct'
BY DEF ListsDistinct, DistinctPaths

(* A script of the list that was not started is started.                   *)
LEMMA StartedOne ==
  ASSUME CoreInv, NEW i \in DOMAIN m_Scripts, ran[m_Scripts[i].mPath] = 0,
         Start(m_Scripts[i].mPath), UNCHANGED <<m_Scripts, m_Executed, dropped>>
  PROVE  /\ ran' \in [Paths -> Nat] /\ RunsOnce' /\ OnlyListedRan'
         /\ \A j \in DOMAIN m_Scripts :
              ran'[m_Scripts[j].mPath] = IF j = i THEN 1 ELSE ran[m_Scripts[j].mPath]
<1>1. /\ ran \in [Paths -> Nat] /\ RunsOnce /\ OnlyListedRan
      /\ DistinctPaths(m_Scripts) /\ m_Scripts \in Seq(Script)
  BY CoreNow DEF TypeOK
<1> DEFINE p == m_Scripts[i].mPath
<1>2. p \in Paths /\ p \in PathsOf(m_Scripts)
  BY <1>1, PlacesOfList
<1>3. ran' = [ran EXCEPT ![p] = 1] /\ ran[p] = 0
  BY <1>1, <1>2 DEF Start
<1>4. \A j \in DOMAIN m_Scripts : m_Scripts[j].mPath \in Paths /\ (m_Scripts[j].mPath = p => j = i)
  BY <1>1, PlacesOfList DEF DistinctPaths
<1> HIDE DEF p
<1>5. RunsOnce'
  BY <1>1, <1>2, <1>3, CoreNow DEF RunsOnce, TypeOK
<1>6. OnlyListedRan'
  <2>1. dropped[p] \in Nat /\ ran[p] # dropped[p] + 1
    BY <1>2, <1>3, CoreNow DEF TypeOK
  <2>2. ~m_Executed
    BY <1>1, <1>2, <2>1 DEF OnlyListedRan
  <2>3. ~m_Executed'
    BY <2>2, Zenon
  <2>4. dropped' = Never
    BY <1>1, <2>2 DEF OnlyListedRan
  <2>5. PathsOf(m_Scripts') = PathsOf(m_Scripts)
    BY DEF PathsOf
  <2>6. \A q \in Paths : q \notin PathsOf(m_Scripts') => ran'[q] = dropped'[q]
    BY <1>1, <1>2, <1>3, <2>5 DEF OnlyListedRan
  <2> QED  BY <2>3, <2>4, <2>6 DEF OnlyListedRan
<1>7. \A j \in DOMAIN m_Scripts :
        ran'[m_Scripts[j].mPath] = IF j = i THEN 1 ELSE ran[m_Scripts[j].mPath]
  BY <1>1, <1>2, <1>3, <1>4 DEF p
<1> QED  BY <1>1, <1>2, <1>3, <1>5, <1>6, <1>7

(* A step of DoScripts, or to it or from it.                               *)
LEMMA LoopStep ==
  ASSUME CoreInv, pc \in Looping \cup {"levels"}, pc' \in Looping \cup {"levels"},
         UNCHANGED <<machine, m_Executed, dropped, g_Reload, job, nest>>,
         m_Scripts' \in Seq(Script), m_PendingScripts' \in Seq(Script), ListsDistinct',
         ran' \in [Paths -> Nat], RunsOnce', OnlyListedRan',
         itr' \in Nat, last' \in Nat, level' \in 0..MaxLevels,
         LoopWhere',
         pc' = "levels" => \A i \in DOMAIN m_Scripts' : ran'[m_Scripts'[i].mPath] = 1
  PROVE  CoreInv'
<1>1. /\ m_VM' \in BOOLEAN /\ m_Events' \in BOOLEAN /\ events' \in BOOLEAN
      /\ EventsThere' /\ events' = m_Events'
  BY MachineStays DEF machine
<1>2. m_Executed' \in BOOLEAN /\ g_Reload' \in BOOLEAN
  BY CoreNow, Zenon DEF TypeOK
<1>3. TypeOK'
  BY <1>1, <1>2, CoreNow DEF TypeOK, machine, Codes, Scripted, Looping
<1>4. ~m_Executed /\ ~m_Executed'
  <2>1. pc \in Looping \cup LevelsDone
    BY DEF LevelsDone
  <2>2. ~m_Executed
    BY <2>1, CoreNow DEF ExecuteWhere
  <2> QED  BY <2>2, Zenon
<1>5. AllStarted'
  BY <1>4 DEF AllStarted
<1>6. ExecuteWhere'
  BY <1>4 DEF ExecuteWhere, Beginning, Looping, LevelsDone
<1>7. StagesLocked' /\ NestWhere'
  BY <1>4, CoreNow DEF StagesLocked, NestWhere, machine, Looping
<1>8. RunningListed' /\ NestOrder'
  BY <1>4, NoneRunsYet
<1> QED  BY <1>1, <1>3, <1>5, <1>6, <1>7, <1>8 DEF CoreInv

(* A level begins with scripts that were not started.                      *)
LEMMA BeginLevelInv ==
  ASSUME CoreInv, BeginLevel
  PROVE  CoreInv'
<1>1. /\ m_Scripts \in Seq(Script) /\ m_PendingScripts \in Seq(Script)
      /\ DistinctPaths(m_Scripts) /\ DistinctPaths(m_PendingScripts)
      /\ PathsOf(m_Scripts) \cap PathsOf(m_PendingScripts) = {}
      /\ TypeOK /\ OnlyListedRan /\ RunsOnce /\ ExecuteWhere
  BY CoreNow
<1>2. /\ m_Scripts' = m_Scripts \o m_PendingScripts /\ m_PendingScripts' = <<>>
      /\ last' = Len(m_Scripts) + 1 /\ itr' = Len(m_Scripts) + 1 /\ level' = level + 1
      /\ level < MaxLevels /\ UNCHANGED <<ran, dropped, m_Executed>> /\ pc = "levels" /\ pc' = "compile"
  BY DEF BeginLevel, LevelDue
<1>3. /\ m_Scripts' \in Seq(Script) /\ Len(m_Scripts') = Len(m_Scripts) + Len(m_PendingScripts)
      /\ \A i \in DOMAIN m_Scripts : m_Scripts'[i] = m_Scripts[i]
      /\ \A i \in DOMAIN m_Scripts' :
           i > Len(m_Scripts) => m_Scripts'[i].mPath \in PathsOf(m_PendingScripts)
      /\ PathsOf(m_Scripts') = PathsOf(m_Scripts) \cup PathsOf(m_PendingScripts)
      /\ DistinctPaths(m_Scripts')
  BY <1>1, <1>2, ConcatScripts
<1>4. m_PendingScripts' \in Seq(Script) /\ ListsDistinct'
  BY <1>2, <1>3, NoScripts, ListsHold
<1>5. ran' \in [Paths -> Nat] /\ RunsOnce' /\ OnlyListedRan'
  <2>1. ~m_Executed
    BY <1>1, <1>2 DEF ExecuteWhere, LevelsDone
  <2>2. ~m_Executed'
    BY <1>2, <2>1, Zenon
  <2>3. dropped' = Never
    BY <1>1, <1>2, <2>1 DEF OnlyListedRan
  <2>4. OnlyListedRan'
    BY <1>1, <1>2, <1>3, <2>2, <2>3 DEF OnlyListedRan
  <2> QED  BY <1>1, <1>2, <2>4 DEF TypeOK, RunsOnce
<1>6. /\ Len(m_Scripts) \in Nat /\ Len(m_PendingScripts) \in Nat
      /\ DOMAIN m_Scripts = 1..Len(m_Scripts) /\ DOMAIN m_Scripts' = 1..Len(m_Scripts')
  BY <1>1, <1>3, LenProperties
<1>7. /\ itr' \in Nat /\ last' \in Nat /\ level' \in 0..MaxLevels
      /\ last' \in 1..(Len(m_Scripts') + 1) /\ itr' \in last'..(Len(m_Scripts') + 1)
  BY <1>1, <1>2, <1>3, <1>6, CoreAssumption DEF TypeOK
<1>8. \A i \in DOMAIN m_Scripts' :
        ran'[m_Scripts'[i].mPath] = IF i > Len(m_Scripts) THEN 0 ELSE 1
  <2> SUFFICES ASSUME NEW i \in DOMAIN m_Scripts'
               PROVE  ran'[m_Scripts'[i].mPath] = IF i > Len(m_Scripts) THEN 0 ELSE 1
    OBVIOUS
  <2>1. CASE i > Len(m_Scripts)
    <3>1. /\ m_Scripts'[i].mPath \in PathsOf(m_PendingScripts)
          /\ m_Scripts'[i].mPath \notin PathsOf(m_Scripts)
      BY <1>1, <1>3, <2>1
    <3>2. dropped = Never
      BY <1>1, <1>2 DEF ExecuteWhere, OnlyListedRan, LevelsDone
    <3> QED  BY <1>1, <1>2, <2>1, <3>1, <3>2, PlacesOfList DEF OnlyListedRan, Never
  <2>2. CASE ~(i > Len(m_Scripts))
    <3>1. i \in DOMAIN m_Scripts /\ m_Scripts'[i] = m_Scripts[i]
      BY <1>3, <1>6, <2>2
    <3> QED  BY <1>1, <1>2, <2>2, <3>1 DEF ExecuteWhere, LevelsDone
  <2> QED  BY <2>1, <2>2
<1>9. \A i \in DOMAIN m_Scripts' : Due(i)' <=> i > Len(m_Scripts)
  BY <1>2, <1>6 DEF Due
<1>10. LoopWhere'
  BY <1>2, <1>7, <1>8, <1>9 DEF LoopWhere
<1> QED
  BY <1>2, <1>3, <1>4, <1>5, <1>7, <1>10, LoopStep DEF BeginLevel, Looping

(* Where DoScripts is, and what that says of the script it is at.          *)
LEMMA AtWork ==
  ASSUME CoreInv, pc \in Looping
  PROVE  /\ Len(m_Scripts) \in Nat /\ DOMAIN m_Scripts = 1..Len(m_Scripts)
         /\ itr \in Nat /\ last \in Nat /\ level \in 0..MaxLevels
         /\ last \in 1..(Len(m_Scripts) + 1) /\ itr \in last..(Len(m_Scripts) + 1)
         /\ itr <= Len(m_Scripts) => itr \in DOMAIN m_Scripts
         /\ \A i \in DOMAIN m_Scripts :
              ran[m_Scripts[i].mPath] = IF Due(i) THEN 0 ELSE 1
<1>1. TypeOK /\ LoopWhere /\ m_Scripts \in Seq(Script)
  BY CoreNow
<1> QED  BY <1>1, LenProperties DEF TypeOK, LoopWhere

(* DoScripts goes on without running a script.                             *)
LEMMA LoopMoves ==
  ASSUME CoreInv, pc \in Looping, pc' \in Looping \cup {"levels"},
         UNCHANGED <<machine, scripts, g_Reload, job, nest>>,
         itr' \in Nat, UNCHANGED <<last, level>>, LoopWhere',
         pc' = "levels" => \A i \in DOMAIN m_Scripts : ran[m_Scripts[i].mPath] = 1
  PROVE  CoreInv'
<1>1. UNCHANGED <<m_Scripts, m_PendingScripts, m_Executed, ran, dropped>>
  BY DEF scripts
<1>2. last' \in Nat /\ level' \in 0..MaxLevels
  BY AtWork
<1> QED  BY <1>1, <1>2, ScriptsStay, LoopStep

LEMMA CompileInv ==
  ASSUME CoreInv, Compile
  PROVE  CoreInv'
<1>1. pc = "compile" /\ pc \in Looping /\ itr \in DOMAIN m_Scripts
  BY AtWork DEF Compile, AtScript, Looping
<1>2. CASE m_Scripts[itr].mDelay
  <2>1. itr' = itr + 1 /\ UNCHANGED <<machine, scripts, last, level, g_Reload, job, pc, nest>>
    BY <1>2 DEF Compile, scripts
  <2>2. \A i \in DOMAIN m_Scripts : Due(i)' <=> Due(i)
    BY <1>1, <1>2, <2>1, AtWork DEF Due, scripts
  <2>3. LoopWhere'
    BY <1>1, <2>1, <2>2, AtWork DEF LoopWhere, scripts
  <2> QED  BY <1>1, <2>1, <2>3, AtWork, LoopMoves
<1>3. CASE ~m_Scripts[itr].mDelay
  <2>1. /\ Start(m_Scripts[itr].mPath) /\ pc' = "immediate"
        /\ UNCHANGED <<machine, m_Scripts, m_PendingScripts, m_Executed, dropped, itr,
                       last, level, g_Reload, job, nest>>
    BY <1>3 DEF Compile
  <2>2. ran[m_Scripts[itr].mPath] = 0
    BY <1>1, AtWork DEF Due
  <2>3. /\ ran' \in [Paths -> Nat] /\ RunsOnce' /\ OnlyListedRan'
        /\ \A j \in DOMAIN m_Scripts :
             ran'[m_Scripts[j].mPath] = IF j = itr THEN 1 ELSE ran[m_Scripts[j].mPath]
    BY <1>1, <2>1, <2>2, StartedOne
  <2>4. \A i \in DOMAIN m_Scripts : Due(i)' <=> Due(i) /\ i # itr
    BY <1>1, <1>3, <2>1, AtWork DEF Due
  <2>5. \A i \in DOMAIN m_Scripts : ran'[m_Scripts[i].mPath] = IF Due(i)' THEN 0 ELSE 1
    BY <1>1, <2>3, <2>4, AtWork
  <2>6. LoopWhere'
    BY <1>1, <1>3, <2>1, <2>5, AtWork DEF LoopWhere
  <2>7. /\ m_Scripts' \in Seq(Script) /\ m_PendingScripts' \in Seq(Script)
        /\ ListsDistinct' /\ pc' \in Looping
    BY <2>1, CoreNow, ListsHold DEF Looping
  <2> QED  BY <1>1, <2>1, <2>3, <2>6, <2>7, AtWork, LoopStep
<1> QED  BY <1>2, <1>3

LEMMA CompiledInv ==
  ASSUME CoreInv, Compiled
  PROVE  CoreInv'
<1>1. pc = "compile" /\ pc \in Looping /\ pc' \in Looping /\ itr' = last /\ pc' = "delayed"
  BY DEF Compiled, Looping
<1>2. \A i \in DOMAIN m_Scripts : Due(i)' <=> Due(i)
  BY <1>1, AtWork DEF Compiled, AtScript, Due, scripts
<1>3. LoopWhere'
  BY <1>1, <1>2, AtWork DEF Compiled, LoopWhere, scripts
<1> QED  BY <1>1, <1>3, AtWork, LoopMoves DEF Compiled

LEMMA DelayedInv ==
  ASSUME CoreInv, Delayed
  PROVE  CoreInv'
<1>1. pc = "delayed" /\ pc \in Looping
  BY DEF Delayed, Looping
<1>2. CASE ~AtScript
  <2>1. pc' = "levels" /\ UNCHANGED <<machine, scripts, itr, last, level, g_Reload, job, nest>>
    BY <1>2 DEF Delayed, scripts
  <2>2. \A i \in DOMAIN m_Scripts : ~Due(i)
    BY <1>1, <1>2, AtWork DEF AtScript, Due
  <2>3. LoopWhere'
    BY <2>1 DEF LoopWhere, Looping
  <2> QED  BY <1>1, <2>1, <2>2, <2>3, AtWork, LoopMoves
<1>3. CASE AtScript /\ m_Scripts[itr].mDelay
  <2>1. /\ Start(m_Scripts[itr].mPath) /\ pc' = "deferred"
        /\ UNCHANGED <<machine, m_Scripts, m_PendingScripts, m_Executed, dropped, itr,
                       last, level, g_Reload, job, nest>>
    BY <1>3 DEF Delayed
  <2>2. itr \in DOMAIN m_Scripts
    BY <1>1, <1>3, AtWork DEF AtScript
  <2>3. ran[m_Scripts[itr].mPath] = 0
    BY <1>1, <1>3, <2>2, AtWork DEF Due
  <2>4. /\ ran' \in [Paths -> Nat] /\ RunsOnce' /\ OnlyListedRan'
        /\ \A j \in DOMAIN m_Scripts :
             ran'[m_Scripts[j].mPath] = IF j = itr THEN 1 ELSE ran[m_Scripts[j].mPath]
    BY <2>1, <2>2, <2>3, StartedOne
  <2>5. \A i \in DOMAIN m_Scripts : Due(i)' <=> Due(i) /\ i # itr
    BY <1>1, <1>3, <2>1, AtWork DEF Due
  <2>6. \A i \in DOMAIN m_Scripts : ran'[m_Scripts[i].mPath] = IF Due(i)' THEN 0 ELSE 1
    BY <1>1, <2>4, <2>5, AtWork
  <2>7. LoopWhere'
    BY <1>1, <1>3, <2>1, <2>6, AtWork DEF LoopWhere, AtScript
  <2>8. /\ m_Scripts' \in Seq(Script) /\ m_PendingScripts' \in Seq(Script)
        /\ ListsDistinct' /\ pc' \in Looping
    BY <2>1, CoreNow, ListsHold DEF Looping
  <2> QED  BY <1>1, <2>1, <2>4, <2>7, <2>8, AtWork, LoopStep
<1>4. CASE AtScript /\ ~m_Scripts[itr].mDelay
  <2>1. itr' = itr + 1 /\ UNCHANGED <<machine, scripts, last, level, g_Reload, job, pc, nest>>
    BY <1>4 DEF Delayed, scripts
  <2>2. \A i \in DOMAIN m_Scripts : Due(i)' <=> Due(i)
    BY <1>1, <1>4, <2>1, AtWork DEF Due, scripts
  <2>3. LoopWhere'
    BY <1>1, <1>4, <2>1, <2>2, AtWork DEF LoopWhere, AtScript, scripts
  <2> QED  BY <1>1, <2>1, <2>3, AtWork, LoopMoves
<1> QED  BY <1>2, <1>3, <1>4

LEMMA RunReturnsInv ==
  ASSUME CoreInv, RunReturns
  PROVE  CoreInv'
<1>1. /\ pc \in {"immediate", "deferred"} /\ pc \in Looping /\ pc' \in Looping
      /\ itr' = itr + 1 /\ pc' = IF pc = "immediate" THEN "compile" ELSE "delayed"
      /\ UNCHANGED <<machine, scripts, last, level, g_Reload, job, nest>>
  BY DEF RunReturns, Returning, Looping
<1>2. itr <= Len(m_Scripts)
  BY <1>1, CoreNow DEF LoopWhere
<1>3. \A i \in DOMAIN m_Scripts : Due(i)' <=> Due(i)
  BY <1>1, AtWork DEF Due, scripts
<1>4. LoopWhere'
  BY <1>1, <1>2, <1>3, AtWork DEF LoopWhere, scripts
<1> QED  BY <1>1, <1>4, AtWork, LoopMoves

(* The end of Execute: all of the list was started.                        *)
LEMMA ImportReturnsInv ==
  ASSUME CoreInv, ImportReturns
  PROVE  CoreInv'
<1>1. /\ TypeOK /\ RunsOnce /\ OnlyListedRan /\ ExecuteWhere /\ StagesLocked /\ NestWhere
      /\ m_Scripts \in Seq(Script) /\ m_PendingScripts \in Seq(Script)
  BY CoreNow
<1>2. /\ pc = "Import" /\ m_Executed' = TRUE
      /\ UNCHANGED <<machine, m_Scripts, m_PendingScripts, ran, dropped, nest>>
  BY DEF ImportReturns, Returning
<1>3. /\ pc' \in {"Startup", "refused", "unloaded", "server"}
      /\ job' \in Jobs /\ g_Reload' \in BOOLEAN
      /\ itr' = 0 /\ last' = 0 /\ level' = 0
  BY <1>1, ExecuteReturnsTo DEF ImportReturns
<1>4. /\ m_VM' \in BOOLEAN /\ m_Events' \in BOOLEAN /\ events' \in BOOLEAN
      /\ EventsThere' /\ events' = m_Events'
  BY <1>2, MachineStays DEF machine
<1>5. m_Executed' \in BOOLEAN
  BY <1>2
<1>6. pc' \in Codes \cup Scripted \cup Ends /\ 0 \in 0..MaxLevels
  BY <1>3, CoreAssumption DEF Codes, Scripted, Ends
<1>7. TypeOK'
  BY <1>1, <1>2, <1>3, <1>4, <1>5, <1>6 DEF TypeOK, machine
<1>8. ListsDistinct'
  BY <1>2, CoreNow, ListsHold
<1>9. RunsOnce' /\ OnlyListedRan' /\ AllStarted'
  <2>1. dropped = Never /\ \A i \in DOMAIN m_Scripts : ran[m_Scripts[i].mPath] = 1
    <3>1. pc \in LevelsDone
      BY <1>2 DEF LevelsDone
    <3> QED  BY <1>1, <3>1 DEF ExecuteWhere, OnlyListedRan
  <2>2. \A p \in PathsOf(m_Scripts) : ran[p] = 1 /\ dropped[p] = 0
    BY <1>1, <2>1, PlacesOfList DEF PathsOf, Never
  <2>3. PathsOf(m_Scripts') = PathsOf(m_Scripts)
    BY <1>2 DEF PathsOf
  <2>4. OnlyListedRan'
    BY <1>1, <1>2, <2>2, <2>3 DEF OnlyListedRan
  <2>5. RunsOnce' /\ AllStarted'
    BY <1>1, <1>2, <2>1 DEF RunsOnce, AllStarted
  <2> QED  BY <2>4, <2>5
<1>10. LoopWhere' /\ ExecuteWhere'
  BY <1>3 DEF LoopWhere, ExecuteWhere, Looping, Beginning, LevelsDone
<1>11. StagesLocked' /\ NestWhere' /\ RunningListed' /\ NestOrder'
  BY <1>1, <1>2, <1>3, NestStays DEF StagesLocked, NestWhere, machine
<1> QED  BY <1>4, <1>7, <1>8, <1>9, <1>10, <1>11 DEF CoreInv

(* The end of Terminate.                                                   *)
LEMMA CloseInv ==
  ASSUME CoreInv, Close
  PROVE  CoreInv'
<1>1. TypeOK /\ NestWhere /\ StagesLocked
  BY CoreNow
<1>2. /\ events' = FALSE /\ m_Events' = FALSE /\ m_VM' = FALSE /\ m_Executed' = FALSE
      /\ obtained' = {} /\ listening' = {} /\ early' = {}
      /\ m_Scripts' = <<>> /\ m_PendingScripts' = <<>>
      /\ ran' = Never /\ dropped' = Never
      /\ UNCHANGED <<locked, loop, g_Reload, nest>> /\ nest = <<>>
  BY DEF Close, DropEvents, Returning
<1>3. pc' \in {"initialize", "crashed", "unloaded"} /\ job' \in Jobs
  BY <1>1, <1>2 DEF Close, ShutdownReturns, TypeOK, Jobs
<1>4. /\ m_VM' \in BOOLEAN /\ m_Events' \in BOOLEAN /\ events' \in BOOLEAN
      /\ m_Executed' \in BOOLEAN
      /\ EventsThere' /\ events' = m_Events'
  BY <1>2, Zenon DEF EventsThere
<1>5. g_Reload' \in BOOLEAN
  BY <1>1, <1>2, Zenon DEF TypeOK
<1>6. /\ m_Scripts' \in Seq(Script) /\ m_PendingScripts' \in Seq(Script) /\ ListsDistinct'
  BY <1>2, NoScripts, ListsHold
<1>7. TypeOK'
  BY <1>1, <1>2, <1>3, <1>4, <1>5, <1>6 DEF TypeOK, loop, Codes, Ends, Never
<1>8. RunsOnce' /\ OnlyListedRan' /\ AllStarted'
  BY <1>2 DEF RunsOnce, OnlyListedRan, AllStarted, PathsOf, Never
<1>9. LoopWhere' /\ ExecuteWhere'
  BY <1>2, <1>3 DEF LoopWhere, ExecuteWhere, Looping, Beginning, LevelsDone
<1>10. StagesLocked' /\ NestWhere' /\ RunningListed' /\ NestOrder'
  BY <1>1, <1>2, <1>3, CoreAssumption
  DEF StagesLocked, NestWhere, RunningListed, NestOrder, Range
<1> QED  BY <1>4, <1>6, <1>7, <1>8, <1>9, <1>10 DEF CoreInv

-----------------------------------------------------------------------------
(* Scripts that are loaded late.                                           *)

(* After Execute, and while script code runs.                              *)
LEMMA LateScript ==
  ASSUME CoreInv, InScript, m_Executed
  PROVE  pc \notin Looping \cup Beginning \cup LevelsDone \cup Ends
<1>1. pc \notin Looping \cup Beginning \cup LevelsDone
  BY CoreNow DEF ExecuteWhere
<1> QED  BY <1>1 DEF InScript, Scripted, Ends, Stages, LoadStages

(* The parts that a late script leaves alone.                              *)
LEMMA LateStays ==
  ASSUME CoreInv, InScript, m_Executed, pc' \in {pc, "crashed"},
         UNCHANGED <<machine, m_PendingScripts, m_Executed, loop, g_Reload, job>>,
         m_Scripts' \in Seq(Script), nest' \in Seq(Frames), Len(nest') <= MaxNest + 1,
         ran' \in [Paths -> Nat], dropped' \in [Paths -> Nat]
  PROVE  TypeOK' /\ LoopWhere' /\ ExecuteWhere' /\ StagesLocked' /\ EventsThere'
         /\ events' = m_Events'
<1>1. /\ m_VM' \in BOOLEAN /\ m_Events' \in BOOLEAN /\ events' \in BOOLEAN
      /\ EventsThere' /\ events' = m_Events'
  BY MachineStays DEF machine
<1>2. m_Executed' \in BOOLEAN /\ g_Reload' \in BOOLEAN
  BY CoreNow, Zenon DEF TypeOK
<1>3. pc' \notin Looping \cup Beginning \cup LevelsDone
  BY LateScript DEF Looping, Beginning, LevelsDone
<1>4. pc' \in Codes \cup Scripted \cup Ends
  BY CoreNow DEF TypeOK, Ends
<1>5. TypeOK'
  BY <1>1, <1>2, <1>4, CoreNow DEF TypeOK, machine, loop
<1>6. LoopWhere' /\ ExecuteWhere'
  BY <1>3 DEF LoopWhere, ExecuteWhere
<1>7. StagesLocked'
  <2>1. UNCHANGED <<locked, obtained, listening, early, m_Executed>>
    BY DEF machine
  <2> QED  BY <1>3, <2>1, CoreNow DEF StagesLocked, LevelsDone
<1> QED  BY <1>1, <1>5, <1>6, <1>7

LEMMA LoadScriptInv ==
  ASSUME CoreInv, NEW p \in Paths, LoadScript(p)
  PROVE  CoreInv'
<1> DEFINE x == [mPath |-> p, mDelay |-> FALSE]
<1>1. /\ InScript /\ m_Executed /\ p \notin Known
      /\ m_Scripts' = Append(m_Scripts, x) /\ Start(p)
      /\ Len(nest) < MaxNest /\ nest' = Append(nest, p)
      /\ UNCHANGED <<machine, m_PendingScripts, m_Executed, dropped, loop, g_Reload, job>>
  BY DEF LoadScript, Call
<1>2. pc' \in {pc, "crashed"}
  BY DEF LoadScript
<1>3. x \in Script /\ x.mPath = p
  BY DEF Script
<1> HIDE DEF x
<1>4. /\ m_Scripts \in Seq(Script) /\ m_PendingScripts \in Seq(Script)
      /\ DistinctPaths(m_Scripts) /\ DistinctPaths(m_PendingScripts)
      /\ PathsOf(m_Scripts) \cap PathsOf(m_PendingScripts) = {}
      /\ TypeOK /\ OnlyListedRan /\ RunsOnce /\ AllStarted /\ NestWhere
      /\ RunningListed /\ NestOrder /\ dropped \in [Paths -> Nat]
      /\ nest \in Seq(Frames) /\ ran \in [Paths -> Nat]
  BY CoreNow DEF TypeOK
<1>5. p \notin PathsOf(m_Scripts) /\ p \notin PathsOf(m_PendingScripts)
  BY <1>1 DEF Known
<1>6. /\ m_Scripts' \in Seq(Script) /\ DistinctPaths(m_Scripts')
      /\ Len(m_Scripts') = Len(m_Scripts) + 1
      /\ \A i \in DOMAIN m_Scripts : m_Scripts'[i] = m_Scripts[i]
      /\ m_Scripts'[Len(m_Scripts) + 1] = x
      /\ PathsOf(m_Scripts') = PathsOf(m_Scripts) \cup {p}
  BY <1>1, <1>3, <1>4, <1>5, AppendedScripts
<1>7. /\ nest' \in Seq(Frames) /\ Len(nest') = Len(nest) + 1 /\ Len(nest) \in Nat
      /\ \A i \in DOMAIN nest' : (i \in DOMAIN nest /\ nest'[i] = nest[i]) \/ nest'[i] = p
      /\ \A i \in DOMAIN nest' : i \in DOMAIN nest \/ i = Len(nest) + 1
  BY <1>1, <1>4, Deeper, LenProperties DEF Frames
<1>8. /\ ran[p] = dropped[p] /\ dropped[p] \in Nat
      /\ ran' = [ran EXCEPT ![p] = ran[p] + 1] /\ ran[p] \in Nat
  BY <1>1, <1>4, <1>5 DEF OnlyListedRan, Start
<1>9. ran' \in [Paths -> Nat] /\ RunsOnce' /\ OnlyListedRan'
  <2>1. ran' \in [Paths -> Nat] /\ ran'[p] = ran[p] + 1
        /\ \A q \in Paths : q # p => ran'[q] = ran[q]
    BY <1>4, <1>8
  <2>2. RunsOnce'
    BY <1>1, <1>4, <1>8, <2>1 DEF RunsOnce
  <2>3. m_Executed'
    BY <1>1, Zenon
  <2>4. /\ PathsOf(m_Scripts') = PathsOf(m_Scripts) \cup {p} /\ dropped' = dropped
        /\ PathsOf(m_Scripts) \subseteq Paths
    BY <1>1, <1>4, <1>6, PlacesOfList
  <2>5. \A q \in Paths : q \notin PathsOf(m_Scripts') => ran'[q] = dropped'[q]
    BY <1>4, <2>1, <2>4 DEF OnlyListedRan
  <2>6. \A q \in PathsOf(m_Scripts') : ran'[q] = dropped'[q] + 1
    BY <1>1, <1>4, <1>5, <1>8, <2>1, <2>4 DEF OnlyListedRan
  <2>7. OnlyListedRan'
    BY <2>3, <2>5, <2>6 DEF OnlyListedRan
  <2> QED  BY <2>1, <2>2, <2>7
<1>10. ListsDistinct'
  BY <1>1, <1>4, <1>5, <1>6, ListsHold
<1>11. AllStarted'
  <2> SUFFICES ASSUME NEW i \in DOMAIN m_Scripts' PROVE ran'[m_Scripts'[i].mPath] > 0
    BY DEF AllStarted
  <2>1. i \in DOMAIN m_Scripts \/ i = Len(m_Scripts) + 1
    BY <1>4, <1>6, LenProperties
  <2>2. CASE i \in DOMAIN m_Scripts
    BY <1>1, <1>4, <1>5, <1>6, <1>8, <2>2, PlacesOfList DEF AllStarted
  <2>3. CASE i = Len(m_Scripts) + 1
    BY <1>3, <1>4, <1>6, <1>8, <2>3
  <2> QED  BY <2>1, <2>2, <2>3
<1>12. TypeOK' /\ LoopWhere' /\ ExecuteWhere' /\ StagesLocked' /\ EventsThere'
       /\ events' = m_Events'
  <2>1. Len(nest') <= MaxNest + 1 /\ dropped' \in [Paths -> Nat]
    BY <1>1, <1>4, <1>7, CoreAssumption
  <2> QED  BY <1>1, <1>2, <1>6, <1>7, <1>9, <2>1, LateStays
<1>13. NestWhere'
  BY <1>1, <1>4, <1>7, CoreAssumption DEF NestWhere
<1>14. RunningListed'
  BY <1>4, <1>6, <1>7 DEF RunningListed, Range
<1>15. NestOrder'
  <2> SUFFICES ASSUME NEW i \in DOMAIN nest', NEW j \in DOMAIN nest', i < j,
                      NEW k \in DOMAIN m_Scripts', NEW l \in DOMAIN m_Scripts',
                      nest'[i] = m_Scripts'[k].mPath, nest'[j] = m_Scripts'[l].mPath
               PROVE  k < l
    BY DEF NestOrder
  <2>1. /\ Len(m_Scripts) \in Nat /\ DOMAIN m_Scripts = 1..Len(m_Scripts)
        /\ DOMAIN m_Scripts' = 1..(Len(m_Scripts) + 1)
        /\ DOMAIN nest = 1..Len(nest) /\ DOMAIN nest' = 1..(Len(nest) + 1)
    BY <1>4, <1>6, <1>7, LenProperties
  <2>2. i \in DOMAIN nest /\ nest'[i] = nest[i]
    BY <1>1, <1>4, <1>7, <2>1, AppendProperties
  <2>3. nest[i] \in Paths
    BY <1>6, <2>2, PlacesOfList
  <2>4. nest[i] \in PathsOf(m_Scripts) /\ nest[i] # p
    BY <1>4, <1>5, <2>2, <2>3 DEF RunningListed, Range
  <2>5. k \in DOMAIN m_Scripts /\ m_Scripts'[k] = m_Scripts[k]
    <3>1. m_Scripts'[k].mPath # p
      BY <2>2, <2>4
    <3>2. k # Len(m_Scripts) + 1
      BY <1>3, <1>6, <3>1
    <3> QED  BY <1>6, <2>1, <3>2
  <2>6. CASE l = Len(m_Scripts) + 1
    BY <2>1, <2>5, <2>6
  <2>7. CASE l # Len(m_Scripts) + 1
    <3>1. l \in DOMAIN m_Scripts /\ m_Scripts'[l] = m_Scripts[l]
      BY <1>6, <2>1, <2>7
    <3>2. nest'[j] # p
      BY <1>5, <3>1 DEF PathsOf
    <3>3. j \in DOMAIN nest /\ nest'[j] = nest[j]
      BY <1>7, <3>2
    <3> QED  BY <1>4, <2>2, <2>5, <3>1, <3>3 DEF NestOrder
  <2> QED  BY <2>6, <2>7
<1> QED  BY <1>9, <1>10, <1>11, <1>12, <1>13, <1>14, <1>15 DEF CoreInv

(* The last script of the list is dropped.  It is the one that fails, or   *)
(* behind it, so that those it was loaded from stay.                       *)
LEMMA LoadFailsInv ==
  ASSUME CoreInv, LoadFails
  PROVE  CoreInv'
<1>1. /\ InScript /\ nest # <<>> /\ Last(nest) \in Paths /\ nest' = Front(nest)
      /\ m_Scripts # <<>> /\ m_Scripts' = Front(m_Scripts)
      /\ Drop(Last(m_Scripts).mPath)
      /\ UNCHANGED <<machine, m_PendingScripts, m_Executed, ran, loop, g_Reload, job, pc>>
  BY DEF LoadFails, Nested, InScript
<1>2. /\ m_Scripts \in Seq(Script) /\ m_PendingScripts \in Seq(Script)
      /\ DistinctPaths(m_Scripts) /\ DistinctPaths(m_PendingScripts)
      /\ PathsOf(m_Scripts) \cap PathsOf(m_PendingScripts) = {}
      /\ TypeOK /\ OnlyListedRan /\ RunsOnce /\ AllStarted /\ NestWhere
      /\ RunningListed /\ NestOrder /\ dropped \in [Paths -> Nat]
      /\ nest \in Seq(Frames) /\ ran \in [Paths -> Nat] /\ Len(nest) <= MaxNest + 1
  BY CoreNow DEF TypeOK
<1> DEFINE n == Len(nest)
<1>3. /\ nest' \in Seq(Frames) /\ Len(nest') = n - 1
      /\ \A i \in DOMAIN nest' : i \in DOMAIN nest /\ nest'[i] = nest[i]
      /\ n \in DOMAIN nest /\ nest[n] \in Paths /\ n \in Nat
  BY <1>1, <1>2, LessDeep
<1>4. m_Executed
  BY <1>2, <1>3 DEF NestWhere
<1>5. /\ m_Scripts' \in Seq(Script) /\ DOMAIN m_Scripts' \subseteq DOMAIN m_Scripts
      /\ \A i \in DOMAIN m_Scripts' : m_Scripts'[i] = m_Scripts[i]
                                      /\ m_Scripts[i].mPath # Last(m_Scripts).mPath
      /\ DistinctPaths(m_Scripts')
      /\ PathsOf(m_Scripts') = PathsOf(m_Scripts) \ {Last(m_Scripts).mPath}
      /\ Last(m_Scripts).mPath \in Paths
  BY <1>1, <1>2, FrontScripts
<1>6. ran' \in [Paths -> Nat] /\ RunsOnce' /\ OnlyListedRan' /\ dropped' \in [Paths -> Nat]
  <2> DEFINE q == Last(m_Scripts).mPath
  <2>1. q \in Paths /\ q \in PathsOf(m_Scripts)
    BY <1>1, <1>2, PlacesOfList, LenProperties, EmptySeq DEF Last, PathsOf
  <2>2. PathsOf(m_Scripts') = PathsOf(m_Scripts) \ {q}
    BY <1>5
  <2> HIDE DEF q
  <2>3. /\ dropped' \in [Paths -> Nat] /\ dropped'[q] = dropped[q] + 1
        /\ \A p \in Paths : p # q => dropped'[p] = dropped[p]
    BY <1>1, <1>2, <2>1 DEF Drop, q
  <2>4. ran[q] = dropped[q] + 1 /\ ran' = ran
    BY <1>1, <1>2, <1>4, <2>1 DEF OnlyListedRan
  <2>5. RunsOnce'
    <3> SUFFICES ASSUME NEW p \in Paths PROVE ran'[p] <= dropped'[p] + 1
      BY DEF RunsOnce
    <3>1. ran[p] \in Nat /\ dropped[p] \in Nat /\ ran[p] <= dropped[p] + 1
      BY <1>2 DEF RunsOnce
    <3>2. dropped'[p] = dropped[p] \/ dropped'[p] = dropped[p] + 1
      BY <2>3
    <3> QED  BY <2>4, <3>1, <3>2
  <2>6. m_Executed'
    BY <1>1, <1>4, Zenon
  <2>7. \A p \in Paths : p \notin PathsOf(m_Scripts') => ran'[p] = dropped'[p]
    BY <1>2, <2>2, <2>3, <2>4 DEF OnlyListedRan
  <2>8. PathsOf(m_Scripts) \subseteq Paths
    BY <1>2, PlacesOfList
  <2>9. \A p \in PathsOf(m_Scripts') : ran'[p] = dropped'[p] + 1
    BY <1>2, <1>4, <2>2, <2>3, <2>4, <2>8 DEF OnlyListedRan
  <2>10. OnlyListedRan'
    BY <2>6, <2>7, <2>9 DEF OnlyListedRan
  <2> QED  BY <1>1, <1>2, <2>3, <2>5, <2>10
<1>7. ListsDistinct'
  BY <1>1, <1>2, <1>5, ListsHold
<1>8. AllStarted'
  BY <1>1, <1>2, <1>4, <1>5, PlacesOfList DEF AllStarted
<1>9. TypeOK' /\ LoopWhere' /\ ExecuteWhere' /\ StagesLocked' /\ EventsThere'
       /\ events' = m_Events'
  BY <1>1, <1>2, <1>3, <1>4, <1>5, <1>6, LateStays, CoreAssumption
<1>10. NestWhere'
  BY <1>1, <1>2, <1>3, CoreAssumption DEF NestWhere
<1>11. RunningListed'
  <2> DEFINE z == Len(m_Scripts)
  <2>1. /\ z \in Nat \ {0} /\ z \in DOMAIN m_Scripts /\ DOMAIN m_Scripts = 1..z
        /\ Last(m_Scripts) = m_Scripts[z]
    BY <1>1, <1>2, LenProperties, EmptySeq DEF Last
  <2> SUFFICES ASSUME NEW i \in DOMAIN nest', nest'[i] \in Paths
               PROVE  nest'[i] \in PathsOf(m_Scripts')
    BY DEF RunningListed, Range
  <2>2. /\ i \in DOMAIN nest /\ nest'[i] = nest[i] /\ nest[i] \in PathsOf(m_Scripts)
        /\ nest[n] \in PathsOf(m_Scripts)
    BY <1>2, <1>3 DEF RunningListed, Range
  <2>3. PICK l \in DOMAIN m_Scripts : nest[n] = m_Scripts[l].mPath
    BY <2>2 DEF PathsOf
  <2>4. i < n
    BY <1>2, <1>3, LenProperties
  <2>5. nest[i] # Last(m_Scripts).mPath
    <3>1. SUFFICES ASSUME nest[i] = m_Scripts[z].mPath PROVE FALSE
      BY <2>1
    <3>2. z < l
      BY <1>2, <1>3, <2>1, <2>2, <2>3, <2>4, <3>1 DEF NestOrder
    <3> QED  BY <2>1, <2>3, <3>2
  <2> QED  BY <1>5, <2>2, <2>5
<1>12. NestOrder'
  BY <1>2, <1>3, <1>5 DEF NestOrder
<1> QED  BY <1>6, <1>7, <1>8, <1>9, <1>10, <1>11, <1>12 DEF CoreInv

-----------------------------------------------------------------------------
(* Every step keeps the invariant.                                         *)
LEMMA CoreNextInv ==
  ASSUME CoreInv, CoreNext
  PROVE  CoreInv'
<1>1. CASE ExecuteNext
  <2>1. ASSUME NEW x \in Listed, ListScript(x) PROVE CoreInv'
    BY <2>1, ListScriptInv
  <2>2. CASE InitializeNothing \/ ListFails
    BY <2>2, InitializeFailsInv DEF InitializeNothing, ListFails
  <2> QED
    BY <1>1, <2>1, <2>2, InitializeInv, PlainInv, LeavingInv, BeginLevelInv, CompileInv,
       CompiledInv, DelayedInv
    DEF ExecuteNext
<1>2. CASE ReturnNext
  BY <1>2, RunReturnsInv, PlainInv, LeavingInv, ImportReturnsInv, CloseInv DEF ReturnNext
<1>3. CASE NestedNext
  BY <1>3, CallReturnsInv, LoadFailsInv DEF NestedNext
<1>4. CASE ServerNext
  BY <1>4, PlainInv, ServerCallsInv, LeavingInv DEF ServerNext
<1>5. CASE ScriptNext
  <2>1. ASSUME NEW p \in Paths, NEW delay \in BOOLEAN, QueueScript(p, delay) PROVE CoreInv'
    BY <2>1, QueueScriptInv
  <2>2. ASSUME NEW p \in Paths, LoadScript(p) PROVE CoreInv'
    BY <2>2, LoadScriptInv
  <2>3. ASSUME NEW s \in LoadStages, GetLoadEvent(s) \/ Connect(s) PROVE CoreInv'
    BY <2>3, StageScriptInv
  <2>4. ASSUME NEW toggle \in BOOLEAN, SetReloadStatus(toggle) PROVE CoreInv'
    BY <2>4, SetReloadStatusInv
  <2> QED  BY <1>5, <2>1, <2>2, <2>3, <2>4, CallPoolInv, SendPluginCommandInv DEF ScriptNext
<1> QED  BY <1>1, <1>2, <1>3, <1>4, <1>5 DEF CoreNext

(* In every state the core can be in, in whatever order scripts, the server*)
(* and failures come: the lists, what was started, where Execute is, the   *)
(* stages, the events and the calls fit together.                          *)
THEOREM CoreInvariance == CoreSpec => []CoreInv
<1>1. CoreInv /\ [CoreNext]_coreVars => CoreInv'
  BY CoreNextInv, CoreUnchanged
<1> QED  BY <1>1, CoreInitInv, PTL DEF CoreSpec

(* Every variable of the core keeps its type; no call goes deeper than the *)
(* bound.                                                                  *)
THEOREM CoreTypeCorrect == CoreSpec => []TypeOK
<1>1. CoreInv => TypeOK
  BY DEF CoreInv
<1> QED  BY <1>1, CoreInvariance, PTL

(* A script is started once in the life of a machine, by whatever ways it  *)
(* was loaded, and again only when a failing LoadScript has dropped it.    *)
THEOREM RunsOnceHolds == CoreSpec => []RunsOnce
<1>1. CoreInv => RunsOnce
  BY DEF CoreInv
<1> QED  BY <1>1, CoreInvariance, PTL

(* However late scripts load each other and fail, what they drop from the  *)
(* list has come to its end.                                               *)
THEOREM RunningListedHolds == CoreSpec => []RunningListed
<1>1. CoreInv => RunningListed
  BY DEF CoreInv
<1> QED  BY <1>1, CoreInvariance, PTL

(* After Execute every script of the list was started.                     *)
THEOREM AllStartedHolds == CoreSpec => []AllStarted
<1>1. CoreInv => AllStarted
  BY DEF CoreInv
<1> QED  BY <1>1, CoreInvariance, PTL

(* A delayed script runs after all the others of its level, and after the  *)
(* delayed ones before it.                                                 *)
THEOREM DelayedLastHolds == CoreSpec => []DelayedLast
<1>1. CoreInv => DelayedLast
  <2> SUFFICES ASSUME CoreInv, pc = "deferred", NEW i \in last..Len(m_Scripts)
               PROVE  ran[m_Scripts[i].mPath] = IF m_Scripts[i].mDelay /\ i > itr THEN 0 ELSE 1
    BY DEF DelayedLast
  <2>1. i \in DOMAIN m_Scripts /\ i >= last
    BY AtWork DEF Looping
  <2>2. Due(i) <=> m_Scripts[i].mDelay /\ i > itr
    BY <2>1 DEF Due
  <2> QED  BY <2>1, <2>2, AtWork DEF Looping
<1> QED  BY <1>1, CoreInvariance, PTL

(* When Execute is over nobody waits for a stage that does not come again, *)
(* but through a signal that a script had before the stage began.          *)
THEOREM NobodyWaits == CoreSpec => []NobodyWaitsInVain
<1>1. CoreInv => NobodyWaitsInVain
  <2> SUFFICES ASSUME CoreInv, m_Executed PROVE listening \subseteq early
    BY DEF NobodyWaitsInVain
  <2>1. /\ listening \subseteq LoadStages /\ LoadStages \subseteq locked
        /\ listening \subseteq obtained /\ obtained \cap locked \subseteq early
    BY CoreNow DEF TypeOK, StagesLocked
  <2> QED  BY <2>1
<1> QED  BY <1>1, CoreInvariance, PTL

(* A machine has the signals of the events, however often it was made anew.*)
THEOREM EventsThereHolds == CoreSpec => []EventsThere
<1>1. CoreInv => EventsThere
  BY DEF CoreInv
<1> QED  BY <1>1, CoreInvariance, PTL

-----------------------------------------------------------------------------
(* What a step does to the lists.                                          *)

(* All but these leave both lists as they are.                             *)
LEMMA ListsStay ==
  ASSUME CoreNext,
         ~(InitializeNothing \/ ListFails \/ BeginLevel \/ Close \/ LoadFails),
         ~\E x \in Listed : ListScript(x),
         ~\E p \in Paths : LoadScript(p),
         ~\E p \in Paths, delay \in BOOLEAN : QueueScript(p, delay)
  PROVE  UNCHANGED <<m_Scripts, m_PendingScripts>>
<1> USE DEF scripts
<1>1. CASE ExecuteNext
  BY <1>1
  DEF ExecuteNext, Initialize, InitializeReturns, Execute, BeginStages, Compile,
      CompileFails, Compiled, Delayed
<1>2. CASE ReturnNext
  BY <1>2
  DEF ReturnNext, RunReturns, RunFails, PreLoadReturns, ScriptLoadedReturns,
      PostLoadReturns, ImportReturns, StageThrows, StartupReturns, EventReturns,
      ReloadDenied, ReloadThrows, Terminate, UnloadReturns, UnloadEchoes, TerminateThrows
<1>3. CASE NestedNext
  BY <1>3 DEF NestedNext, LoadReturns, PoolReturns
<1>4. CASE ServerNext
  BY <1>4 DEF ServerNext, ServerInitialise, ServerCalls, OnServerShutdown
<1>5. CASE ScriptNext
  BY <1>5 DEF ScriptNext, GetLoadEvent, Connect, SetReloadStatus, CallPool, SendPluginCommand
<1> QED  BY <1>1, <1>2, <1>3, <1>4, <1>5 DEF CoreNext

(* A late script comes or goes only after Execute.                         *)
LEMMA LateIsLate ==
  ASSUME CoreInv, LoadFails \/ \E p \in Paths : LoadScript(p)
  PROVE  m_Executed
<1>1. CASE LoadFails
  <2>1. nest \in Seq(Frames) /\ nest # <<>> /\ Last(nest) \in Paths
    BY <1>1, CoreNow DEF LoadFails, Nested, TypeOK
  <2>2. Len(nest) \in DOMAIN nest /\ nest[Len(nest)] \in Paths
    BY <2>1, LessDeep
  <2> QED  BY <2>2, CoreNow DEF NestWhere
<1>2. CASE \E p \in Paths : LoadScript(p)
  BY <1>2 DEF LoadScript
<1> QED  BY <1>1, <1>2

(* The list that DoScripts goes through with iterators does not change     *)
(* under it, whatever its scripts load.                                    *)
THEOREM IteratorsHoldAlways == CoreSpec => IteratorsHold
<1> DEFINE A == pc \in {"compile", "delayed", "immediate", "deferred"} => UNCHANGED m_Scripts
<1>1. ASSUME CoreInv, CoreNext PROVE A
  <2> SUFFICES ASSUME pc \in Looping PROVE UNCHANGED m_Scripts
    BY DEF Looping
  <2>1. ~m_Executed
    BY <1>1, CoreNow DEF ExecuteWhere
  <2>2. ~(InitializeNothing \/ ListFails \/ BeginLevel \/ Close)
    BY DEF Looping, InitializeNothing, ListFails, BeginLevel, Close, Returning
  <2>3. CASE \E x \in Listed : ListScript(x)
    BY <2>3 DEF ListScript
  <2>4. CASE \E p \in Paths, delay \in BOOLEAN : QueueScript(p, delay)
    BY <2>4 DEF QueueScript
  <2> QED  BY <1>1, <2>1, <2>2, <2>3, <2>4, LateIsLate, ListsStay
<1>2. CoreInv /\ [CoreNext]_coreVars => [A]_coreVars
  BY <1>1
<1> QED  BY <1>2, CoreInvariance, PTL DEF CoreSpec, IteratorsHold

(* No script that was accepted is lost between the lists while Execute     *)
(* works on them.                                                          *)
THEOREM NoneLostEver == CoreSpec => NoneLost
<1> DEFINE A == m_VM /\ ~m_Executed /\ m_VM' => Known \subseteq Known'
<1>1. ASSUME CoreInv, CoreNext PROVE A
  <2> SUFFICES ASSUME m_VM, ~m_Executed, m_VM' PROVE Known \subseteq Known'
    OBVIOUS
  <2>1. /\ m_Scripts \in Seq(Script) /\ m_PendingScripts \in Seq(Script)
    BY <1>1, CoreNow
  <2>2. CASE UNCHANGED <<m_Scripts, m_PendingScripts>>
    BY <2>2 DEF Known, PathsOf
  <2>3. CASE InitializeNothing \/ ListFails
    <3>1. job # "boot"
      BY <2>3 DEF InitializeNothing, ListFails, InitializeFails
    <3>2. UNCHANGED <<m_Scripts, m_PendingScripts>>
      BY <2>3, <3>1 DEF InitializeNothing, ListFails, InitializeFails
    <3> QED  BY <2>2, <3>2
  <2>4. CASE BeginLevel
    <3>1. m_Scripts' = m_Scripts \o m_PendingScripts
      BY <2>4 DEF BeginLevel
    <3>2. PathsOf(m_Scripts') = Known
      BY <2>1, <3>1, ConcatScripts DEF Known
    <3> QED  BY <3>2 DEF Known
  <2>5. ~Close
    BY DEF Close
  <2>6. CASE \E x \in Listed : ListScript(x)
    <3>1. PICK x \in Listed : ListScript(x)
      BY <2>6
    <3>2. x \in Script /\ UNCHANGED m_Scripts
      BY <3>1, CoreAssumption DEF ListScript
    <3>3. PathsOf(m_PendingScripts) \subseteq PathsOf(m_PendingScripts')
      BY <2>1, <3>1, <3>2, AppendedScripts DEF ListScript, Queue
    <3>4. PathsOf(m_Scripts') = PathsOf(m_Scripts)
      BY <3>2
    <3> QED  BY <3>3, <3>4 DEF Known
  <2>7. CASE \E p \in Paths, delay \in BOOLEAN : QueueScript(p, delay)
    <3>1. PICK p \in Paths, delay \in BOOLEAN : QueueScript(p, delay)
      BY <2>7
    <3>2. [mPath |-> p, mDelay |-> delay] \in Script
      BY DEF Script
    <3>3. UNCHANGED m_Scripts
          /\ m_PendingScripts' = Append(m_PendingScripts, [mPath |-> p, mDelay |-> delay])
      BY <3>1 DEF QueueScript
    <3>4. PathsOf(m_PendingScripts) \subseteq PathsOf(m_PendingScripts')
      BY <2>1, <3>2, <3>3, AppendedScripts
    <3>5. PathsOf(m_Scripts') = PathsOf(m_Scripts)
      BY <3>3
    <3> QED  BY <3>4, <3>5 DEF Known
  <2> QED  BY <1>1, <2>2, <2>3, <2>4, <2>5, <2>6, <2>7, LateIsLate, ListsStay
<1>2. CoreInv /\ [CoreNext]_coreVars => [A]_coreVars
  BY <1>1
<1> QED  BY <1>2, CoreInvariance, PTL DEF CoreSpec, NoneLost
=============================================================================
