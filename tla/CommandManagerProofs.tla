-------------------------- MODULE CommandManagerProofs --------------------------
(***************************************************************************)
(* Proofs about CommandManager: each manager has one command of a name,    *)
(* commands and listeners agree, and contexts are those of the innermost   *)
(* runs, for any managers, listeners, names and depth.                     *)
(***************************************************************************)
EXTENDS CommandManager, SequenceTheorems, WellFoundedInduction, TLAPS

-----------------------------------------------------------------------------
(* Lists of commands, as the proofs speak of them: the commands in a list, *)
(* and that no two places of it have one name.                             *)
Command == [mName : Names, mPtr : Listeners]

Commands(s) == {s[i] : i \in DOMAIN s}

OnePerName(s) == \A i, j \in DOMAIN s : s[i].mName = s[j].mName => i = j

(* A command of c and its listener agree, unless the listener was shared.  *)
Agrees(c, cmd) ==
  cmd.mPtr \notin shared => cmd.mName = m_Name[cmd.mPtr] /\ m_Controller[cmd.mPtr] = {c}

(* CommandsAgree and UniqueCommands in these terms.                        *)
LEMMA AgreeCommands ==
  CommandsAgree <=> \A c \in Managers : \A cmd \in Commands(m_Commands[c]) : Agrees(c, cmd)
<1>1. ASSUME NEW c \in Managers
      PROVE  (\A i \in DOMAIN m_Commands[c] : Agrees(c, m_Commands[c][i]))
             <=> \A cmd \in Commands(m_Commands[c]) : Agrees(c, cmd)
  BY Zenon DEF Commands
<1> QED  BY <1>1 DEF CommandsAgree, Agrees

LEMMA UniqueOnePerName ==
  UniqueCommands <=> \A c \in Managers : OnePerName(m_Commands[c])
BY DEF UniqueCommands, OnePerName

(* A set of naturals has a least member: what SelectInSeq returns.         *)
LEMMA MinOf ==
  ASSUME NEW S, S \subseteq Nat, S # {}
  PROVE  Min(S) \in S
<1>1. PICK x \in S : \A y \in S : ~(<<y, x>> \in OpToRel(<, Nat))
  BY NatLessThanWellFounded, WFMin
<1>2. \A m, n \in Nat : m < n => <<m, n>> \in OpToRel(<, Nat)
  BY Zenon DEF OpToRel
<1>3. \A y \in S : ~(y < x)
  BY <1>1, <1>2, Zenon
<1>4. \A y \in S : x <= y
  BY <1>3
<1> QED  BY <1>4 DEF Min

(* The greatest member of a set of naturals, when there is one, is its Max.*)
LEMMA MaxOf ==
  ASSUME NEW S, S \subseteq Nat, NEW m \in S, \A x \in S : x <= m
  PROVE  Max(S) = m
<1>1. Max(S) \in S /\ \A x \in S : x <= Max(S)
  BY DEF Max
<1>2. Max(S) \in Nat /\ m \in Nat /\ Max(S) <= m /\ m <= Max(S)
  BY <1>1
<1> QED  BY <1>2

(* Controller::Detach finds a command of the listener where there is one.  *)
LEMMA PlaceThere ==
  ASSUME NEW s \in Seq(Command), NEW l \in PtrsOf(s)
  PROVE  PlaceOf(s, l) \in 1..Len(s) /\ s[PlaceOf(s, l)].mPtr = l
<1> DEFINE I == {i \in 1..Len(s) : s[i].mPtr = l}
<1>1. I # {} /\ I \subseteq Nat
  BY DEF PtrsOf
<1>2. Min(I) \in I
  BY <1>1, MinOf
<1>3. PlaceOf(s, l) = Min(I)
  BY <1>1 DEF PlaceOf, SelectInSeq
<1> QED  BY <1>2, <1>3

(* FindByName finds a command of the list.                                 *)
LEMMA NameFound ==
  ASSUME NEW s \in Seq(Command), NEW n \in NamesOf(s)
  PROVE  FindByName(s, n) \in Listeners
<1> DEFINE I == {i \in 1..Len(s) : s[i].mName = n}
<1>1. I # {} /\ I \subseteq Nat
  BY DEF NamesOf
<1>2. Min(I) \in I
  BY <1>1, MinOf
<1>3. FindByName(s, n) = s[Min(I)].mPtr
  BY <1>1 DEF FindByName, SelectInSeq
<1>4. s[Min(I)] \in Command
  BY <1>2, ElementOfSeq
<1> QED  BY <1>3, <1>4 DEF Command

(* To erase a place of the vector keeps the other commands in their order. *)
LEMMA RemoveAtPlace ==
  ASSUME NEW s \in Seq(Command), NEW k \in 1..Len(s)
  PROVE  /\ RemoveAt(s, k) \in Seq(Command)
         /\ Len(RemoveAt(s, k)) = Len(s) - 1
         /\ \A i \in 1..(Len(s) - 1) : RemoveAt(s, k)[i] = s[IF i < k THEN i ELSE i + 1]
<1> DEFINE front == SubSeq(s, 1, k - 1)
           back  == SubSeq(s, k + 1, Len(s))
<1>1. \A i \in 1..Len(s) : s[i] \in Command
  BY ElementOfSeq
<1>2. /\ front \in Seq(Command)
      /\ Len(front) = k - 1
      /\ \A i \in 1..(k - 1) : front[i] = s[i]
  <2>1. \A i \in 1..(k - 1) : s[i] \in Command
    BY <1>1
  <2> QED  BY <2>1, SubSeqProperties
<1>3. /\ back \in Seq(Command)
      /\ Len(back) = Len(s) - k
      /\ \A i \in 1..(Len(s) - k) : back[i] = s[k + i]
  <2>1. \A i \in (k + 1)..Len(s) : s[i] \in Command
    BY <1>1
  <2>2. /\ back \in Seq(Command)
        /\ Len(back) = IF k + 1 <= Len(s) THEN Len(s) - (k + 1) + 1 ELSE 0
        /\ \A i \in 1..(Len(s) - (k + 1) + 1) : back[i] = s[k + 1 + i - 1]
    BY <2>1, SubSeqProperties
  <2> QED  BY <2>2
<1> HIDE DEF front, back
<1>4. Len(s) \in Nat
  BY LenProperties
<1>5. /\ front \o back \in Seq(Command)
      /\ Len(front \o back) = Len(front) + Len(back)
      /\ \A i \in 1..(Len(front) + Len(back)) :
           (front \o back)[i] = IF i <= Len(front) THEN front[i] ELSE back[i - Len(front)]
  BY <1>2, <1>3, ConcatProperties
<1>6. Len(front) = k - 1 /\ Len(front) + Len(back) = Len(s) - 1
  BY <1>2, <1>3, <1>4
<1>7. \A i \in 1..(Len(s) - 1) : (front \o back)[i] = s[IF i < k THEN i ELSE i + 1]
  <2> SUFFICES ASSUME NEW i \in 1..(Len(s) - 1)
               PROVE  (front \o back)[i] = s[IF i < k THEN i ELSE i + 1]
    OBVIOUS
  <2>1. CASE i < k
    BY <2>1, <1>2, <1>4, <1>5, <1>6
  <2>2. CASE ~(i < k)
    <3>1. i - (k - 1) \in 1..(Len(s) - k) /\ k + (i - (k - 1)) = i + 1
      BY <2>2, <1>4
    <3>2. (front \o back)[i] = back[i - (k - 1)]
      BY <2>2, <1>4, <1>5, <1>6
    <3> QED  BY <3>1, <3>2, <2>2, <1>3
  <2> QED  BY <2>1, <2>2
<1>8. RemoveAt(s, k) = front \o back
  BY DEF RemoveAt, front, back
<1> QED  BY <1>5, <1>6, <1>7, <1>8

(* Controller::Detach: what is left are other commands of the list, and not*)
(* the one that was found.                                                 *)
LEMMA ErasedCommands ==
  ASSUME NEW s \in Seq(Command), OnePerName(s), NEW l
  PROVE  /\ Erased(s, l) \in Seq(Command)
         /\ OnePerName(Erased(s, l))
         /\ Commands(Erased(s, l)) \subseteq Commands(s)
         /\ l \in PtrsOf(s) => \E n \in Names :
              /\ [mName |-> n, mPtr |-> l] \in Commands(s)
              /\ [mName |-> n, mPtr |-> l] \notin Commands(Erased(s, l))
         /\ l \notin PtrsOf(s) => Erased(s, l) = s
<1>1. CASE l \notin PtrsOf(s)
  BY <1>1 DEF Erased
<1>2. CASE l \in PtrsOf(s)
  <2> DEFINE k == PlaceOf(s, l)
             t == RemoveAt(s, k)
             from(i) == IF i < k THEN i ELSE i + 1
  <2>1. k \in 1..Len(s) /\ s[k].mPtr = l
    BY <1>2, PlaceThere
  <2> HIDE DEF k
  <2>2. /\ t \in Seq(Command)
        /\ Len(t) = Len(s) - 1
        /\ \A i \in 1..(Len(s) - 1) : t[i] = s[from(i)]
    BY <2>1, RemoveAtPlace
  <2> HIDE DEF t
  <2>3. Len(s) \in Nat /\ DOMAIN s = 1..Len(s) /\ DOMAIN t = 1..(Len(s) - 1)
    BY <2>2, LenProperties
  <2>4. \A i \in DOMAIN t : from(i) \in DOMAIN s /\ from(i) # k /\ t[i] = s[from(i)]
    BY <2>1, <2>2, <2>3
  <2>5. \A i, j \in DOMAIN t : from(i) = from(j) => i = j
    BY <2>1, <2>3
  <2> HIDE DEF from
  <2>6. OnePerName(t)
    BY <2>4, <2>5 DEF OnePerName
  <2>7. Commands(t) \subseteq Commands(s)
    BY <2>4 DEF Commands
  <2>8. s[k] \in Commands(s) /\ s[k] \notin Commands(t)
    BY <2>1, <2>3, <2>4 DEF Commands, OnePerName
  <2>9. s[k] = [mName |-> s[k].mName, mPtr |-> l] /\ s[k].mName \in Names
    <3>1. s[k] \in Command
      BY <2>1, ElementOfSeq
    <3> QED  BY <2>1, <3>1 DEF Command
  <2>10. Erased(s, l) = t
    BY <1>2 DEF Erased, t, k
  <2> QED  BY <1>2, <2>2, <2>6, <2>7, <2>8, <2>9, <2>10
<1> QED  BY <1>1, <1>2

(* Controller::Attach: one more command, under a name that was free.       *)
LEMMA AppendedCommands ==
  ASSUME NEW s \in Seq(Command), OnePerName(s), NEW n \in Names, NEW l \in Listeners,
         n \notin NamesOf(s)
  PROVE  LET t == Append(s, [mName |-> n, mPtr |-> l])
         IN  /\ t \in Seq(Command)
             /\ OnePerName(t)
             /\ Commands(t) = Commands(s) \cup {[mName |-> n, mPtr |-> l]}
<1> DEFINE cmd == [mName |-> n, mPtr |-> l]
           t == Append(s, cmd)
<1>1. cmd \in Command /\ cmd.mName = n
  BY DEF Command
<1> HIDE DEF cmd
<1>2. /\ t \in Seq(Command)
      /\ Len(t) = Len(s) + 1
      /\ \A i \in 1..Len(s) : t[i] = s[i]
      /\ t[Len(s) + 1] = cmd
  BY <1>1, AppendProperties
<1> HIDE DEF t
<1>3. Len(s) \in Nat /\ DOMAIN s = 1..Len(s) /\ DOMAIN t = 1..(Len(s) + 1)
  BY <1>2, LenProperties
<1>4. Commands(t) = Commands(s) \cup {cmd}
  <2>1. \A i \in DOMAIN t : (i \in DOMAIN s /\ t[i] = s[i]) \/ t[i] = cmd
    BY <1>2, <1>3
  <2>2. \A i \in DOMAIN s : i \in DOMAIN t /\ s[i] = t[i]
    BY <1>2, <1>3
  <2>3. Len(s) + 1 \in DOMAIN t
    BY <1>3
  <2> QED  BY <1>2, <2>1, <2>2, <2>3 DEF Commands
<1>5. OnePerName(t)
  <2>1. \A i \in DOMAIN s : s[i].mName # n
    BY DEF NamesOf
  <2> SUFFICES ASSUME NEW i \in DOMAIN t, NEW j \in DOMAIN t, t[i].mName = t[j].mName
               PROVE  i = j
    BY DEF OnePerName
  <2>2. CASE i \in DOMAIN s /\ j \in DOMAIN s
    BY <2>2, <1>2, <1>3 DEF OnePerName
  <2>3. CASE i \notin DOMAIN s \/ j \notin DOMAIN s
    BY <2>1, <2>3, <1>1, <1>2, <1>3
  <2> QED  BY <2>2, <2>3
<1> QED  BY <1>2, <1>4, <1>5 DEF t, cmd

(* A command in a list is one.                                             *)
LEMMA CommandOfList ==
  ASSUME NEW s \in Seq(Command), NEW cmd \in Commands(s)
  PROVE  /\ cmd \in Command
         /\ cmd.mName \in Names /\ cmd.mName \in NamesOf(s)
         /\ cmd.mPtr \in Listeners /\ cmd.mPtr \in PtrsOf(s)
<1>1. PICK i \in DOMAIN s : cmd = s[i]
  BY DEF Commands
<1>2. i \in 1..Len(s)
  BY LenProperties
<1>3. cmd \in Command
  BY <1>1, <1>2, ElementOfSeq
<1> QED  BY <1>1, <1>3 DEF Command, NamesOf, PtrsOf

(* std::sort: the same commands in other places.                           *)
LEMMA SortedCommands ==
  ASSUME NEW s \in Seq(Command), OnePerName(s), NEW place \in Bijection(DOMAIN s, DOMAIN s)
  PROVE  LET t == [i \in DOMAIN s |-> s[place[i]]]
         IN  /\ t \in Seq(Command)
             /\ OnePerName(t)
             /\ Commands(t) \subseteq Commands(s)
<1> DEFINE t == [i \in DOMAIN s |-> s[place[i]]]
<1>1. /\ place \in [DOMAIN s -> DOMAIN s]
      /\ \A i, j \in DOMAIN s : place[i] = place[j] => i = j
  BY DEF Bijection, Injection, IsInjective
<1>2. Len(s) \in Nat /\ DOMAIN s = 1..Len(s)
  BY LenProperties
<1>3. \A i \in DOMAIN s : s[i] \in Command
  BY <1>2, ElementOfSeq
<1>4. t \in Seq(Command)
  <2>1. t \in [1..Len(s) -> Command]
    BY <1>1, <1>2, <1>3
  <2> QED  BY <2>1, <1>2, SeqDef
<1>5. Commands(t) \subseteq Commands(s)
  BY <1>1 DEF Commands
<1>6. OnePerName(t)
  BY <1>1 DEF OnePerName
<1> QED  BY <1>4, <1>5, <1>6

-----------------------------------------------------------------------------
(* A run's context does not change when neither the runs nor contexts do.  *)
LEMMA GuardsStay ==
  ASSUME GuardsRemember, UNCHANGED <<m_Context, runs>>
  PROVE  GuardsRemember'
BY DEF GuardsRemember, IsContext

(* A run, as the proofs speak of it.                                       *)
ARun == [mController : Managers, mPrevious : 0..MaxRuns, mObject : Listeners]

(* What every step has to show: its lists have one command per name, and   *)
(* the commands of listeners that exist agree with them.                   *)
LEMMA StepLists ==
  ASSUME m_Commands' \in [Managers -> Seq(Command)],
         \A c \in Managers : OnePerName(m_Commands'[c]),
         \A c \in Managers : \A cmd \in Commands(m_Commands'[c]) :
           cmd.mPtr \in Referenced' /\ cmd.mPtr \in Listeners /\ cmd.mPtr \notin shared' =>
             cmd.mName = m_Name'[cmd.mPtr] /\ m_Controller'[cmd.mPtr] = {c}
  PROVE  UniqueCommands' /\ CommandsAgree'
<1>1. ASSUME NEW c \in Managers, NEW cmd \in Commands(m_Commands'[c])
      PROVE  cmd.mPtr \in Referenced' /\ cmd.mPtr \in Listeners
  <2>1. m_Commands'[c] \in Seq(Command)
    OBVIOUS
  <2>2. cmd.mPtr \in Listeners /\ cmd.mPtr \in PtrsOf(m_Commands'[c])
    BY <2>1, <1>1, CommandOfList
  <2> QED  BY <2>2 DEF Referenced
<1>2. UniqueCommands'
  BY DEF UniqueCommands, OnePerName
<1>3. CommandsAgree'
  <2>1. \A c \in Managers : \A cmd \in Commands(m_Commands'[c]) :
          cmd.mPtr \notin shared' => cmd.mName = m_Name'[cmd.mPtr] /\ m_Controller'[cmd.mPtr] = {c}
    BY <1>1
  <2> QED  BY <2>1 DEF CommandsAgree, Commands
<1> QED  BY <1>2, <1>3

(* The same for a step that starts and ends no run.                        *)
LEMMA StepInv ==
  ASSUME CommandInv,
         m_Commands' \in [Managers -> Seq(Command)],
         \A c \in Managers : OnePerName(m_Commands'[c]),
         m_Controller' \in [Listeners -> SUBSET Managers],
         shared' \in SUBSET Listeners,
         m_Name' \in [Listeners -> Names], held' \in SUBSET Listeners,
         \A c \in Managers : \A cmd \in Commands(m_Commands'[c]) :
           cmd.mPtr \in Referenced' /\ cmd.mPtr \in Listeners /\ cmd.mPtr \notin shared' =>
             cmd.mName = m_Name'[cmd.mPtr] /\ m_Controller'[cmd.mPtr] = {c},
         UNCHANGED <<m_Context, runs>>
  PROVE  CommandInv'
<1>1. CommandTypeOK'
  BY DEF CommandInv, CommandTypeOK, Command
<1>2. UniqueCommands' /\ CommandsAgree'
  BY StepLists
<1>3. GuardsRemember'
  BY GuardsStay DEF CommandInv
<1> QED  BY <1>1, <1>2, <1>3 DEF CommandInv

(* The lists of an invariant state, in the terms of these proofs.          *)
LEMMA ListsNow ==
  ASSUME CommandInv
  PROVE  /\ m_Commands \in [Managers -> Seq(Command)]
         /\ m_Context \in [Managers -> 0..MaxRuns]
         /\ m_Controller \in [Listeners -> SUBSET Managers]
         /\ m_Name \in [Listeners -> Names]
         /\ held \in SUBSET Listeners /\ shared \in SUBSET Listeners
         /\ runs \in Seq(ARun)
         /\ \A c \in Managers : OnePerName(m_Commands[c])
         /\ \A c \in Managers : \A cmd \in Commands(m_Commands[c]) : Agrees(c, cmd)
         /\ GuardsRemember
<1>1. CommandTypeOK /\ UniqueCommands /\ CommandsAgree /\ GuardsRemember
  BY DEF CommandInv
<1>2. \A c \in Managers : OnePerName(m_Commands[c])
  BY <1>1, UniqueOnePerName
<1>3. \A c \in Managers : \A cmd \in Commands(m_Commands[c]) : Agrees(c, cmd)
  BY <1>1, AgreeCommands
<1> QED  BY <1>1, <1>2, <1>3 DEF CommandTypeOK, Command, ARun

LEMMA CommandInitInv == CommandInit => CommandInv
<1> SUFFICES ASSUME CommandInit PROVE CommandInv
  OBVIOUS
<1>1. CommandTypeOK
  <2>1. m_Name \in [Listeners -> Names]
    BY CommandAssumption DEF CommandInit
  <2> QED  BY <2>1, CommandAssumption DEF CommandInit, CommandTypeOK
<1>2. UniqueCommands /\ CommandsAgree /\ GuardsRemember
  BY CommandAssumption DEF CommandInit, UniqueCommands, CommandsAgree, GuardsRemember, IsContext
<1> QED  BY <1>1, <1>2 DEF CommandInv

(* SqCmdListener(name): a listener that nobody refers to has no command.   *)
LEMMA NewListenerInv ==
  ASSUME CommandInv, NEW l \in Listeners, NEW n \in Names, NewListener(l, n)
  PROVE  CommandInv'
<1>1. \A c \in Managers : \A cmd \in Commands(m_Commands[c]) : cmd.mPtr # l
  BY DEF NewListener, Referenced, PtrsOf, Commands
<1>2. /\ m_Commands' \in [Managers -> Seq(Command)]
      /\ \A c \in Managers : OnePerName(m_Commands'[c])
      /\ m_Controller' \in [Listeners -> SUBSET Managers]
      /\ shared' \in SUBSET Listeners
      /\ m_Name' \in [Listeners -> Names] /\ held' \in SUBSET Listeners
      /\ UNCHANGED <<m_Context, runs>>
  BY ListsNow DEF NewListener, Settle
<1>3. ASSUME NEW c \in Managers, NEW cmd \in Commands(m_Commands'[c]),
             cmd.mPtr \in Referenced', cmd.mPtr \in Listeners, cmd.mPtr \notin shared'
      PROVE  cmd.mName = m_Name'[cmd.mPtr] /\ m_Controller'[cmd.mPtr] = {c}
  BY <1>1, <1>3, ListsNow DEF NewListener, Settle, Agrees
<1> QED  BY <1>2, <1>3, StepInv

(* Manager::Create: the new listener has no other command.                 *)
LEMMA CreateInv ==
  ASSUME CommandInv, NEW c \in Managers, NEW l \in Listeners, NEW n \in Names, Create(c, l, n)
  PROVE  CommandInv'
<1> DEFINE cmd == [mName |-> n, mPtr |-> l]
<1>1. \A d \in Managers : \A x \in Commands(m_Commands[d]) : x.mPtr # l
  BY DEF Create, Referenced, PtrsOf, Commands
<1>2. /\ Append(m_Commands[c], cmd) \in Seq(Command)
      /\ OnePerName(Append(m_Commands[c], cmd))
      /\ Commands(Append(m_Commands[c], cmd)) = Commands(m_Commands[c]) \cup {cmd}
  BY ListsNow, AppendedCommands DEF Create
<1>3. cmd.mName = n /\ cmd.mPtr = l
  OBVIOUS
<1>4. m_Commands' = [m_Commands EXCEPT ![c] = Append(m_Commands[c], cmd)]
  BY DEF Create
<1> HIDE DEF cmd
<1>5. /\ m_Commands' \in [Managers -> Seq(Command)]
      /\ \A d \in Managers : OnePerName(m_Commands'[d])
      /\ \A d \in Managers : \A x \in Commands(m_Commands'[d]) :
           x \in Commands(m_Commands[d]) \/ (d = c /\ x = cmd)
  BY <1>2, <1>4, ListsNow
<1>6. /\ m_Controller' \in [Listeners -> SUBSET Managers]
      /\ shared' \in SUBSET Listeners
      /\ m_Name' \in [Listeners -> Names] /\ held' \in SUBSET Listeners
      /\ UNCHANGED <<m_Context, runs>>
  BY ListsNow DEF Create, Settle
<1>7. ASSUME NEW d \in Managers, NEW x \in Commands(m_Commands'[d]),
             x.mPtr \in Referenced', x.mPtr \in Listeners, x.mPtr \notin shared'
      PROVE  x.mName = m_Name'[x.mPtr] /\ m_Controller'[x.mPtr] = {d}
  <2>1. CASE x \in Commands(m_Commands[d])
    BY <1>1, <1>7, <2>1, ListsNow DEF Create, Settle, Agrees
  <2>2. CASE d = c /\ x = cmd
    BY <1>3, <1>7, <2>2, ListsNow DEF Create, Settle
  <2> QED  BY <1>5, <2>1, <2>2
<1> QED  BY <1>5, <1>6, <1>7, StepInv

(* Manager::Attach: a second command makes the listener shared.            *)
LEMMA ManagerAttachInv ==
  ASSUME CommandInv, NEW c \in Managers, NEW l \in Listeners, ManagerAttach(c, l)
  PROVE  CommandInv'
<1> DEFINE cmd == [mName |-> m_Name[l], mPtr |-> l]
<1>1. l \notin shared' => \A d \in Managers : \A x \in Commands(m_Commands[d]) : x.mPtr # l
  BY DEF ManagerAttach, Settle, Referenced, HasCommand, PtrsOf, Commands
<1>2. /\ Append(m_Commands[c], cmd) \in Seq(Command)
      /\ OnePerName(Append(m_Commands[c], cmd))
      /\ Commands(Append(m_Commands[c], cmd)) = Commands(m_Commands[c]) \cup {cmd}
  BY ListsNow, AppendedCommands DEF ManagerAttach
<1>3. cmd.mName = m_Name[l] /\ cmd.mPtr = l
  OBVIOUS
<1>4. m_Commands' = [m_Commands EXCEPT ![c] = Append(m_Commands[c], cmd)]
  BY DEF ManagerAttach
<1> HIDE DEF cmd
<1>5. /\ m_Commands' \in [Managers -> Seq(Command)]
      /\ \A d \in Managers : OnePerName(m_Commands'[d])
      /\ \A d \in Managers : \A x \in Commands(m_Commands'[d]) :
           x \in Commands(m_Commands[d]) \/ (d = c /\ x = cmd)
  BY <1>2, <1>4, ListsNow
<1>6. /\ m_Controller' \in [Listeners -> SUBSET Managers]
      /\ shared' \in SUBSET Listeners
      /\ m_Name' \in [Listeners -> Names] /\ held' \in SUBSET Listeners
      /\ UNCHANGED <<m_Context, runs>>
  BY ListsNow DEF ManagerAttach, Settle
<1>7. ASSUME NEW d \in Managers, NEW x \in Commands(m_Commands'[d]),
             x.mPtr \in Referenced', x.mPtr \in Listeners, x.mPtr \notin shared'
      PROVE  x.mName = m_Name'[x.mPtr] /\ m_Controller'[x.mPtr] = {d}
  <2>1. CASE x \in Commands(m_Commands[d])
    BY <1>1, <1>7, <2>1, ListsNow DEF ManagerAttach, Settle, Agrees
  <2>2. CASE d = c /\ x = cmd
    BY <1>3, <1>7, <2>2, ListsNow DEF ManagerAttach, Settle
  <2> QED  BY <1>5, <2>1, <2>2
<1> QED  BY <1>5, <1>6, <1>7, StepInv

(* A listener that was never shared has its only command where it belongs, *)
(* and none when that is erased.                                           *)
LEMMA ErasedAlone ==
  ASSUME CommandInv, NEW l \in Listeners, l \notin shared, NEW c \in Managers
  PROVE  /\ l \in PtrsOf(m_Commands[c]) => m_Controller[l] = {c}
         /\ \A x \in Commands(Erased(m_Commands[c], l)) : x.mPtr # l
<1>1. \A x \in Commands(m_Commands[c]) :
        x.mPtr = l => x.mName = m_Name[l] /\ m_Controller[l] = {c}
  BY ListsNow DEF Agrees
<1>2. l \in PtrsOf(m_Commands[c]) => \E x \in Commands(m_Commands[c]) : x.mPtr = l
  BY DEF PtrsOf, Commands
<1>3. m_Commands[c] \in Seq(Command) /\ OnePerName(m_Commands[c])
  BY ListsNow
<1>4. \A x \in Commands(Erased(m_Commands[c], l)) : x.mPtr # l
  <2>1. CASE l \notin PtrsOf(m_Commands[c])
    BY <1>3, <2>1, ErasedCommands, CommandOfList
  <2>2. CASE l \in PtrsOf(m_Commands[c])
    <3>1. PICK n \in Names :
            /\ [mName |-> n, mPtr |-> l] \in Commands(m_Commands[c])
            /\ [mName |-> n, mPtr |-> l] \notin Commands(Erased(m_Commands[c], l))
      BY <1>3, <2>2, ErasedCommands
    <3>2. n = m_Name[l]
      BY <1>1, <3>1
    <3> SUFFICES ASSUME NEW x \in Commands(Erased(m_Commands[c], l)), x.mPtr = l
                 PROVE  FALSE
      OBVIOUS
    <3>3. x \in Commands(m_Commands[c])
      BY <1>3, ErasedCommands
    <3>4. x \in Command /\ x.mName = m_Name[l]
      BY <1>1, <1>3, <3>3, CommandOfList
    <3>5. x = [mName |-> m_Name[l], mPtr |-> l]
      BY <3>4 DEF Command
    <3> QED  BY <3>1, <3>2, <3>5
  <2> QED  BY <2>1, <2>2
<1> QED  BY <1>1, <1>2, <1>4

(* The lists once l was detached from the manager it belongs to.           *)
LEMMA DetachedLists ==
  ASSUME CommandInv, NEW l \in Listeners
  PROVE  LET left == [d \in Managers |-> IF d \in m_Controller[l]
                                          THEN Erased(m_Commands[d], l) ELSE m_Commands[d]]
         IN  /\ left \in [Managers -> Seq(Command)]
             /\ \A d \in Managers : OnePerName(left[d])
             /\ \A d \in Managers : Commands(left[d]) \subseteq Commands(m_Commands[d])
             /\ l \notin shared =>
                  \A d \in Managers : \A x \in Commands(left[d]) : x.mPtr # l
<1> DEFINE left == [d \in Managers |-> IF d \in m_Controller[l]
                                        THEN Erased(m_Commands[d], l) ELSE m_Commands[d]]
<1>1. ASSUME NEW d \in Managers
      PROVE  /\ Erased(m_Commands[d], l) \in Seq(Command)
             /\ OnePerName(Erased(m_Commands[d], l))
             /\ Commands(Erased(m_Commands[d], l)) \subseteq Commands(m_Commands[d])
  <2>1. m_Commands[d] \in Seq(Command) /\ OnePerName(m_Commands[d])
    BY ListsNow
  <2> QED  BY <2>1, ErasedCommands
<1>2. ASSUME l \notin shared, NEW d \in Managers, NEW x \in Commands(left[d])
      PROVE  x.mPtr # l
  <2>1. CASE d \in m_Controller[l]
    BY <1>2, <2>1, ErasedAlone
  <2>2. CASE d \notin m_Controller[l]
    BY <1>2, <2>2, ListsNow DEF Agrees
  <2> QED  BY <2>1, <2>2
<1> QED  BY <1>1, <1>2, ListsNow

(* Listener::Detach.                                                       *)
LEMMA ListenerDetachInv ==
  ASSUME CommandInv, NEW l \in Listeners, ListenerDetach(l)
  PROVE  CommandInv'
<1> DEFINE left == [d \in Managers |->
              IF d \in m_Controller[l] THEN Erased(m_Commands[d], l) ELSE m_Commands[d]]
<1>1. /\ left \in [Managers -> Seq(Command)]
      /\ \A d \in Managers : OnePerName(left[d])
      /\ \A d \in Managers : Commands(left[d]) \subseteq Commands(m_Commands[d])
      /\ l \notin shared => \A d \in Managers : \A x \in Commands(left[d]) : x.mPtr # l
  BY DetachedLists
<1>2. m_Commands' = left
  BY DEF ListenerDetach
<1> HIDE DEF left
<1>3. /\ m_Controller' \in [Listeners -> SUBSET Managers]
      /\ shared' \in SUBSET Listeners
      /\ m_Name' \in [Listeners -> Names] /\ held' \in SUBSET Listeners
      /\ UNCHANGED <<m_Context, runs>>
  BY ListsNow DEF ListenerDetach, Settle
<1>4. ASSUME NEW d \in Managers, NEW x \in Commands(m_Commands'[d]),
             x.mPtr \in Referenced', x.mPtr \in Listeners, x.mPtr \notin shared'
      PROVE  x.mName = m_Name'[x.mPtr] /\ m_Controller'[x.mPtr] = {d}
  <2>1. x \in Commands(m_Commands[d]) /\ x.mPtr \notin shared
    BY <1>1, <1>2, <1>4 DEF ListenerDetach, Settle
  <2>2. x.mPtr # l
    BY <1>1, <1>2, <1>4, <2>1
  <2> QED  BY <1>4, <2>1, <2>2, ListsNow DEF ListenerDetach, Settle, Agrees
<1> QED  BY <1>1, <1>2, <1>3, <1>4, StepInv

(* Listener::Attach: detached first, attached anew if the name is free.    *)
LEMMA ListenerAttachInv ==
  ASSUME CommandInv, NEW c \in Managers, NEW l \in Listeners, ListenerAttach(c, l)
  PROVE  CommandInv'
<1> DEFINE left == [d \in Managers |->
              IF d \in m_Controller[l] THEN Erased(m_Commands[d], l) ELSE m_Commands[d]]
           cmd == [mName |-> m_Name[l], mPtr |-> l]
           taken == m_Name[l] \in NamesOf(left[c])
           again == \E d \in Managers : l \in PtrsOf(left[d])
           ctr == [m_Controller EXCEPT ![l] = IF taken THEN {} ELSE {c}]
           more == IF again /\ ~taken THEN {l} ELSE {}
<1>1. /\ left \in [Managers -> Seq(Command)]
      /\ \A d \in Managers : OnePerName(left[d])
      /\ \A d \in Managers : Commands(left[d]) \subseteq Commands(m_Commands[d])
      /\ l \notin shared => \A d \in Managers : \A x \in Commands(left[d]) : x.mPtr # l
  BY DetachedLists
<1>2. /\ m_Commands' = IF taken THEN left ELSE [left EXCEPT ![c] = Append(left[c], cmd)]
      /\ l \in held /\ UNCHANGED <<m_Context, m_Name, held, runs>>
      /\ m_Controller' = [k \in Listeners |-> IF k \in Referenced' THEN ctr[k] ELSE {}]
      /\ shared' = (shared \cup more) \cap Referenced'
  <2>1. [left EXCEPT ![c] = Append(@, cmd)] = [left EXCEPT ![c] = Append(left[c], cmd)]
    OBVIOUS
  <2> QED  BY <2>1 DEF ListenerAttach, Settle
<1> HIDE DEF left
<1>3. cmd.mName = m_Name[l] /\ cmd.mPtr = l /\ m_Name[l] \in Names
  BY ListsNow
<1>4. ~taken => /\ Append(left[c], cmd) \in Seq(Command)
                /\ OnePerName(Append(left[c], cmd))
                /\ Commands(Append(left[c], cmd)) = Commands(left[c]) \cup {cmd}
  BY <1>1, <1>3, AppendedCommands
<1>5. l \notin shared' /\ l \in Referenced' /\ ~taken =>
        \A d \in Managers : \A x \in Commands(left[d]) : x.mPtr # l
  BY <1>2 DEF PtrsOf, Commands
<1>6. ctr \in [Listeners -> SUBSET Managers] /\ more \in SUBSET Listeners
  BY ListsNow
<1>7. ctr[l] = (IF taken THEN {} ELSE {c}) /\ \A k \in Listeners : k # l => ctr[k] = m_Controller[k]
  BY ListsNow
<1> HIDE DEF ctr, more, cmd, taken
<1>8. /\ m_Commands' \in [Managers -> Seq(Command)]
      /\ \A d \in Managers : OnePerName(m_Commands'[d])
      /\ \A d \in Managers : \A x \in Commands(m_Commands'[d]) :
           x \in Commands(left[d]) \/ (~taken /\ d = c /\ x = cmd)
  BY <1>1, <1>2, <1>4
<1>9. /\ m_Controller' \in [Listeners -> SUBSET Managers]
      /\ shared' \in SUBSET Listeners
      /\ m_Name' \in [Listeners -> Names] /\ held' \in SUBSET Listeners
      /\ UNCHANGED <<m_Context, runs>>
  BY <1>2, <1>6, ListsNow
<1>10. ASSUME NEW d \in Managers, NEW x \in Commands(m_Commands'[d]),
              x.mPtr \in Referenced', x.mPtr \in Listeners, x.mPtr \notin shared'
       PROVE  x.mName = m_Name'[x.mPtr] /\ m_Controller'[x.mPtr] = {d}
  <2>1. x.mPtr \notin shared /\ m_Controller'[x.mPtr] = ctr[x.mPtr]
    BY <1>2, <1>10
  <2>2. CASE x \in Commands(left[d])
    <3>1. x \in Commands(m_Commands[d])
      BY <1>1, <2>2
    <3>2. x.mPtr # l
      BY <1>1, <2>1, <2>2
    <3> QED  BY <1>2, <1>7, <1>10, <2>1, <3>1, <3>2, ListsNow DEF Agrees
  <2>3. CASE ~taken /\ d = c /\ x = cmd
    BY <1>2, <1>3, <1>7, <2>1, <2>3
  <2> QED  BY <1>8, <2>2, <2>3
<1> QED  BY <1>8, <1>9, <1>10, StepInv

(* Listener::SetName: detached and attached anew where it has a command.   *)
LEMMA SetNameInv ==
  ASSUME CommandInv, NEW l \in Listeners, NEW n \in Names, SetName(l, n)
  PROVE  CommandInv'
<1>1. /\ m_Name' = [m_Name EXCEPT ![l] = n] /\ m_Name' \in [Listeners -> Names]
      /\ held' \in SUBSET Listeners /\ UNCHANGED <<m_Context, held, runs>>
      /\ l \in held
  BY ListsNow DEF SetName
<1>2. \A d \in Managers : \A x \in Commands(m_Commands[d]) :
        x.mPtr = l /\ l \notin shared => m_Controller[l] = {d} /\ l \in PtrsOf(m_Commands[d])
  BY ListsNow DEF Agrees, PtrsOf, Commands
<1>3. CASE \E c \in m_Controller[l] : l \in PtrsOf(m_Commands[c])
  <2> DEFINE cmd == [mName |-> n, mPtr |-> l]
             taken(c) == n \in NamesOf(Erased(m_Commands[c], l))
  <2>1. PICK c \in m_Controller[l] :
          /\ m_Commands' = [m_Commands EXCEPT ![c] =
               IF taken(c) THEN Erased(m_Commands[c], l)
                           ELSE Append(Erased(m_Commands[c], l), cmd)]
          /\ Settle(IF taken(c) THEN Broken(m_Controller, m_Commands[c], l) ELSE m_Controller, {})
    BY <1>3 DEF SetName
  <2>2. c \in Managers
    BY ListsNow
  <2> DEFINE left == Erased(m_Commands[c], l)
             ctr == IF taken(c) THEN Broken(m_Controller, m_Commands[c], l) ELSE m_Controller
  <2>3. /\ left \in Seq(Command) /\ OnePerName(left)
        /\ Commands(left) \subseteq Commands(m_Commands[c])
    <3>1. m_Commands[c] \in Seq(Command) /\ OnePerName(m_Commands[c])
      BY <2>2, ListsNow
    <3> QED  BY <3>1, ErasedCommands
  <2>4. l \notin shared => /\ m_Controller[l] = {c}
                           /\ \A x \in Commands(left) : x.mPtr # l
                           /\ \A d \in Managers : d # c =>
                                \A x \in Commands(m_Commands[d]) : x.mPtr # l
    <3> SUFFICES ASSUME l \notin shared
                 PROVE  /\ m_Controller[l] = {c}
                        /\ \A x \in Commands(left) : x.mPtr # l
                        /\ \A d \in Managers : d # c =>
                             \A x \in Commands(m_Commands[d]) : x.mPtr # l
      OBVIOUS
    <3>1. PICK d \in m_Controller[l] : l \in PtrsOf(m_Commands[d])
      BY <1>3
    <3>2. d \in Managers
      BY ListsNow
    <3>3. m_Controller[l] = {d}
      BY <3>1, <3>2, ErasedAlone
    <3>4. \A x \in Commands(left) : x.mPtr # l
      BY <2>2, ErasedAlone
    <3> QED  BY <1>2, <3>1, <3>3, <3>4
  <2>5. /\ ctr \in [Listeners -> SUBSET Managers]
        /\ \A k \in Listeners : k # l => ctr[k] = m_Controller[k]
        /\ ~taken(c) => ctr = m_Controller
    BY ListsNow DEF Broken
  <2>6. ~taken(c) => /\ Append(left, cmd) \in Seq(Command)
                     /\ OnePerName(Append(left, cmd))
                     /\ Commands(Append(left, cmd)) = Commands(left) \cup {cmd}
    BY <2>3, AppendedCommands
  <2>7. cmd.mName = n /\ cmd.mPtr = l
    OBVIOUS
  <2>8. m_Commands' = [m_Commands EXCEPT ![c] = IF taken(c) THEN left ELSE Append(left, cmd)]
    BY <2>1
  <2>9. /\ m_Controller' = [k \in Listeners |-> IF k \in Referenced' THEN ctr[k] ELSE {}]
        /\ shared' = (shared \cup {}) \cap Referenced'
    BY <2>1 DEF Settle
  <2> HIDE DEF left, cmd, ctr, taken
  <2>10. /\ m_Commands' \in [Managers -> Seq(Command)]
         /\ \A d \in Managers : OnePerName(m_Commands'[d])
         /\ \A d \in Managers : \A x \in Commands(m_Commands'[d]) :
              \/ x \in Commands(left) /\ d = c
              \/ x \in Commands(m_Commands[d]) /\ d # c
              \/ x = cmd /\ d = c /\ ~taken(c)
    BY <2>2, <2>3, <2>6, <2>8, ListsNow
  <2>11. /\ m_Controller' \in [Listeners -> SUBSET Managers]
         /\ shared' \in SUBSET Listeners
    BY <2>5, <2>9, ListsNow
  <2>12. ASSUME NEW d \in Managers, NEW x \in Commands(m_Commands'[d]),
                x.mPtr \in Referenced', x.mPtr \in Listeners, x.mPtr \notin shared'
         PROVE  x.mName = m_Name'[x.mPtr] /\ m_Controller'[x.mPtr] = {d}
    <3>1. x.mPtr \notin shared /\ m_Controller'[x.mPtr] = ctr[x.mPtr]
      BY <2>9, <2>12
    <3>2. CASE x = cmd /\ d = c /\ ~taken(c)
      <4>1. x.mPtr = l /\ x.mName = n /\ m_Name'[l] = n
        BY <3>2, <2>7, <1>1, ListsNow
      <4> QED  BY <2>4, <2>5, <3>1, <3>2, <4>1
    <3>3. CASE x \in Commands(m_Commands[d]) /\ x.mPtr # l
      <4>1. x.mName = m_Name[x.mPtr] /\ m_Controller[x.mPtr] = {d}
        BY <3>1, <3>3, ListsNow DEF Agrees
      <4> QED  BY <1>1, <2>5, <2>12, <3>1, <3>3, <4>1, ListsNow
    <3> QED  BY <2>3, <2>4, <2>10, <3>1, <3>2, <3>3
  <2> QED  BY <1>1, <2>10, <2>11, <2>12, StepInv
<1>4. CASE ~\E c \in m_Controller[l] : l \in PtrsOf(m_Commands[c])
  <2>1. UNCHANGED <<m_Commands, m_Controller, shared>>
    BY <1>4 DEF SetName
  <2>2. \A d \in Managers : \A x \in Commands(m_Commands[d]) : l \notin shared => x.mPtr # l
    BY <1>2, <1>4
  <2>3. /\ m_Commands' \in [Managers -> Seq(Command)]
        /\ \A d \in Managers : OnePerName(m_Commands'[d])
        /\ m_Controller' \in [Listeners -> SUBSET Managers]
        /\ shared' \in SUBSET Listeners
    BY <2>1, ListsNow
  <2>4. ASSUME NEW d \in Managers, NEW x \in Commands(m_Commands'[d]),
               x.mPtr \in Referenced', x.mPtr \in Listeners, x.mPtr \notin shared'
        PROVE  x.mName = m_Name'[x.mPtr] /\ m_Controller'[x.mPtr] = {d}
    BY <1>1, <2>1, <2>2, <2>4, ListsNow DEF Agrees
  <2> QED  BY <1>1, <2>3, <2>4, StepInv
<1> QED  BY <1>3, <1>4

LEMMA EmptyList == <<>> \in Seq(Command) /\ OnePerName(<<>>) /\ Commands(<<>>) = {}
BY DEF OnePerName, Commands

(* What ~Command does to the listeners of other managers: nothing.         *)
LEMMA BrokenElsewhere ==
  ASSUME CommandInv, NEW c \in Managers, NEW k \in Listeners, NEW d \in Managers, d # c,
         m_Controller[k] = {d}, k \in PtrsOf(m_Commands[c])
  PROVE  k \in shared
<1>1. PICK x \in Commands(m_Commands[c]) : x.mPtr = k
  BY DEF PtrsOf, Commands
<1> QED  BY <1>1, ListsNow DEF Agrees

LEMMA ClearInv ==
  ASSUME CommandInv, NEW c \in Managers, Clear(c)
  PROVE  CommandInv'
<1> DEFINE ctr == BrokenAll(m_Controller, m_Commands[c])
<1>1. ctr \in [Listeners -> SUBSET Managers]
  BY ListsNow DEF BrokenAll
<1>2. \A d \in Managers : d # c => m_Commands'[d] = m_Commands[d]
  BY ListsNow DEF Clear
<1>3. m_Commands' \in [Managers -> Seq(Command)] /\ m_Commands'[c] = <<>>
  BY ListsNow DEF Clear
<1>4. /\ m_Controller' = [k \in Listeners |-> IF k \in Referenced' THEN ctr[k] ELSE {}]
      /\ shared' = (shared \cup {}) \cap Referenced'
      /\ m_Name' = m_Name /\ held' = held /\ UNCHANGED <<m_Context, runs>>
  BY DEF Clear, Settle
<1>5. ASSUME NEW k \in Listeners, NEW d \in Managers, d # c, k \notin shared,
             m_Controller[k] = {d}
      PROVE  ctr[k] = {d}
  BY <1>5, BrokenElsewhere DEF BrokenAll
<1> HIDE DEF ctr
<1>6. /\ \A d \in Managers : OnePerName(m_Commands'[d])
      /\ \A d \in Managers : \A x \in Commands(m_Commands'[d]) :
           d # c /\ x \in Commands(m_Commands[d])
  BY <1>2, <1>3, ListsNow, EmptyList
<1>7. ASSUME NEW d \in Managers, NEW x \in Commands(m_Commands'[d]),
             x.mPtr \in Referenced', x.mPtr \in Listeners, x.mPtr \notin shared'
      PROVE  x.mName = m_Name'[x.mPtr] /\ m_Controller'[x.mPtr] = {d}
  BY <1>4, <1>5, <1>6, <1>7, ListsNow DEF Agrees
<1>8. /\ m_Controller' \in [Listeners -> SUBSET Managers]
      /\ shared' \in SUBSET Listeners
      /\ m_Name' \in [Listeners -> Names] /\ held' \in SUBSET Listeners
  BY <1>1, <1>4, ListsNow
<1> QED  BY <1>3, <1>4, <1>6, <1>7, <1>8, StepInv

LEMMA DropManagerInv ==
  ASSUME CommandInv, NEW c \in Managers, DropManager(c)
  PROVE  CommandInv'
<1> DEFINE ctr == [k \in Listeners |-> BrokenAll(m_Controller, m_Commands[c])[k] \ {c}]
<1>1. ctr \in [Listeners -> SUBSET Managers]
  BY ListsNow DEF BrokenAll
<1>2. \A d \in Managers : d # c => m_Commands'[d] = m_Commands[d]
  BY ListsNow DEF DropManager
<1>3. m_Commands' \in [Managers -> Seq(Command)] /\ m_Commands'[c] = <<>>
  BY ListsNow, EmptyList DEF DropManager
<1>4. /\ m_Controller' = [k \in Listeners |-> IF k \in Referenced' THEN ctr[k] ELSE {}]
      /\ shared' = (shared \cup {}) \cap Referenced'
      /\ m_Name' = m_Name /\ held' = held /\ UNCHANGED <<m_Context, runs>>
  BY DEF DropManager, Settle
<1>5. ASSUME NEW k \in Listeners, NEW d \in Managers, d # c, k \notin shared,
             m_Controller[k] = {d}
      PROVE  ctr[k] = {d}
  BY <1>5, BrokenElsewhere DEF BrokenAll
<1> HIDE DEF ctr
<1>6. /\ \A d \in Managers : OnePerName(m_Commands'[d])
      /\ \A d \in Managers : \A x \in Commands(m_Commands'[d]) :
           d # c /\ x \in Commands(m_Commands[d])
  BY <1>2, <1>3, ListsNow, EmptyList
<1>7. ASSUME NEW d \in Managers, NEW x \in Commands(m_Commands'[d]),
             x.mPtr \in Referenced', x.mPtr \in Listeners, x.mPtr \notin shared'
      PROVE  x.mName = m_Name'[x.mPtr] /\ m_Controller'[x.mPtr] = {d}
  BY <1>4, <1>5, <1>6, <1>7, ListsNow DEF Agrees
<1>8. /\ m_Controller' \in [Listeners -> SUBSET Managers]
      /\ shared' \in SUBSET Listeners
      /\ m_Name' \in [Listeners -> Names] /\ held' \in SUBSET Listeners
  BY <1>1, <1>4, ListsNow
<1> QED  BY <1>3, <1>4, <1>6, <1>7, <1>8, StepInv

(* Manager::Sort.                                                          *)
LEMMA SortInv ==
  ASSUME CommandInv, NEW c \in Managers, Sort(c)
  PROVE  CommandInv'
<1>1. PICK place \in Bijection(DOMAIN m_Commands[c], DOMAIN m_Commands[c]) :
        m_Commands' = [m_Commands EXCEPT ![c] =
                         [i \in DOMAIN m_Commands[c] |-> m_Commands[c][place[i]]]]
  BY DEF Sort
<1> DEFINE sorted == [i \in DOMAIN m_Commands[c] |-> m_Commands[c][place[i]]]
<1>2. m_Commands[c] \in Seq(Command) /\ OnePerName(m_Commands[c])
  BY ListsNow
<1>3. /\ sorted \in Seq(Command) /\ OnePerName(sorted)
      /\ Commands(sorted) \subseteq Commands(m_Commands[c])
  BY <1>2, SortedCommands
<1>4. m_Commands' = [m_Commands EXCEPT ![c] = sorted]
  BY <1>1
<1> HIDE DEF sorted
<1>5. /\ m_Commands' \in [Managers -> Seq(Command)]
      /\ \A d \in Managers : OnePerName(m_Commands'[d])
      /\ \A d \in Managers : Commands(m_Commands'[d]) \subseteq Commands(m_Commands[d])
  BY <1>3, <1>4, ListsNow
<1>6. UNCHANGED <<m_Context, m_Controller, m_Name, held, runs, shared>>
  BY DEF Sort
<1>7. /\ m_Controller' \in [Listeners -> SUBSET Managers]
      /\ shared' \in SUBSET Listeners
      /\ m_Name' \in [Listeners -> Names] /\ held' \in SUBSET Listeners
  BY <1>6, ListsNow
<1>8. ASSUME NEW d \in Managers, NEW x \in Commands(m_Commands'[d]),
             x.mPtr \in Referenced', x.mPtr \in Listeners, x.mPtr \notin shared'
      PROVE  x.mName = m_Name'[x.mPtr] /\ m_Controller'[x.mPtr] = {d}
  BY <1>5, <1>6, <1>8, ListsNow DEF Agrees
<1> QED  BY <1>5, <1>6, <1>7, <1>8, StepInv

(* A script lets go of a listener: those with a command are still there.   *)
LEMMA ReleaseInv ==
  ASSUME CommandInv, NEW l \in Listeners, Release(l)
  PROVE  CommandInv'
<1>1. /\ m_Commands' = m_Commands /\ m_Name' = m_Name /\ UNCHANGED <<m_Context, runs>>
      /\ held' \in SUBSET Listeners /\ m_Name' \in [Listeners -> Names]
      /\ m_Commands' \in [Managers -> Seq(Command)]
      /\ \A d \in Managers : OnePerName(m_Commands'[d])
  BY ListsNow DEF Release
<1>2. /\ m_Controller' \in [Listeners -> SUBSET Managers]
      /\ shared' \in SUBSET Listeners
      /\ \A k \in Listeners : k \in Referenced' =>
           m_Controller'[k] = m_Controller[k] /\ (k \in shared => k \in shared')
  BY ListsNow DEF Release, Settle
<1>3. ASSUME NEW d \in Managers, NEW x \in Commands(m_Commands'[d]),
             x.mPtr \in Referenced', x.mPtr \in Listeners, x.mPtr \notin shared'
      PROVE  x.mName = m_Name'[x.mPtr] /\ m_Controller'[x.mPtr] = {d}
  BY <1>1, <1>2, <1>3, ListsNow DEF Agrees
<1> QED  BY <1>1, <1>2, <1>3, StepInv

(* Controller::Terminate.                                                  *)
LEMMA TerminateCommandsInv ==
  ASSUME CommandInv, TerminateCommands
  PROVE  CommandInv'
<1>1. /\ m_Commands' \in [Managers -> Seq(Command)]
      /\ \A d \in Managers : OnePerName(m_Commands'[d]) /\ Commands(m_Commands'[d]) = {}
  BY EmptyList DEF TerminateCommands
<1>2. /\ m_Controller' \in [Listeners -> SUBSET Managers]
      /\ shared' \in SUBSET Listeners
      /\ m_Name' \in [Listeners -> Names] /\ held' \in SUBSET Listeners
      /\ UNCHANGED <<m_Context, runs>>
  BY ListsNow DEF TerminateCommands, Settle
<1> QED  BY <1>1, <1>2, StepInv

(* Manager::Run: the new run is the innermost of its manager; what it      *)
(* remembers is the one that was.                                          *)
LEMMA RunInv ==
  ASSUME CommandInv, NEW c \in Managers, NEW n \in Names, Run(c, n)
  PROVE  CommandInv'
<1> DEFINE run == [mController |-> c, mPrevious |-> m_Context[c],
                   mObject |-> FindByName(m_Commands[c], n)]
<1>1. FindByName(m_Commands[c], n) \in Listeners
  BY ListsNow, NameFound DEF Run
<1>2. run \in ARun /\ run.mController = c /\ run.mPrevious = m_Context[c]
  BY <1>1, ListsNow DEF ARun
<1>3. /\ runs' = Append(runs, run) /\ m_Context' = [m_Context EXCEPT ![c] = Len(runs')]
      /\ UNCHANGED <<m_Commands, m_Controller, m_Name, held, shared>>
      /\ Len(runs) < MaxRuns
  BY DEF Run
<1> HIDE DEF run
<1>4. /\ runs' \in Seq(ARun) /\ Len(runs') = Len(runs) + 1
      /\ \A i \in 1..Len(runs) : runs'[i] = runs[i]
      /\ runs'[Len(runs) + 1] = run
  BY <1>2, <1>3, ListsNow, AppendProperties
<1>5. /\ Len(runs) \in Nat /\ DOMAIN runs = 1..Len(runs)
      /\ DOMAIN runs' = 1..(Len(runs) + 1) /\ MaxRuns \in Nat
  BY <1>4, ListsNow, LenProperties, CommandAssumption
<1>6. m_Context' \in [Managers -> 0..MaxRuns]
  BY <1>3, <1>4, <1>5, ListsNow
<1>7. CommandTypeOK'
  BY <1>3, <1>4, <1>6 DEF CommandInv, CommandTypeOK, ARun
<1>8. GuardsRemember'
  <2>1. Len(runs') <= MaxRuns
    BY <1>3, <1>4, <1>5
  <2>2. ASSUME NEW d \in Managers PROVE IsContext(m_Context[d], Len(runs), d)'
    <3>1. IsContext(m_Context[d], Len(runs), d) /\ m_Context[d] \in 0..MaxRuns
      BY ListsNow DEF GuardsRemember
    <3>2. CASE d = c
      <4>1. m_Context'[d] = Len(runs) + 1
        BY <3>2, <1>3, <1>4, ListsNow
      <4> QED  BY <3>2, <4>1, <1>2, <1>4, <1>5 DEF IsContext
    <3>3. CASE d # c
      <4>1. m_Context'[d] = m_Context[d]
        BY <3>3, <1>3, ListsNow
      <4>2. \A i \in 1..Len(runs') : runs'[i].mController = d => i <= m_Context[d]
        BY <3>1, <3>3, <1>2, <1>4, <1>5 DEF IsContext
      <4>3. m_Context[d] # 0 =>
              m_Context[d] \in 1..Len(runs') /\ runs'[m_Context[d]].mController = d
        BY <3>1, <1>4, <1>5 DEF IsContext
      <4> QED  BY <4>1, <4>2, <4>3 DEF IsContext
    <3> QED  BY <3>2, <3>3
  <2>3. ASSUME NEW i \in DOMAIN runs'
        PROVE  IsContext(runs[i].mPrevious, i - 1, runs[i].mController)'
    <3>1. CASE i \in DOMAIN runs
      <4>1. IsContext(runs[i].mPrevious, i - 1, runs[i].mController)
        BY <3>1, ListsNow DEF GuardsRemember
      <4>2. runs'[i] = runs[i] /\ \A j \in 1..(i - 1) : runs'[j] = runs[j]
        BY <3>1, <1>4, <1>5
      <4> QED  BY <4>1, <4>2 DEF IsContext
    <3>2. CASE i = Len(runs) + 1
      <4>1. IsContext(m_Context[c], Len(runs), c)
        BY ListsNow DEF GuardsRemember
      <4>2. runs'[i] = run /\ i - 1 = Len(runs)
        BY <3>2, <1>4, <1>5
      <4> QED  BY <4>1, <4>2, <1>2, <1>4 DEF IsContext
    <3> QED  BY <3>1, <3>2, <1>5
  <2> QED  BY <2>1, <2>2, <2>3 DEF GuardsRemember
<1>9. UniqueCommands' /\ CommandsAgree'
  BY <1>3 DEF CommandInv, UniqueCommands, CommandsAgree
<1> QED  BY <1>7, <1>8, <1>9 DEF CommandInv

(* ~Guard: the context is that of the run before, of the same manager.     *)
LEMMA ReturnInv ==
  ASSUME CommandInv, Return
  PROVE  CommandInv'
<1> DEFINE N == Len(runs)
           last == runs[N]
<1>1. /\ N \in Nat /\ N > 0 /\ DOMAIN runs = 1..N
      /\ \A i \in 1..N : runs[i] \in ARun
  BY ListsNow, LenProperties, EmptySeq, ElementOfSeq DEF Return
<1>2. /\ runs' \in Seq(ARun) /\ Len(runs') = N - 1
      /\ \A i \in 1..(N - 1) : runs'[i] = runs[i]
  <2>1. runs' = SubSeq(runs, 1, N - 1)
    BY DEF Return, Front
  <2>2. \A i \in 1..(N - 1) : runs[i] \in ARun
    BY <1>1
  <2> QED  BY <1>1, <2>1, <2>2, SubSeqProperties
<1>3. DOMAIN runs' = 1..(N - 1)
  BY <1>2, LenProperties
<1>4. /\ m_Context' = [m_Context EXCEPT ![last.mController] = last.mPrevious]
      /\ UNCHANGED <<m_Commands, m_Name, held>>
  BY DEF Return, Restore, Last
<1>5. last.mController \in Managers /\ last.mPrevious \in 0..MaxRuns
  BY <1>1 DEF ARun
<1>6. /\ m_Controller' \in [Listeners -> SUBSET Managers]
      /\ shared' \in SUBSET Listeners
      /\ \A k \in Listeners : k \in Referenced' =>
           m_Controller'[k] = m_Controller[k] /\ (k \in shared => k \in shared')
  BY ListsNow DEF Return, Settle
<1>7. CommandTypeOK'
  <2>1. m_Context' \in [Managers -> 0..MaxRuns]
    BY <1>4, <1>5, ListsNow
  <2> QED  BY <1>2, <1>4, <1>6, <2>1 DEF CommandInv, CommandTypeOK, ARun
<1>8. UniqueCommands' /\ CommandsAgree'
  <2>1. /\ m_Commands' \in [Managers -> Seq(Command)]
        /\ \A d \in Managers : OnePerName(m_Commands'[d])
    BY <1>4, ListsNow
  <2>2. ASSUME NEW d \in Managers, NEW x \in Commands(m_Commands'[d]),
               x.mPtr \in Referenced', x.mPtr \in Listeners, x.mPtr \notin shared'
        PROVE  x.mName = m_Name'[x.mPtr] /\ m_Controller'[x.mPtr] = {d}
    BY <1>4, <1>6, <2>2, ListsNow DEF Agrees
  <2> QED  BY <2>1, <2>2, StepLists
<1>9. GuardsRemember'
  <2>1. \A i \in 1..N : IsContext(runs[i].mPrevious, i - 1, runs[i].mController)
    BY <1>1, ListsNow DEF GuardsRemember
  <2>2. Len(runs') <= MaxRuns
    BY <1>1, <1>2, ListsNow, CommandAssumption DEF GuardsRemember
  <2>3. ASSUME NEW d \in Managers PROVE IsContext(m_Context[d], Len(runs), d)'
    <3>1. CASE d = last.mController
      <4>1. m_Context'[d] = last.mPrevious
        BY <3>1, <1>4, ListsNow
      <4>2. IsContext(last.mPrevious, N - 1, d)
        BY <2>1, <3>1, <1>1
      <4> QED  BY <4>1, <4>2, <1>1, <1>2 DEF IsContext
    <3>2. CASE d # last.mController
      <4>1. m_Context'[d] = m_Context[d] /\ m_Context[d] \in 0..MaxRuns
        BY <3>2, <1>4, ListsNow
      <4>2. IsContext(m_Context[d], N, d)
        BY ListsNow DEF GuardsRemember
      <4>3. m_Context[d] # N
        BY <4>2, <3>2, <1>1 DEF IsContext
      <4> QED  BY <4>1, <4>2, <4>3, <1>1, <1>2 DEF IsContext
    <3> QED  BY <3>1, <3>2
  <2>4. ASSUME NEW i \in DOMAIN runs'
        PROVE  IsContext(runs[i].mPrevious, i - 1, runs[i].mController)'
    <3>1. /\ i \in 1..N /\ runs'[i] = runs[i]
          /\ \A j \in 1..(i - 1) : runs'[j] = runs[j]
      BY <1>1, <1>2, <1>3
    <3> QED  BY <2>1, <3>1 DEF IsContext
  <2> QED  BY <2>2, <2>3, <2>4 DEF GuardsRemember
<1> QED  BY <1>7, <1>8, <1>9 DEF CommandInv

-----------------------------------------------------------------------------
(* Every step of the commands keeps the invariant.                         *)
LEMMA CommandNextInv == CommandInv /\ [CommandNext]_commandVars => CommandInv'
<1> SUFFICES ASSUME CommandInv, [CommandNext]_commandVars
             PROVE  CommandInv'
  OBVIOUS
<1>1. ASSUME NEW l \in Listeners, NEW n \in Names, NewListener(l, n) PROVE CommandInv'
  BY <1>1, NewListenerInv
<1>2. ASSUME NEW l \in Listeners, NEW n \in Names, SetName(l, n) PROVE CommandInv'
  BY <1>2, SetNameInv
<1>3. ASSUME NEW c \in Managers, NEW l \in Listeners, NEW n \in Names, Create(c, l, n)
      PROVE  CommandInv'
  BY <1>3, CreateInv
<1>4. ASSUME NEW c \in Managers, NEW l \in Listeners, ManagerAttach(c, l) PROVE CommandInv'
  BY <1>4, ManagerAttachInv
<1>5. ASSUME NEW c \in Managers, NEW l \in Listeners, ListenerAttach(c, l) PROVE CommandInv'
  BY <1>5, ListenerAttachInv
<1>6. ASSUME NEW l \in Listeners, ListenerDetach(l) PROVE CommandInv'
  BY <1>6, ListenerDetachInv
<1>7. ASSUME NEW l \in Listeners, Release(l) PROVE CommandInv'
  BY <1>7, ReleaseInv
<1>8. ASSUME NEW c \in Managers, Clear(c) PROVE CommandInv'
  BY <1>8, ClearInv
<1>9. ASSUME NEW c \in Managers, Sort(c) PROVE CommandInv'
  BY <1>9, SortInv
<1>10. ASSUME NEW c \in Managers, DropManager(c) PROVE CommandInv'
  BY <1>10, DropManagerInv
<1>11. CASE TerminateCommands
  BY <1>11, TerminateCommandsInv
<1>12. ASSUME NEW c \in Managers, NEW n \in Names, Run(c, n) PROVE CommandInv'
  BY <1>12, RunInv
<1>13. CASE Return
  BY <1>13, ReturnInv
<1>14. CASE UNCHANGED commandVars
  <2>1. CommandTypeOK'
    BY <1>14 DEF commandVars, CommandInv, CommandTypeOK
  <2>2. UniqueCommands' /\ CommandsAgree'
    BY <1>14 DEF commandVars, CommandInv, UniqueCommands, CommandsAgree
  <2>3. GuardsRemember'
    BY <1>14, GuardsStay DEF commandVars, CommandInv
  <2> QED  BY <2>1, <2>2, <2>3 DEF CommandInv
<1> QED
  BY <1>1, <1>2, <1>3, <1>4, <1>5, <1>6, <1>7, <1>8, <1>9, <1>10, <1>11, <1>12, <1>13, <1>14
  DEF CommandNext

(* The inductive invariant of the commands.                                *)
THEOREM CommandInvariance == CommandSpec => []CommandInv
<1>1. CommandInv /\ [CommandNext]_commandVars => CommandInv'
  BY CommandNextInv
<1> QED  BY <1>1, CommandInitInv, PTL DEF CommandSpec

(* The state of commands keeps to its types.                               *)
THEOREM CommandTypeCorrect == CommandSpec => []CommandTypeOK
<1>1. CommandInv => CommandTypeOK
  BY DEF CommandInv
<1> QED  BY <1>1, CommandInvariance, PTL

(* A manager has one command of a name, whichever way listeners came to    *)
(* their names and places (Controller::Attach, Listener::SetName).         *)
THEOREM UniqueCommandsHold == CommandSpec => []UniqueCommands
<1>1. CommandInv => UniqueCommands
  BY DEF CommandInv
<1> QED  BY <1>1, CommandInvariance, PTL

(* A command is found under its listener's name, and its listener belongs  *)
(* to the manager that runs it, unless it was given to two at a time.      *)
THEOREM CommandsAgreeHold == CommandSpec => []CommandsAgree
<1>1. CommandInv => CommandsAgree
  BY DEF CommandInv
<1> QED  BY <1>1, CommandInvariance, PTL

(* A manager's context is that of its innermost run (the guard in          *)
(* Manager::Run), however deep commands run within commands.               *)
THEOREM ContextInnermostHolds == CommandSpec => []ContextInnermost
<1>1. CommandInv => ContextInnermost
  <2> SUFFICES ASSUME CommandInv, NEW c \in Managers
               PROVE  m_Context[c] = Max({0} \cup {i \in DOMAIN runs : runs[i].mController = c})
    BY DEF ContextInnermost
  <2> DEFINE S == {0} \cup {i \in DOMAIN runs : runs[i].mController = c}
  <2>1. DOMAIN runs = 1..Len(runs) /\ Len(runs) \in Nat
    BY ListsNow, LenProperties
  <2>2. IsContext(m_Context[c], Len(runs), c) /\ m_Context[c] \in 0..MaxRuns
    BY ListsNow DEF GuardsRemember
  <2>3. S \subseteq Nat /\ m_Context[c] \in S /\ \A i \in S : i <= m_Context[c]
    BY <2>1, <2>2, CommandAssumption DEF IsContext
  <2> QED  BY <2>3, MaxOf
<1> QED  BY <1>1, CommandInvariance, PTL
=============================================================================
