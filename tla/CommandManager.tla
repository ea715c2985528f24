---------------------------- MODULE CommandManager ----------------------------
(***************************************************************************)
(* The commands of scripts (source/Command.hpp, source/Command.cpp).  A    *)
(* manager has a controller with a list of commands, each a name and a     *)
(* strong reference to a listener; a listener knows the controller it      *)
(* belongs to, weakly.  Running a command sets the context of the          *)
(* controller and calls script code (the authority check, the command, its *)
(* failure and post handlers), which may change the lists and run other    *)
(* commands before it returns.                                             *)
(*                                                                         *)
(* The list is a vector: to erase a command moves those behind it forward, *)
(* and only the last place of the list is destroyed.                       *)
(*                                                                         *)
(* Left out: the parsing of arguments and what the handlers make of them,  *)
(* suspension, and the texts; a run ends alike with any result.            *)
(***************************************************************************)
EXTENDS Naturals, FiniteSets, SequencesExt

CONSTANTS
  Managers,   (* the managers, or their controllers                        *)
  Listeners,  (* the listeners there may be at a time                      *)
  Names,      (* the names of commands, ordered as strings are             *)
  MaxRuns,    (* bound: how deep commands run within commands              *)
  MaxShared   (* bound: how many listeners a manager is given while they   *)
              (* have a command already                                    *)

ASSUME CommandAssumption ==
  /\ Names \subseteq Nat /\ Names # {}
  /\ MaxRuns \in Nat /\ MaxShared \in Nat

VARIABLES
  m_Commands,   (* per controller, its list of commands                    *)
  m_Context,    (* per controller, the run whose context is current, or 0  *)
  m_Controller, (* per listener, the controllers it belongs to: one or none*)
  m_Name,       (* per listener, its name                                  *)
  held,         (* the listeners that scripts hold references to           *)
  runs,         (* the commands that run, one within the other             *)
  shared        (* history: the listeners that a manager was given while   *)
                (* they had a command already                              *)

commandVars == <<m_Commands, m_Context, m_Controller, m_Name, held, runs, shared>>

CommandInit ==
  /\ m_Commands = [c \in Managers |-> <<>>]
  /\ m_Context = [c \in Managers |-> 0]
  /\ m_Controller = [l \in Listeners |-> {}]
  /\ m_Name = [l \in Listeners |-> CHOOSE n \in Names : TRUE]
  /\ held = {}
  /\ runs = <<>>
  /\ shared = {}

NamesOf(s) == {s[i].mName : i \in DOMAIN s}
PtrsOf(s)  == {s[i].mPtr : i \in DOMAIN s}

HasCommand(l) == \E c \in Managers : l \in PtrsOf(m_Commands[c])

(* The listeners that exist: somebody has a reference to the object.       *)
Referenced ==
  held \cup (UNION {PtrsOf(m_Commands[c]) : c \in Managers})
       \cup {runs[i].mObject : i \in DOMAIN runs}

(* What becomes of the listeners when ctr says whom they belong to: those  *)
(* that nobody refers to any more are destroyed.                           *)
Settle(ctr, more) ==
  /\ m_Controller' = [l \in Listeners |-> IF l \in Referenced' THEN ctr[l] ELSE {}]
  /\ shared' = (shared \cup more) \cap Referenced'
  /\ Cardinality(shared') <= MaxShared

-----------------------------------------------------------------------------
(* Controller::Detach and the vector: the commands without the first of l, *)
(* and whom the listeners belong to then.  Command::operator= takes over   *)
(* the listener of the next place, and ~Command breaks the association of  *)
(* the last place, unless its listener was taken.                          *)

PlaceOf(s, l) == SelectInSeq(s, LAMBDA cmd : cmd.mPtr = l)

Erased(s, l) == IF l \in PtrsOf(s) THEN RemoveAt(s, PlaceOf(s, l)) ELSE s

(* A slip: operator= forgets to take the listener away from the next place.*)
BrokenByMove(ctr, s, l) ==
  IF l \in PtrsOf(s) THEN [ctr EXCEPT ![Last(s).mPtr] = {}] ELSE ctr

Broken(ctr, s, l) ==
  IF l \in PtrsOf(s) /\ PlaceOf(s, l) = Len(s) THEN [ctr EXCEPT ![l] = {}] ELSE ctr

(* The vector is cleared, or destroyed: every ~Command is called.          *)
BrokenAll(ctr, s) == [l \in Listeners |-> IF l \in PtrsOf(s) THEN {} ELSE ctr[l]]

-----------------------------------------------------------------------------
(* Scripts make and attach listeners.                                      *)

(* SqCmdListener(name).                                                    *)
NewListener(l, n) ==
  /\ l \notin Referenced
  /\ m_Name' = [m_Name EXCEPT ![l] = n]
  /\ held' = held \cup {l}
  /\ UNCHANGED <<m_Commands, m_Context, runs>>
  /\ Settle(m_Controller, {})

(* Manager::Create; with a name that is taken it throws, and the listener  *)
(* is gone again.                                                          *)
Create(c, l, n) ==
  /\ l \notin Referenced
  /\ n \notin NamesOf(m_Commands[c])
  /\ m_Name' = [m_Name EXCEPT ![l] = n]
  /\ m_Commands' = [m_Commands EXCEPT ![c] = Append(@, [mName |-> n, mPtr |-> l])]
  /\ held' = held \cup {l}
  /\ UNCHANGED <<m_Context, runs>>
  /\ Settle([m_Controller EXCEPT ![l] = {c}], {})

(* Manager::Attach does not ask where the listener belongs; Controller::   *)
(* Attach throws when its name is taken.                                   *)
ManagerAttach(c, l) ==
  /\ l \in held
  /\ m_Name[l] \notin NamesOf(m_Commands[c])
  /\ m_Commands' = [m_Commands EXCEPT ![c] = Append(@, [mName |-> m_Name[l], mPtr |-> l])]
  /\ UNCHANGED <<m_Context, m_Name, held, runs>>
  /\ Settle([m_Controller EXCEPT ![l] = {c}], IF HasCommand(l) THEN {l} ELSE {})

(* Listener::Detach.                                                       *)
ListenerDetach(l) ==
  /\ l \in held
  /\ m_Commands' = [c \in Managers |->
       IF c \in m_Controller[l] THEN Erased(m_Commands[c], l) ELSE m_Commands[c]]
  /\ UNCHANGED <<m_Context, m_Name, held, runs>>
  /\ Settle([m_Controller EXCEPT ![l] = {}], {})

(* Listener::Attach detaches first; if the name is taken it stays detached.*)
ListenerAttach(c, l) ==
  LET left == [d \in Managers |->
                 IF d \in m_Controller[l] THEN Erased(m_Commands[d], l) ELSE m_Commands[d]]
      taken == m_Name[l] \in NamesOf(left[c])
      again == \E d \in Managers : l \in PtrsOf(left[d])
  IN  /\ l \in held
      /\ m_Commands' = IF taken THEN left
                       ELSE [left EXCEPT ![c] = Append(@, [mName |-> m_Name[l], mPtr |-> l])]
      /\ UNCHANGED <<m_Context, m_Name, held, runs>>
      /\ Settle([m_Controller EXCEPT ![l] = IF taken THEN {} ELSE {c}],
                IF again /\ ~taken THEN {l} ELSE {})

(* A slip: SetName renames the command where it is.                        *)
SetNameInPlace(l, n) ==
  /\ l \in held
  /\ m_Name' = [m_Name EXCEPT ![l] = n]
  /\ m_Commands' = [c \in Managers |->
       [i \in DOMAIN m_Commands[c] |->
          IF m_Commands[c][i].mPtr = l THEN [m_Commands[c][i] EXCEPT !.mName = n]
                                       ELSE m_Commands[c][i]]]
  /\ UNCHANGED <<m_Context, m_Controller, held, runs, shared>>

(* Listener::SetName: when the listener is attached its command is detached*)
(* and attached anew, which throws if the name is taken.                   *)
SetName(l, n) ==
  /\ l \in held
  /\ m_Name' = [m_Name EXCEPT ![l] = n]
  /\ UNCHANGED <<m_Context, held, runs>>
  /\ IF \E c \in m_Controller[l] : l \in PtrsOf(m_Commands[c])
       THEN \E c \in m_Controller[l] :
              LET s == m_Commands[c]
                  taken == n \in NamesOf(Erased(s, l))
              IN  /\ m_Commands' = [m_Commands EXCEPT ![c] =
                       IF taken THEN Erased(s, l)
                                ELSE Append(Erased(s, l), [mName |-> n, mPtr |-> l])]
                  /\ Settle(IF taken THEN Broken(m_Controller, s, l) ELSE m_Controller, {})
       ELSE UNCHANGED <<m_Commands, m_Controller, shared>>

-----------------------------------------------------------------------------
(* Managers and references go.                                             *)

(* Manager::Clear.                                                         *)
Clear(c) ==
  /\ m_Commands' = [m_Commands EXCEPT ![c] = <<>>]
  /\ UNCHANGED <<m_Context, m_Name, held, runs>>
  /\ Settle(BrokenAll(m_Controller, m_Commands[c]), {})

(* Manager::Sort: std::sort by name, which says nothing of equal ones.     *)
Sort(c) ==
  /\ \E place \in Bijection(DOMAIN m_Commands[c], DOMAIN m_Commands[c]) :
       LET sorted == [i \in DOMAIN m_Commands[c] |-> m_Commands[c][place[i]]]
       IN  /\ \A i, j \in DOMAIN sorted : i < j => sorted[i].mName <= sorted[j].mName
           /\ m_Commands' = [m_Commands EXCEPT ![c] = sorted]
  /\ UNCHANGED <<m_Context, m_Controller, m_Name, held, runs, shared>>

(* The last reference to a manager goes, and its controller with it.  That *)
(* is not while one of its commands runs: whoever runs it holds it.        *)
DropManager(c) ==
  /\ \A i \in DOMAIN runs : runs[i].mController # c
  /\ m_Commands' = [m_Commands EXCEPT ![c] = <<>>]
  /\ UNCHANGED <<m_Context, m_Name, held, runs>>
  /\ LET left == BrokenAll(m_Controller, m_Commands[c])
     IN  Settle([l \in Listeners |-> left[l] \ {c}], {})

(* A script lets go of a listener.                                         *)
Release(l) ==
  /\ l \in held
  /\ held' = held \ {l}
  /\ UNCHANGED <<m_Commands, m_Context, m_Name, runs>>
  /\ Settle(m_Controller, {})

(* Controller::Terminate, and the machine is closed with all that scripts  *)
(* have.                                                                   *)
TerminateCommands ==
  /\ runs = <<>>
  /\ m_Commands' = [c \in Managers |-> <<>>]
  /\ held' = {}
  /\ UNCHANGED <<m_Context, m_Name, runs>>
  /\ Settle(m_Controller, {})

-----------------------------------------------------------------------------
(* Manager::Run: the guard makes a context and remembers the one before;   *)
(* the context refers to the listener while script code runs.  A name that *)
(* is not found has the failure handler called alone, and is left out.     *)

FindByName(s, n) == s[SelectInSeq(s, LAMBDA cmd : cmd.mName = n)].mPtr

Run(c, n) ==
  /\ Len(runs) < MaxRuns
  /\ n \in NamesOf(m_Commands[c])
  /\ runs' = Append(runs, [mController |-> c, mPrevious |-> m_Context[c],
                           mObject |-> FindByName(m_Commands[c], n)])
  /\ m_Context' = [m_Context EXCEPT ![c] = Len(runs')]
  /\ UNCHANGED <<m_Commands, m_Controller, m_Name, held, shared>>

(* A slip: the guard leaves no context behind.                             *)
RestoreNone(run) == m_Context' = [m_Context EXCEPT ![run.mController] = 0]

(* ~Guard.                                                                 *)
Restore(run) == m_Context' = [m_Context EXCEPT ![run.mController] = run.mPrevious]

(* Run returns, with whatever result or exception.                         *)
Return ==
  /\ runs # <<>>
  /\ Restore(Last(runs))
  /\ runs' = Front(runs)
  /\ UNCHANGED <<m_Commands, m_Name, held>>
  /\ Settle(m_Controller, {})

-----------------------------------------------------------------------------
CommandNext ==
  \/ \E l \in Listeners, n \in Names : NewListener(l, n) \/ SetName(l, n)
  \/ \E c \in Managers, l \in Listeners, n \in Names : Create(c, l, n)
  \/ \E c \in Managers, l \in Listeners : ManagerAttach(c, l) \/ ListenerAttach(c, l)
  \/ \E l \in Listeners : ListenerDetach(l) \/ Release(l)
  \/ \E c \in Managers : Clear(c) \/ Sort(c) \/ DropManager(c)
  \/ TerminateCommands
  \/ \E c \in Managers, n \in Names : Run(c, n)
  \/ Return

CommandSpec == CommandInit /\ [][CommandNext]_commandVars

-----------------------------------------------------------------------------
CommandTypeOK ==
  /\ m_Commands \in [Managers -> Seq([mName : Names, mPtr : Listeners])]
  /\ m_Context \in [Managers -> 0..MaxRuns]
  /\ m_Controller \in [Listeners -> SUBSET Managers]
  /\ m_Name \in [Listeners -> Names]
  /\ held \subseteq Listeners
  /\ runs \in Seq([mController : Managers, mPrevious : 0..MaxRuns, mObject : Listeners])
  /\ shared \subseteq Listeners

(* A manager has one command of a name, whichever way the listeners came to*)
(* their names and places: FindByName's first is the only one.             *)
UniqueCommands ==
  \A c \in Managers : \A i, j \in DOMAIN m_Commands[c] :
    m_Commands[c][i].mName = m_Commands[c][j].mName => i = j

(* A command and its listener agree: the command is found under the name   *)
(* the listener has, and the listener belongs to the manager that runs it, *)
(* which decides on the authority to do so; also after the listener was    *)
(* renamed, in vain or not, or others were detached before it.  Not so for *)
(* a listener that a manager was given while another command had it.       *)
CommandsAgree ==
  \A c \in Managers : \A i \in DOMAIN m_Commands[c] :
    LET l == m_Commands[c][i].mPtr
    IN  l \notin shared => m_Commands[c][i].mName = m_Name[l] /\ m_Controller[l] = {c}

(* A manager's context is that of its innermost run: when one command runs *)
(* another of the same manager, its own context is back afterwards.        *)
ContextInnermost ==
  \A c \in Managers :
    m_Context[c] = Max({0} \cup {i \in DOMAIN runs : runs[i].mController = c})
-----------------------------------------------------------------------------
(* What makes these inductive.  The context that c has among the first n   *)
(* runs, and what the guards remember of the runs before theirs.           *)
IsContext(r, n, c) ==
  /\ r # 0 => r \in 1..n /\ runs[r].mController = c
  /\ \A i \in 1..n : runs[i].mController = c => i <= r

GuardsRemember ==
  /\ Len(runs) <= MaxRuns
  /\ \A c \in Managers : IsContext(m_Context[c], Len(runs), c)
  /\ \A i \in DOMAIN runs : IsContext(runs[i].mPrevious, i - 1, runs[i].mController)

CommandInv == CommandTypeOK /\ UniqueCommands /\ CommandsAgree /\ GuardsRemember
=============================================================================
