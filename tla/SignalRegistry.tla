----------------------------- MODULE SignalRegistry -----------------------------
(***************************************************************************)
(* Which signals there are (source/Signal.cpp).  A signal with a name is in*)
(* s_Signals, which refers to it, any other in s_FreeSignals, a list of    *)
(* pointers that the constructor and the destructor keep.  A signal is     *)
(* destroyed with its last reference: scripts and the core have some, and  *)
(* so do the environments, callbacks and data of other signals, which go   *)
(* when those are cleared or destroyed.                                    *)
(*                                                                         *)
(* The slots themselves are SignalSlots.  Left out: the names beyond their *)
(* hashes, by which the code compares them; the order of s_FreeSignals,    *)
(* which is that in which Terminate clears what is on it; the signals the  *)
(* core emits itself, whose end under an emission is in EntityPool and     *)
(* CoreLifecycle.                                                          *)
(***************************************************************************)
EXTENDS Naturals, FiniteSets, SequencesExt

CONSTANTS
  Signals,   (* the signals there may be at a time                         *)
  Hashes,    (* the hashes of names                                        *)
  MaxEmits,  (* bound: how deep emissions nest                             *)
  MaxKept    (* bound: how many others a signal refers to                  *)

ASSUME RegistryAssumption == MaxEmits \in Nat /\ MaxKept \in Nat

VARIABLES
  s_Signals,      (* the signals in the registry, by the hash of the name  *)
  s_FreeSignals,  (* the list of the others: how often each is on it       *)
  named,          (* the signals whose m_Name is not empty                 *)
  existing,       (* the signals that exist                                *)
  reached,        (* those that scripts and the core refer to              *)
  keeps,          (* per signal, those its slots and its data refer to     *)
  emitting,       (* the signals that scripts emit, innermost last         *)
  phase, todo     (* Terminate: how far it is, and its copy of the list    *)

registryVars == <<s_Signals, s_FreeSignals, named, existing, reached, keeps,
                  emitting, phase, todo>>

(* An empty list.                                                          *)
Nowhere == [s \in Signals |-> 0]

Push(list, s) == [list EXCEPT ![s] = @ + 1]

RegistryInit ==
  /\ s_Signals = <<>> /\ s_FreeSignals = Nowhere
  /\ named = {} /\ existing = {} /\ reached = {}
  /\ keeps = [s \in Signals |-> {}]
  /\ emitting = <<>>
  /\ phase = "open" /\ todo = Nowhere

(* The signals that remain when references have gone: a cycle does.        *)
Survivors(exist, roots, keep) ==
  UNION {set \in SUBSET exist : set \subseteq roots \cup UNION {keep[s] : s \in set}}

(* The destructor, for whatever has lost its last reference: it clears the *)
(* slots, and takes the signal off the list if it has no name.  A signal   *)
(* that is emitted is on the stack of the machine, which refers to it.     *)
Dispose(free, names, keep) ==
  LET left == Survivors(existing, reached' \cup Range(s_Signals') \cup Range(emitting'),
                        keep)
  IN  /\ existing' = left
      /\ keeps' = [s \in Signals |-> IF s \in left THEN keep[s] ELSE {}]
      /\ named' = names \cap left
      /\ s_FreeSignals' =
           [s \in Signals |-> IF s \in left \cup names THEN free[s] ELSE 0]

Open == phase = "open" /\ UNCHANGED <<phase, todo>>

-----------------------------------------------------------------------------
(* SqCreateSignal without a name, and the pairs of the core.               *)
CreateFree(s) ==
  /\ Open
  /\ s \notin existing
  /\ existing' = existing \cup {s}
  /\ reached' = reached \cup {s}
  /\ s_FreeSignals' = Push(s_FreeSignals, s)
  /\ UNCHANGED <<s_Signals, named, keeps, emitting>>

(* SqCreateSignal of a new name.                                           *)
CreateNamed(h, s) ==
  /\ Open
  /\ h \notin DOMAIN s_Signals
  /\ s \notin existing
  /\ existing' = existing \cup {s}
  /\ named' = named \cup {s}
  /\ reached' = reached \cup {s}
  /\ s_Signals' = [k \in DOMAIN s_Signals \cup {h} |-> IF k = h THEN s ELSE s_Signals[k]]
  /\ UNCHANGED <<s_FreeSignals, keeps, emitting>>

(* SqSignal, and SqCreateSignal of a name that there is.                   *)
Fetch(h) ==
  /\ Open
  /\ h \in DOMAIN s_Signals
  /\ reached' = reached \cup {s_Signals[h]}
  /\ UNCHANGED <<s_Signals, s_FreeSignals, named, existing, keeps, emitting>>

(* A slip: the signal keeps its name when it is put on the list.           *)
RemoveKeepsName(h) ==
  /\ Open
  /\ h \in DOMAIN s_Signals
  /\ s_Signals' = Restrict(s_Signals, DOMAIN s_Signals \ {h})
  /\ UNCHANGED <<reached, emitting>>
  /\ Dispose(Push(s_FreeSignals, s_Signals[h]), named, keeps)

(* A slip: the signal is not put on the list.                              *)
RemoveOnly(h) ==
  /\ Open
  /\ h \in DOMAIN s_Signals
  /\ s_Signals' = Restrict(s_Signals, DOMAIN s_Signals \ {h})
  /\ UNCHANGED <<reached, emitting>>
  /\ Dispose(s_FreeSignals, named \ {s_Signals[h]}, keeps)

(* SqRemoveSignal.                                                         *)
RemoveSignal(h) ==
  /\ Open
  /\ h \in DOMAIN s_Signals
  /\ s_Signals' = Restrict(s_Signals, DOMAIN s_Signals \ {h})
  /\ UNCHANGED <<reached, emitting>>
  /\ Dispose(Push(s_FreeSignals, s_Signals[h]), named \ {s_Signals[h]}, keeps)

(* A listener is connected, or data set, that refers to another signal.    *)
Keep(s, t) ==
  /\ Open
  /\ s \in reached /\ t \in reached
  /\ Cardinality(keeps[s]) < MaxKept
  /\ keeps' = [keeps EXCEPT ![s] = @ \cup {t}]
  /\ UNCHANGED <<s_Signals, s_FreeSignals, named, existing, reached, emitting>>

(* Some listeners are disconnected, or all: ClearSlots; or other data set. *)
LetGo(s, those) ==
  /\ Open
  /\ s \in reached
  /\ UNCHANGED <<s_Signals, reached, emitting>>
  /\ Dispose(s_FreeSignals, named, [keeps EXCEPT ![s] = @ \ those])

(* A script drops its references, or the core resets a pair.               *)
DropReference(s) ==
  /\ Open
  /\ s \in reached
  /\ reached' = reached \ {s}
  /\ UNCHANGED <<s_Signals, emitting>>
  /\ Dispose(s_FreeSignals, named, keeps)

(* Signal.Emit and its like: listeners run, and do any of this.            *)
EmitSignal(s) ==
  /\ Open
  /\ s \in reached
  /\ Len(emitting) < MaxEmits
  /\ emitting' = Append(emitting, s)
  /\ UNCHANGED <<s_Signals, s_FreeSignals, named, existing, reached, keeps>>

Emitted ==
  /\ Open
  /\ emitting # <<>>
  /\ emitting' = Front(emitting)
  /\ UNCHANGED <<s_Signals, reached>>
  /\ Dispose(s_FreeSignals, named, keeps)

-----------------------------------------------------------------------------
(* Signal::Terminate, when no script runs any more.                        *)

TerminateNamed ==
  /\ phase = "open" /\ emitting = <<>>
  /\ s_Signals' = <<>>
  /\ UNCHANGED <<reached, emitting>>
  /\ LET those == Range(s_Signals)
     IN  Dispose(s_FreeSignals, named \ those,
                 [s \in Signals |-> IF s \in those THEN {} ELSE keeps[s]])
  /\ phase' = "free"
  /\ todo' = s_FreeSignals'

(* What the code does is undefined, and the model stops, with a signal of  *)
(* the copy that was destroyed as another was cleared, and with one that is*)
(* destroyed in its own ClearSlots, or as its data goes: its listeners or  *)
(* its data held the last reference to it, themselves or through others.   *)
TerminateFree(s) ==
  /\ phase = "free" /\ todo[s] > 0
  /\ UNCHANGED <<s_Signals, reached, emitting>>
  /\ IF s \in existing
       THEN Dispose(s_FreeSignals, named, [keeps EXCEPT ![s] = {}])
       ELSE UNCHANGED <<s_FreeSignals, named, existing, keeps>>
  /\ IF s \in existing'
       THEN todo' = [todo EXCEPT ![s] = @ - 1] /\ UNCHANGED phase
       ELSE phase' = "undefined" /\ UNCHANGED todo

TerminateEnds ==
  /\ phase = "free" /\ todo = Nowhere
  /\ s_FreeSignals' = Nowhere
  /\ phase' = "closing"
  /\ UNCHANGED <<s_Signals, named, existing, reached, keeps, emitting, todo>>

(* The events are dropped, the machine is closed, and another made.        *)
CloseMachine ==
  /\ phase = "closing"
  /\ reached' = {}
  /\ existing' = {} /\ named' = {}
  /\ keeps' = [s \in Signals |-> {}]
  /\ phase' = "open"
  /\ UNCHANGED <<s_Signals, s_FreeSignals, emitting, todo>>

-----------------------------------------------------------------------------
RegistryNext ==
  \/ \E s \in Signals : CreateFree(s) \/ DropReference(s) \/ EmitSignal(s)
  \/ \E h \in Hashes, s \in Signals : CreateNamed(h, s)
  \/ \E h \in Hashes : Fetch(h) \/ RemoveSignal(h)
  \/ \E s, t \in Signals : Keep(s, t)
  \/ \E s \in Signals : \E those \in SUBSET keeps[s] : LetGo(s, those)
  \/ Emitted
  \/ TerminateNamed \/ (\E s \in Signals : TerminateFree(s)) \/ TerminateEnds \/ CloseMachine

RegistrySpec == RegistryInit /\ [][RegistryNext]_registryVars

-----------------------------------------------------------------------------
RegistryTypeOK ==
  /\ DOMAIN s_Signals \subseteq Hashes /\ Range(s_Signals) \subseteq Signals
  /\ s_FreeSignals \in [Signals -> Nat] /\ todo \in [Signals -> Nat]
  /\ named \subseteq Signals /\ existing \subseteq Signals /\ reached \subseteq Signals
  /\ keeps \in [Signals -> SUBSET Signals]
  /\ emitting \in Seq(Signals) /\ Len(emitting) <= MaxEmits
  /\ phase \in {"open", "free", "closing", "undefined"}

(* A signal that exists is where Terminate looks for it, in one place and  *)
(* only once, and no other is there: whatever removed its name and in      *)
(* whichever order the references to it went.                              *)
OneList ==
  phase = "open" =>
    /\ named = Range(s_Signals) /\ IsInjective(s_Signals)
    /\ named \subseteq existing
    /\ \A s \in Signals : s_FreeSignals[s] = IF s \in existing \ named THEN 1 ELSE 0

(* When signals are terminated none of those left, which scripts may refer *)
(* to still, keeps objects of the machine that is about to be closed.      *)
NothingKept ==
  phase = "closing" => \A s \in existing : keeps[s] = {}

-----------------------------------------------------------------------------
(* What makes these inductive.                                             *)

(* Only signals that exist are referred to, and only they refer to others. *)
OnlyExisting ==
  /\ reached \cup Range(s_Signals) \cup Range(emitting) \subseteq existing
  /\ \A s \in Signals : keeps[s] \subseteq existing
  /\ \A s \in Signals \ existing : keeps[s] = {}

(* While Terminate goes through its copy of the list, whoever is not ahead *)
(* of it keeps nothing; no script runs and no signal has a name.           *)
Terminating ==
  /\ phase = "free" => \A s \in existing : todo[s] = 0 => keeps[s] = {}
  /\ phase # "open" => named = {} /\ s_Signals = <<>> /\ emitting = <<>>
  /\ phase = "closing" => s_FreeSignals = Nowhere

RegistryInv ==
  /\ RegistryTypeOK /\ OneList /\ NothingKept
  /\ OnlyExisting /\ Terminating
=============================================================================
