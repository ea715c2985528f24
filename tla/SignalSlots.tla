----------------------------- MODULE SignalSlots -----------------------------
(***************************************************************************)
(* The slots of one signal (source/Signal.hpp, source/Signal.cpp): the     *)
(* listeners scripts have connected, in an array that grows, and the       *)
(* emissions that walk it.                                                 *)
(*                                                                         *)
(* An emission calls the slots that were in use when it began, one by one, *)
(* with a pair of iterators kept in a Scope.  A listener that is called may*)
(* do anything to the signal it is called by: connect, disconnect, reorder,*)
(* clear, or emit it again, which nests a second Scope in the first.  The  *)
(* operations adjust the iterators of m_Scope, the innermost scope, so that*)
(* the emission goes on with the right slot.  The model asks when it does. *)
(*                                                                         *)
(* A listener stands for a pair of an environment and a function, and for  *)
(* the pair of their hashes; a matcher (MatchSlot, MatchThis, MatchFunc)   *)
(* for the listeners it accepts.  Left out: the arguments and results of   *)
(* calls, and m_Name and m_Data, which no operation on slots reads.        *)
(***************************************************************************)
EXTENDS Integers, FiniteSets, SequencesExt

CONSTANTS
  Listeners,  (* the pairs of an environment and a function               *)
  Null,       (* the null script object, and the hash 0                   *)
  Matchers,   (* the sets of listeners a removal or a move may ask for    *)
  SmbSize,    (* SMB_SIZE: the slots stored in the signal itself          *)
  MaxUsed,    (* bound of the model: slots in use                         *)
  MaxDepth    (* bound of the model: nested emissions                     *)

ASSUME SignalAssumption ==
  /\ Null \notin Listeners
  /\ Matchers \subseteq SUBSET Listeners
  /\ SmbSize \in Nat \ {0}
  /\ MaxUsed \in Nat
  /\ MaxDepth \in Nat

VARIABLES
  m_Slots,    (* the array of slots: [hash, ref], numbered from 0         *)
  m_Used,     (* the slots in use                                         *)
  m_Size,     (* the slots of the array                                   *)
  refs,       (* per listener: the references the signal holds to it      *)
  scopes,     (* the Scopes of the emissions in progress, innermost last  *)
  calling,    (* whether a listener called by the last scope is running   *)
  undefined   (* whether memory that is not a slot has been accessed      *)

vars == <<m_Slots, m_Used, m_Size, refs, scopes, calling, undefined>>

-----------------------------------------------------------------------------
(* Slots.                                                                  *)

Hashes == Listeners \cup {Null}

Slot == [hash : Hashes, ref : Hashes]

Empty     == [hash |-> Null, ref |-> Null]
Filled(l) == [hash |-> l, ref |-> l]

(* What a move leaves behind: the references go, the hashes stay.          *)
MovedFrom(s) == [s EXCEPT !.ref = Null]

(* Slot::Release gives back what the slot holds, when its hash is not 0.   *)
AfterRelease(count, s) ==
  IF s.hash # Null /\ s.ref # Null THEN [count EXCEPT ![s.ref] = @ - 1] ELSE count

(* The same for the slots at the positions in I.                           *)
AfterReleases(count, slots, I) ==
  [l \in Listeners |->
     count[l] - Cardinality({i \in I : slots[i].hash # Null /\ slots[i].ref = l})]

(* A scope: its two iterators; whether they still point into an array that *)
(* was replaced; and for the properties, the slots the emission still has  *)
(* to call (todo), as long as nothing happened that the code is known not  *)
(* to handle (calm).                                                       *)
ScopeOf(slots, used) ==
  [itr |-> 0, end |-> used, stale |-> FALSE, calm |-> TRUE,
   todo |-> [i \in 1 .. used |-> slots[i - 1]]]

(* A scope after an operation that leaves it the slots in owed to call, if *)
(* the operation is one it is known to survive.                            *)
Settle(f, survives, owed) ==
  IF f.calm /\ survives
    THEN [f EXCEPT !.todo = owed]
    ELSE [f EXCEPT !.calm = FALSE, !.todo = <<>>]

(* A loop: its state before each of n passes, numbered from 0, and after.   *)
Loop(Pass(_, _), start, n) ==
  LET after[k \in 0 .. n] == IF k = 0 THEN start ELSE Pass(after[k - 1], k - 1)
  IN  after

(* Those of a sequence of slots whose hash is in M, in their order.        *)
TakePass(s, M, t, i) == IF s[i + 1].hash \in M THEN Append(t, s[i + 1]) ELSE t

Those(s, M) == Loop(LAMBDA t, i : TakePass(s, M, t, i), <<>>, Len(s))[Len(s)]

-----------------------------------------------------------------------------
(* The adjustments of a scope.  All of them go from m_Scope to its mChild, *)
(* and the innermost scope has none: no other scope is told.  In a stale   *)
(* scope they compare pointers into different arrays, and whatever comes   *)
(* out moves both iterators or none; the next access is undefined as it is.*)

(* A slip in Scope::Descend: the iterator stays where it is.               *)
DescendEndOnly(f, p) ==
  IF f.stale \/ p > f.end THEN f ELSE [f EXCEPT !.end = @ - 1]

(* Scope::Descend: the slot at p was removed.                              *)
Descend(f, p) ==
  IF f.stale \/ p > f.end
    THEN f
    ELSE [f EXCEPT !.itr = IF p < @ \/ @ > f.end THEN @ - 1 ELSE @,
                   !.end = @ - 1]

(* Scope::Lead: the slot at p was moved to the front.                      *)
ScopeLead(f, p) ==
  CASE f.stale   -> f
    [] ~ f.stale /\ p <= f.end ->
         IF p >= f.itr /\ f.itr # f.end THEN [f EXCEPT !.itr = @ + 1] ELSE f
    [] ~ f.stale /\ p > f.end ->
         [f EXCEPT !.itr = @ + 1, !.end = @ + 1]

(* Scope::Tail: the slot at p was moved to the back.                       *)
ScopeTail(f, p) ==
  IF f.stale \/ p > f.end \/ f.itr = f.end
    THEN f
    ELSE [f EXCEPT !.itr = IF p < @ THEN @ - 1 ELSE @, !.end = @ - 1]

(* Scope::Finish.                                                          *)
Finish(f) == [f EXCEPT !.itr = f.end]

(* The slot at p was dealt with: m_Scope, if there is one, is told so.     *)
Told(fs, Adjust(_, _), p) ==
  [k \in DOMAIN fs |-> IF k = Len(fs) THEN Adjust(fs[k], p) ELSE fs[k]]

-----------------------------------------------------------------------------
(* The algorithms on the array.                                            *)

(* RemoveIf: slots that match are released, the others are moved down over *)
(* them.  gone are the positions Descend is called with.  m_Used is not    *)
(* touched, here or by the callers.                                        *)
RemovePass(M, st, i) ==
  IF st.slots[i].hash \in M
    THEN [st EXCEPT !.slots[i] = Empty,
                    !.count = AfterRelease(@, st.slots[i]),
                    !.scopes = Told(@, Descend, i),
                    !.gone = @ \cup {i}]
    ELSE IF i = st.dest
      THEN [st EXCEPT !.dest = @ + 1]
      ELSE [st EXCEPT !.slots = [@ EXCEPT ![st.dest] = st.slots[i],
                                          ![i] = MovedFrom(st.slots[i])],
                      !.count = AfterRelease(@, st.slots[st.dest]),
                      !.dest = @ + 1]

RemoveIf(slots, used, M, count, fs) ==
  Loop(LAMBDA st, i : RemovePass(M, st, i),
       [slots |-> slots, dest |-> 0, count |-> count, scopes |-> fs, gone |-> {}],
       used)[used]

(* A slip in LeadIf: the slot is exchanged with the one in front.          *)
RotateDownSwap(slots, front, itr) ==
  [slots EXCEPT ![front] = slots[itr], ![itr] = slots[front]]

(* The slot at itr goes to front, those between move one up.               *)
RotateDown(slots, front, itr) ==
  [i \in DOMAIN slots |->
     IF i = front THEN slots[itr]
     ELSE IF i \in front + 1 .. itr THEN slots[i - 1] ELSE slots[i]]

(* The slot at itr goes to back, those between move one down.              *)
RotateUp(slots, itr, back) ==
  [i \in DOMAIN slots |->
     IF i = back THEN slots[itr]
     ELSE IF i \in itr .. back - 1 THEN slots[i + 1] ELSE slots[i]]

(* LeadIf: the slots that match are moved to the front.  moved are the     *)
(* positions Scope::Lead is called with.                                   *)
LeadPass(M, one, append, st, i) ==
  IF st.done \/ st.slots[i].hash \notin M
    THEN st
    ELSE [slots  |-> RotateDown(st.slots, st.front, i),
          scopes |-> IF i = st.front THEN st.scopes ELSE Told(st.scopes, ScopeLead, i),
          moved  |-> IF i = st.front THEN st.moved ELSE st.moved \cup {i},
          front  |-> IF append THEN st.front + 1 ELSE st.front,
          done   |-> one]

LeadIf(slots, used, M, one, append, fs) ==
  Loop(LAMBDA st, i : LeadPass(M, one, append, st, i),
       [slots |-> slots, scopes |-> fs, moved |-> {}, front |-> 0, done |-> FALSE],
       used)[used]

(* TailIf, which starts at the slot behind the last one in use.  The slot  *)
(* next to the tail is exchanged with the front.  When the array is full   *)
(* the slot it starts at is no slot: whether it matches is anybody's guess,*)
(* and moving something there is undefined.                                *)
TailMove(st, i) ==
  CASE st.back - i = 0 -> st.slots
    [] st.back - i = 1 -> [st.slots EXCEPT ![i] = st.slots[0], ![0] = st.slots[i]]
    [] st.back - i > 1 ->
         IF st.back \in DOMAIN st.slots THEN RotateUp(st.slots, i, st.back) ELSE st.slots

TailPass(M, one, append, guess, st, i) ==
  IF st.done \/ ~ IF i \in DOMAIN st.slots THEN st.slots[i].hash \in M ELSE guess
    THEN st
    ELSE [slots  |-> TailMove(st, i),
          scopes |-> IF i = st.back THEN st.scopes ELSE Told(st.scopes, ScopeTail, i),
          moved  |-> IF i = st.back THEN st.moved ELSE st.moved \cup {i},
          back   |-> IF append THEN st.back - 1 ELSE st.back,
          done   |-> one,
          wild   |-> st.wild \/ (st.back - i > 1 /\ st.back \notin DOMAIN st.slots)]

TailIf(slots, used, M, one, append, guess, fs) ==
  Loop(LAMBDA st, n : TailPass(M, one, append, guess, st, used - n),
       [slots |-> slots, scopes |-> fs, moved |-> {}, back |-> used,
        done |-> FALSE, wild |-> FALSE],
       used + 1)[used + 1]

-----------------------------------------------------------------------------
(* The operations, as functions of the signal's state, for those that call *)
(* one another.                                                            *)

Now == [slots |-> m_Slots, used |-> m_Used, size |-> m_Size,
        refs |-> refs, scopes |-> scopes]

Becomes(st) ==
  /\ m_Slots' = st.slots
  /\ m_Used'  = st.used
  /\ m_Size'  = st.size
  /\ refs'    = st.refs
  /\ scopes'  = st.scopes

(* A slip in AdjustSlots: the new capacity is not assigned.                *)
AdjustSlotsOnly(st) ==
  IF st.used < st.size
    THEN st
    ELSE [st EXCEPT !.slots = [i \in 0 .. st.size + (st.size + 1) \div 2 - 1 |->
                                 IF i < st.used THEN st.slots[i] ELSE Empty]]

(* AdjustSlots(m_Used + 1), when the array is full: a larger array, to     *)
(* which the innermost scope is moved.  The others point into the old one. *)
AdjustSlots(st) ==
  IF st.used < st.size
    THEN st
    ELSE LET size == st.size + (st.size + 1) \div 2
             top  == Len(st.scopes)
         IN  [st EXCEPT
                !.slots = [i \in 0 .. size - 1 |->
                             IF i < st.used THEN st.slots[i] ELSE Empty],
                !.size = size,
                !.scopes = [k \in 1 .. top |->
                              IF k = top THEN st.scopes[k]
                              ELSE [Settle(st.scopes[k], FALSE, <<>>) EXCEPT !.stale = TRUE]]]

(* Signal::Connect: the listener is swapped into the first unused slot, and*)
(* what that slot held is released with the SignalWrapper.                 *)
Connected(st, l) ==
  LET room == AdjustSlots(st)
  IN  [room EXCEPT !.slots[st.used] = Filled(l),
                   !.used = @ + 1,
                   !.refs = AfterRelease([room.refs EXCEPT ![l] = @ + 1], room.slots[st.used])]

(* Signal::Eliminate, EliminateThis, EliminateFunc and Disconnect.  The    *)
(* scopes come through when the slots they have left to call only move     *)
(* together with their iterators: the innermost one if what goes is behind *)
(* its end or a single slot before it, the others if it is behind theirs.  *)
Eliminated(st, M) ==
  LET r   == RemoveIf(st.slots, st.used, M, st.refs, st.scopes)
      top == Len(st.scopes)
      Survives(k) ==
        LET f == st.scopes[k]
        IN  IF k = top
              THEN \/ \A p \in r.gone : p > f.end
                   \/ \E p \in r.gone : p < f.end /\ r.gone = {p}
              ELSE \A p \in r.gone : p >= f.end
  IN  [st EXCEPT
         !.slots = r.slots,
         !.refs  = r.count,
         !.scopes = [k \in 1 .. top |->
                       Settle(r.scopes[k], Survives(k), Those(st.scopes[k].todo, Hashes \ M))]]

-----------------------------------------------------------------------------
Init ==
  /\ m_Slots = [i \in 0 .. SmbSize - 1 |-> Empty]
  /\ m_Used  = 0
  /\ m_Size  = SmbSize
  /\ refs    = [l \in Listeners |-> 0]
  /\ scopes  = <<>>
  /\ calling = FALSE
  /\ undefined = FALSE

(* Scripts run outside of every emission, or in a listener.                *)
InScript == ~ undefined /\ (scopes = <<>> \/ calling)

Connect(l) ==
  /\ InScript
  /\ m_Used < MaxUsed
  /\ Becomes(Connected(Now, l))
  /\ UNCHANGED <<calling, undefined>>

Eliminate(M) ==
  /\ InScript
  /\ Becomes(Eliminated(Now, M))
  /\ UNCHANGED <<calling, undefined>>

ConnectOnce(l) ==
  /\ InScript
  /\ m_Used < MaxUsed
  /\ Becomes(Connected(Eliminated(Now, {l}), l))
  /\ UNCHANGED <<calling, undefined>>

(* Signal::Lead, LeadThis and LeadFunc.  The scopes come through when only *)
(* slots they have called are moved; the innermost one also when one behind*)
(* its end is moved and none of those it has left to call matches.         *)
Lead(M, one, append) ==
  LET r   == LeadIf(m_Slots, m_Used, M, one, append, scopes)
      top == Len(scopes)
      Survives(k) ==
        LET f == scopes[k]
        IN  \/ \A p \in r.moved : p < f.itr
            \/ /\ k = top
               /\ \E p \in r.moved : p > f.end /\ r.moved = {p}
               /\ \A j \in DOMAIN f.todo : f.todo[j].hash \notin M
  IN  /\ InScript
      /\ m_Used > 1
      /\ m_Slots' = r.slots
      /\ scopes' = [k \in 1 .. top |-> Settle(r.scopes[k], Survives(k), scopes[k].todo)]
      /\ UNCHANGED <<m_Used, m_Size, refs, calling, undefined>>

(* Signal::Tail, TailThis and TailFunc.                                    *)
Tailing(M, one, append, guess) ==
  LET r == TailIf(m_Slots, m_Used, M, one, append, guess, scopes)
  IN  /\ InScript
      /\ m_Used > 1
      /\ guess => m_Used = m_Size
      /\ m_Slots' = r.slots
      /\ scopes' = [k \in DOMAIN scopes |->
                      Settle(r.scopes[k], r.moved = {}, scopes[k].todo)]
      /\ undefined' = r.wild
      /\ UNCHANGED <<m_Used, m_Size, refs, calling>>

(* Signal::ClearSlots, "Clear" to scripts.  m_Used stays.                  *)
ClearSlots ==
  /\ InScript
  /\ m_Slots' = [i \in DOMAIN m_Slots |-> IF i < m_Used THEN Empty ELSE m_Slots[i]]
  /\ refs' = AfterReleases(refs, m_Slots, 0 .. m_Used - 1)
  /\ scopes' = [k \in DOMAIN scopes |->
                  IF k = Len(scopes)
                    THEN Settle(Finish(scopes[k]), TRUE, <<>>)
                    ELSE Settle(scopes[k], scopes[k].itr = scopes[k].end, <<>>)]
  /\ UNCHANGED <<m_Used, m_Size, calling, undefined>>

(* Signal::Emit, Query, Consume, Approve, Request, and operator () for the *)
(* plugin's own events, which all walk the slots in the same way.          *)
Emit ==
  /\ InScript
  /\ m_Used # 0
  /\ Len(scopes) < MaxDepth
  /\ scopes' = Append(scopes, ScopeOf(m_Slots, m_Used))
  /\ calling' = FALSE
  /\ UNCHANGED <<m_Slots, m_Used, m_Size, refs, undefined>>

-----------------------------------------------------------------------------
(* The loop of the innermost emission.                                     *)

Emitting == ~ undefined /\ scopes # <<>> /\ ~ calling

Scope == Last(scopes)

(* An emission ends, and the listener it was made by, if any, goes on.     *)
LeaveScope ==
  /\ scopes' = Front(scopes)
  /\ calling' = (Len(scopes) > 1)
  /\ UNCHANGED <<m_Slots, m_Used, m_Size, refs, undefined>>

EmitEnd ==
  /\ Emitting
  /\ Scope.itr = Scope.end
  /\ LeaveScope

(* The iterator points into memory that is no array of slots any more.     *)
EmitUndefined ==
  /\ Emitting
  /\ Scope.itr # Scope.end
  /\ Scope.stale \/ Scope.itr \notin DOMAIN m_Slots
  /\ undefined' = TRUE
  /\ UNCHANGED <<m_Slots, m_Used, m_Size, refs, scopes, calling>>

AtSlot ==
  /\ Emitting
  /\ Scope.itr # Scope.end
  /\ ~ Scope.stale /\ Scope.itr \in DOMAIN m_Slots

(* A slot without a function: sq_call fails, and the emission with it.     *)
CallNull ==
  /\ AtSlot
  /\ m_Slots[Scope.itr].ref = Null
  /\ LeaveScope

CallSlot ==
  /\ AtSlot
  /\ m_Slots[Scope.itr].ref # Null
  /\ scopes' = [scopes EXCEPT ![Len(scopes)] =
                  [Scope EXCEPT !.itr = @ + 1, !.todo = IF @ = <<>> THEN @ ELSE Tail(@)]]
  /\ calling' = TRUE
  /\ UNCHANGED <<m_Slots, m_Used, m_Size, refs, undefined>>

(* The listener returns.  The emission stops when it failed, consumed the  *)
(* signal (Consume), denied it (Approve) or answered it (Request).         *)
CallReturn(stop) ==
  /\ ~ undefined
  /\ calling
  /\ IF stop
       THEN LeaveScope
       ELSE /\ calling' = FALSE
            /\ UNCHANGED <<m_Slots, m_Used, m_Size, refs, scopes, undefined>>

-----------------------------------------------------------------------------
Next ==
  \/ \E l \in Listeners : Connect(l) \/ ConnectOnce(l)
  \/ \E M \in Matchers : Eliminate(M)
  \/ \E M \in Matchers, one, append \in BOOLEAN : Lead(M, one, append)
  \/ \E M \in Matchers, one, append, guess \in BOOLEAN :
       Tailing(M, one, append, guess)
  \/ ClearSlots
  \/ Emit
  \/ EmitEnd
  \/ EmitUndefined
  \/ CallNull
  \/ CallSlot
  \/ \E stop \in BOOLEAN : CallReturn(stop)

Spec == Init /\ [][Next]_vars

-----------------------------------------------------------------------------
TypeOK ==
  /\ m_Size \in Nat
  /\ m_Slots \in [0 .. m_Size - 1 -> Slot]
  /\ m_Used \in 0 .. m_Size
  /\ refs \in [Listeners -> Nat]
  /\ scopes \in Seq([itr : Int, end : Int, stale : BOOLEAN, calm : BOOLEAN,
                     todo : Seq(Slot)])
  /\ calling \in BOOLEAN
  /\ undefined \in BOOLEAN

(* The references the signal holds to a listener are those in its slots:   *)
(* none is given back twice, and none is forgotten when slots are moved    *)
(* over one another, swapped past the end or carried to a larger array.    *)
RefsAreSlots ==
  \A l \in Listeners :
    refs[l] = Cardinality({i \in DOMAIN m_Slots : m_Slots[i].ref = l})

(* An emission goes on with the slots that were connected when it began and*)
(* have not been disconnected since, each once and in their order, and ends*)
(* there, through all that listeners do to the signal but what the comments*)
(* on Eliminated, Lead and AdjustSlots except.                             *)
EmitsWhatIsOwed ==
  \A k \in DOMAIN scopes :
    LET f == scopes[k]
    IN  f.calm => /\ ~ f.stale
                  /\ f.itr <= f.end /\ f.end <= m_Used
                  /\ f.todo = [j \in 1 .. f.end - f.itr |-> m_Slots[f.itr + j - 1]]

(* The slots in use, as a sequence, and the order a move to the front      *)
(* should give them.                                                       *)
Used(slots) == [i \in 1 .. m_Used |-> slots[i - 1]]

Led(M, one, append) ==
  LET all    == Used(m_Slots)
      hits   == {i \in DOMAIN all : all[i].hash \in M}
      led    == Those(all, M)
      first  == CHOOSE i \in hits : \A j \in hits : i <= j
  IN  IF one /\ hits # {}
        THEN <<all[first]>> \o RemoveAt(all, first)
        ELSE (IF append THEN led ELSE Reverse(led)) \o Those(all, Hashes \ M)

(* "Move all occurrences of the specified slot to the front", in their     *)
(* order or, without append, reversed, or with one the first only, while   *)
(* the others keep theirs.                                                 *)
LeadOrder ==
  \A M \in Matchers, one, append \in BOOLEAN :
    Used(LeadIf(m_Slots, m_Used, M, one, append, scopes).slots) = Led(M, one, append)

(* "The number of stored slots that are valid" (Signal.hpp:362): every slot*)
(* in use has a listener.                                                  *)
UsedAreValid == \A i \in 0 .. m_Used - 1 : m_Slots[i].ref # Null

(* "Update the iterators from current scopes" (Signal.cpp:654): when the   *)
(* array is replaced, no emission in progress is left in the old one.      *)
ScopesUpdated == \A k \in DOMAIN scopes : ~ scopes[k].stale

(* "Adjust the iterators to account for the fact that the specified slot   *)
(* was removed" (Signal.hpp:349), the first of them mEnd, "where the       *)
(* execution ends" (333): an emission is never past its end.               *)
EndsAtEnd == \A k \in DOMAIN scopes : scopes[k].itr <= scopes[k].end
=============================================================================
