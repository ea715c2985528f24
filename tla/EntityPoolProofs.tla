-------------------------- MODULE EntityPoolProofs ---------------------------
(***************************************************************************)
(* Proofs about EntityPool, for pools of any size, any handles and calls   *)
(* nested to any depth.                                                    *)
(***************************************************************************)
EXTENDS EntityPool, SequenceTheorems, TLAPS

(* Calls in progress: what a push and a return do to them.                 *)

(* One more call within all others.                                        *)
LEMMA CallProperties ==
  ASSUME NEW rest \in Seq(Frames), Nested(rest),
         NEW fn \in Calls, NEW i \in 0 .. PoolSize, NEW flag \in BOOLEAN,
         \A g \in CallsOf(rest) : Within([fn |-> fn, id |-> i, flag |-> flag], g)
  PROVE  /\ Call(fn, i, flag, rest) \in Seq(Frames)
         /\ Nested(Call(fn, i, flag, rest))
         /\ CallsOf(Call(fn, i, flag, rest))
              = {[fn |-> fn, id |-> i, flag |-> flag]} \cup CallsOf(rest)
<1> DEFINE f == [fn |-> fn, id |-> i, flag |-> flag]
           s == <<f>> \o rest
<1>1. f \in Frames
  BY DEF Frames
<1>2. <<f>> \in Seq(Frames) /\ Len(<<f>>) = 1 /\ <<f>>[1] = f
  BY <1>1
<1>3. /\ s \in Seq(Frames)
      /\ Len(s) = Len(rest) + 1
      /\ \A k \in 1 .. Len(rest) + 1 : s[k] = IF k <= 1 THEN f ELSE rest[k - 1]
  <2> HIDE DEF f
  <2>1. QED
    BY <1>2, ConcatProperties
<1> HIDE DEF f, s
<1>4. DOMAIN s = 1 .. Len(rest) + 1 /\ DOMAIN rest = 1 .. Len(rest) /\ Len(rest) \in Nat
  BY <1>3
<1>5. Nested(s)
  <2> SUFFICES ASSUME NEW j \in DOMAIN s, NEW k \in DOMAIN s, j < k
               PROVE  Within(s[j], s[k])
    BY DEF Nested
  <2>1. k - 1 \in DOMAIN rest /\ s[k] = rest[k - 1]
    BY <1>3, <1>4
  <2>2. CASE j = 1
    <3>1. s[j] = f /\ s[k] \in CallsOf(rest)
      BY <1>3, <1>4, <2>1, <2>2 DEF CallsOf
    <3>2. QED
      BY <3>1 DEF f
  <2>3. CASE j # 1
    <3>1. j - 1 \in DOMAIN rest /\ s[j] = rest[j - 1] /\ j - 1 < k - 1
      BY <1>3, <1>4, <2>3
    <3>2. QED
      BY <2>1, <3>1 DEF Nested
  <2>4. QED
    BY <2>2, <2>3
<1>6. CallsOf(s) = {f} \cup CallsOf(rest)
  <2>1. ASSUME NEW g \in CallsOf(s) PROVE g \in {f} \cup CallsOf(rest)
    <3>1. PICK k \in DOMAIN s : g = s[k]
      BY DEF CallsOf
    <3>2. CASE k = 1
      BY <1>3, <1>4, <3>1, <3>2
    <3>3. CASE k # 1
      <4>1. k - 1 \in DOMAIN rest /\ g = rest[k - 1]
        BY <1>3, <1>4, <3>1, <3>3
      <4>2. QED
        BY <4>1 DEF CallsOf
    <3>4. QED
      BY <3>2, <3>3
  <2>2. f \in CallsOf(s)
    BY <1>3, <1>4 DEF CallsOf
  <2>3. ASSUME NEW g \in CallsOf(rest) PROVE g \in CallsOf(s)
    <3>1. PICK k \in DOMAIN rest : g = rest[k]
      BY DEF CallsOf
    <3>2. k + 1 \in DOMAIN s /\ s[k + 1] = g
      BY <1>3, <1>4, <3>1
    <3>3. QED
      BY <3>2 DEF CallsOf
  <2>4. QED
    BY <2>1, <2>2, <2>3
<1>7. QED
  BY <1>3, <1>5, <1>6 DEF Call, f, s

(* The calls an innermost call returns to.                                 *)
LEMMA ReturnProperties ==
  ASSUME NEW s \in Seq(Frames), Nested(s), s # <<>>
  PROVE  /\ Head(s) \in Frames /\ Head(s) \in CallsOf(s)
         /\ Tail(s) \in Seq(Frames)
         /\ Nested(Tail(s))
         /\ CallsOf(Tail(s)) \subseteq CallsOf(s)
         /\ \A g \in CallsOf(Tail(s)) : Within(Head(s), g)
<1>1. /\ Head(s) \in Frames /\ Tail(s) \in Seq(Frames)
      /\ Len(Tail(s)) = Len(s) - 1
      /\ \A k \in 1 .. Len(Tail(s)) : Tail(s)[k] = s[k + 1]
  BY HeadTailProperties
<1>2. Len(s) \in Nat \ {0} /\ DOMAIN s = 1 .. Len(s) /\ Head(s) = s[1]
  BY EmptySeq
<1> DEFINE t == Tail(s)
<1>3. DOMAIN t = 1 .. Len(s) - 1
  BY <1>1, <1>2
<1>4. \A k \in DOMAIN t : k + 1 \in DOMAIN s /\ t[k] = s[k + 1]
  BY <1>1, <1>2, <1>3
<1> HIDE DEF t
<1>5. Nested(t)
  <2> SUFFICES ASSUME NEW j \in DOMAIN t, NEW k \in DOMAIN t, j < k
               PROVE  Within(t[j], t[k])
    BY DEF Nested
  <2>1. j + 1 < k + 1
    BY <1>2, <1>3
  <2>2. QED
    BY <1>4, <2>1 DEF Nested
<1>6. ASSUME NEW g \in CallsOf(t) PROVE g \in CallsOf(s) /\ Within(Head(s), g)
  <2>1. PICK k \in DOMAIN t : g = t[k]
    BY DEF CallsOf
  <2>2. k + 1 \in DOMAIN s /\ 1 \in DOMAIN s /\ 1 < k + 1 /\ g = s[k + 1]
    BY <1>2, <1>3, <1>4, <2>1
  <2>3. QED
    BY <1>2, <2>2 DEF CallsOf, Nested
<1>7. Head(s) \in CallsOf(s)
  BY <1>2 DEF CallsOf
<1>8. QED
  BY <1>1, <1>5, <1>6, <1>7 DEF t

(* The calls left when an exception ends the innermost two, or all there   *)
(* are.                                                                    *)
LEMMA ThrowProperties ==
  ASSUME NEW s \in Seq(Frames), Nested(s)
  PROVE  /\ SubSeq(s, 3, Len(s)) \in Seq(Frames)
         /\ Nested(SubSeq(s, 3, Len(s)))
         /\ CallsOf(SubSeq(s, 3, Len(s))) \subseteq CallsOf(s)
<1> DEFINE t == SubSeq(s, 3, Len(s))
<1>1. Len(s) \in Nat /\ DOMAIN s = 1 .. Len(s)
  OBVIOUS
<1>2. \A k \in DOMAIN s : s[k] \in Frames
  OBVIOUS
<1>3. /\ t \in Seq(Frames)
      /\ DOMAIN t \subseteq 1 .. Len(s)
      /\ \A k \in DOMAIN t : k + 2 \in DOMAIN s /\ t[k] = s[k + 2]
  <2>1. CASE Len(s) < 3
    <3>1. t = <<>>
      BY <1>1, <2>1, SubSeqEmpty
    <3>2. QED
      BY <3>1
  <2>2. CASE Len(s) >= 3
    <3>1. /\ Len(t) = Len(s) - 2
          /\ t \in Seq(Frames)
          /\ \A k \in 1 .. Len(t) : t[k] = s[k + 2]
      BY <1>1, <1>2, <2>2
    <3>2. DOMAIN t = 1 .. Len(s) - 2
      BY <3>1
    <3>3. QED
      BY <1>1, <2>2, <3>1, <3>2
  <2>3. QED
    BY <1>1, <2>1, <2>2
<1> HIDE DEF t
<1>4. Nested(t)
  <2> SUFFICES ASSUME NEW j \in DOMAIN t, NEW k \in DOMAIN t, j < k
               PROVE  Within(t[j], t[k])
    BY DEF Nested
  <2>1. j \in Int /\ k \in Int /\ j + 2 < k + 2
    BY <1>1, <1>3
  <2>2. QED
    BY <1>3, <2>1 DEF Nested
<1>5. CallsOf(t) \subseteq CallsOf(s)
  BY <1>3 DEF CallsOf
<1>6. QED
  BY <1>3, <1>4, <1>5 DEF t

(* Dropping a signal only changes what its emissions return to.            *)
LEMMA DropProperties ==
  ASSUME NEW s \in Seq(Frames), Nested(s), NEW i \in Ids
  PROVE  /\ DropEvents(i, s) \in Seq(Frames)
         /\ Nested(DropEvents(i, s))
         /\ \A g \in CallsOf(DropEvents(i, s)) :
              g \in CallsOf(s) \/ (g.fn = "DestroyedFreed" /\ g.id = i)
<1> DEFINE t == DropEvents(i, s)
<1>1. /\ Len(s) \in Nat /\ DOMAIN s = 1 .. Len(s)
      /\ \A k \in DOMAIN s : s[k] \in Frames
  OBVIOUS
<1>2. DOMAIN t = DOMAIN s
  BY DEF DropEvents
<1>3. ASSUME NEW k \in DOMAIN s
      PROVE  /\ t[k] \in Frames /\ t[k].id = s[k].id /\ t[k].flag = s[k].flag
             /\ \/ t[k] = s[k]
                \/ t[k].fn = "DestroyedFreed" /\ t[k].id = i /\ s[k].fn = "DestroyedOwn"
  BY <1>1, <1>3 DEF DropEvents, Frames, Calls, Emissions
<1> HIDE DEF t
<1>4. t \in Seq(Frames)
  <2>1. t = [k \in 1 .. Len(s) |-> t[k]]
    BY <1>1, <1>2 DEF t, DropEvents
  <2>2. QED
    BY <1>1, <1>3, <2>1, IsASeq
<1>5. Nested(t)
  <2> SUFFICES ASSUME NEW j \in DOMAIN t, NEW k \in DOMAIN t, j < k
               PROVE  Within(t[j], t[k])
    BY DEF Nested
  <2>1. Within(s[j], s[k])
    BY <1>2 DEF Nested
  <2>2. QED
    BY <1>2, <1>3, <2>1 DEF Within, Deleting
<1>6. ASSUME NEW g \in CallsOf(t)
      PROVE  g \in CallsOf(s) \/ (g.fn = "DestroyedFreed" /\ g.id = i)
  BY <1>2, <1>3, <1>6 DEF CallsOf
<1>7. QED
  BY <1>4, <1>5, <1>6 DEF t

-----------------------------------------------------------------------------
(* The parts of the invariant a step disturbs.                             *)

(* The invariant at the start: nothing is allocated, one import is on.     *)
LEMMA InitInv == Init => IInv
<1> SUFFICES ASSUME Init PROVE IInv
  OBVIOUS
<1> USE EntityAssumption DEF Init, Ids
<1>1. <<>> \in Seq(Frames) /\ Nested(<<>>) /\ CallsOf(<<>>) = {}
  BY DEF Nested, CallsOf
<1>2. /\ stack \in Seq(Frames)
      /\ Nested(stack)
      /\ CallsOf(stack) = {[fn |-> "Import", id |-> 0, flag |-> FALSE]}
  <2>1. stack = Call("Import", 0, FALSE, <<>>)
    OBVIOUS
  <2>2. 0 \in 0 .. PoolSize /\ "Import" \in Calls /\ FALSE \in BOOLEAN
    BY DEF Calls
  <2>3. \A g \in CallsOf(<<>>) : Within([fn |-> "Import", id |-> 0, flag |-> FALSE], g)
    BY ONLY <1>1
  <2> DEFINE s == Call("Import", 0, FALSE, <<>>)
  <2>4. /\ s \in Seq(Frames) /\ Nested(s)
        /\ CallsOf(s) = {[fn |-> "Import", id |-> 0, flag |-> FALSE]} \cup CallsOf(<<>>)
    BY ONLY <1>1, <2>2, <2>3, CallProperties
  <2>5. QED
    BY ONLY <1>1, <2>1, <2>4
<1>3. TypeOK
  BY <1>2 DEF TypeOK
<1>4. HandleBinding /\ HandleKept /\ TasksHaveEntity
  BY DEF HandleBinding, HandleKept, TasksHaveEntity
<1>5. \A f \in CallsOf(stack) : InPool(f) /\ DeletionPending(f)
  <2>1. \A f \in CallsOf(stack) : f.fn = "Import"
    BY ONLY <1>2
  <2>2. QED
    BY ONLY <2>1 DEF InPool, DeletionPending, Deleting
<1>6. QED
  BY <1>2, <1>3, <1>4, <1>5 DEF IInv

(* A step that changes nothing but the calls in progress.                  *)
LEMMA StackInv ==
  ASSUME IInv, UNCHANGED <<pool, server>>, ours' \subseteq Ids, undefined' \in BOOLEAN,
         stack' \in Seq(Frames), Nested(stack'),
         \A f \in CallsOf(stack') : InPool(f) /\ DeletionPending(f)
  PROVE  IInv'
<1>1. TypeOK'
  BY DEF IInv, TypeOK, pool
<1>2. HandleBinding' /\ HandleKept' /\ TasksHaveEntity'
  BY DEF IInv, HandleBinding, HandleKept, TasksHaveEntity, pool
<1>3. \A f \in CallsOf(stack') : InPool(f) /\ DeletionPending(f)'
  BY DEF DeletionPending, IsValid, pool
<1>4. QED
  BY <1>1, <1>2, <1>3 DEF IInv, CallsOf, Nested, InPool

(* What holds of the innermost call and of those it returns to.            *)
LEMMA RunningProperties ==
  ASSUME IInv, NEW fn \in Calls, In(fn)
  PROVE  /\ stack # <<>>
         /\ Head(stack) \in Frames /\ Head(stack).fn = fn
         /\ InPool(Head(stack)) /\ DeletionPending(Head(stack))
         /\ Tail(stack) \in Seq(Frames) /\ Nested(Tail(stack))
         /\ \A g \in CallsOf(Tail(stack)) :
              g \in Frames /\ Within(Head(stack), g) /\ InPool(g) /\ DeletionPending(g)
<1>1. stack # <<>> /\ Head(stack).fn = fn
  BY DEF In, Running, Calls, Emissions
<1>2. stack \in Seq(Frames) /\ Nested(stack)
  BY DEF IInv, TypeOK
<1>3. \A g \in CallsOf(Tail(stack)) : g \in Frames
  BY <1>1, <1>2, ReturnProperties DEF CallsOf
<1>4. QED
  BY <1>1, <1>2, <1>3, ReturnProperties DEF IInv

(* While a script runs, every Destroy that goes on is a deletion.          *)
LEMMA ScriptProperties ==
  ASSUME IInv, ScriptRuns
  PROVE  /\ stack \in Seq(Frames) /\ Nested(stack)
         /\ \A g \in CallsOf(stack) :
              /\ g \in Frames /\ InPool(g) /\ DeletionPending(g)
              /\ g.fn = "Delete" => g.flag
<1>1. stack \in Seq(Frames) /\ Nested(stack)
  BY DEF IInv, TypeOK
<1>2. \A g \in CallsOf(stack) : g \in Frames /\ InPool(g) /\ DeletionPending(g)
  BY <1>1 DEF IInv, CallsOf
<1>3. ASSUME NEW g \in CallsOf(stack), g.fn = "Delete" PROVE g.flag
  <2>1. PICK k \in DOMAIN stack : g = stack[k]
    BY DEF CallsOf
  <2>2. stack # <<>> /\ Head(stack) = stack[1] /\ 1 \in DOMAIN stack /\ k \in Nat \ {0}
    BY <1>1, <2>1
  <2>3. Head(stack).fn # "Delete"
    BY <2>2 DEF ScriptRuns, Running, Emissions
  <2>4. 1 < k
    BY <1>3, <2>1, <2>2, <2>3
  <2>5. QED
    BY <1>1, <1>3, <2>1, <2>2, <2>4 DEF Nested, Within
<1>4. QED
  BY <1>1, <1>2, <1>3

(* AllocBlip, called where no entity of that identifier is being deleted.  *)
LEMMA AllocInv ==
  ASSUME IInv, NEW i \in Ids, NEW owned \in BOOLEAN, NEW rest \in Seq(Frames),
         Nested(rest),
         \A g \in CallsOf(rest) : /\ InPool(g) /\ DeletionPending(g)
                                  /\ g.fn = "Delete" => g.flag,
         Alloc(i, owned, rest), UNCHANGED <<server, ours, undefined>>
  PROVE  IInv'
<1> USE EntityAssumption
<1>1. CASE IsValid(i)
  BY <1>1, StackInv DEF Alloc, IInv, TypeOK
<1>2. CASE ~IsValid(i)
  <2> DEFINE f == [fn |-> "Created", id |-> i, flag |-> FALSE]
  <2>1. PICK h \in Handles :
          /\ m_ID[h] = -1
          /\ m_ID' = [m_ID EXCEPT ![h] = i]
          /\ mInst' = [mInst EXCEPT ![i] = h]
          /\ mID' = [mID EXCEPT ![i] = i]
          /\ mFlags' = [mFlags EXCEPT ![i] = AllocFlags(i, owned)]
          /\ stack' = Call("Created", i, FALSE, rest)
          /\ UNCHANGED tasks
    BY <1>2 DEF Alloc
  <2>2. mID[i] = -1 /\ i \in 0 .. PoolSize /\ i # -1
    BY <1>2 DEF IsValid, Ids
  <2>3. \A g \in CallsOf(rest) : g.fn = "Delete" => g.id # i
    BY <2>2 DEF DeletionPending, IsValid
  <2>4. \A g \in CallsOf(rest) : Within(f, g)
    BY <2>3 DEF Within, Deleting
  <2>5. /\ stack' \in Seq(Frames) /\ Nested(stack')
        /\ CallsOf(stack') = {f} \cup CallsOf(rest)
    BY <2>1, <2>2, <2>4, CallProperties DEF Calls, Emissions
  <2>6. AllocFlags(i, owned) \in SUBSET Flags
    BY DEF AllocFlags, Flags, IInv, TypeOK
  <2>7. TypeOK'
    BY <2>1, <2>5, <2>6 DEF IInv, TypeOK
  <2>8. HandleBinding'
    <3> SUFFICES ASSUME NEW q \in Handles, m_ID'[q] # -1
                 PROVE  mID'[m_ID'[q]] = m_ID'[q] /\ mInst'[m_ID'[q]] = q
      BY DEF HandleBinding
    <3>1. CASE q = h
      BY <2>1, <3>1 DEF IInv, TypeOK
    <3>2. CASE q # h
      <4>1. m_ID'[q] = m_ID[q] /\ m_ID[q] \in Ids /\ m_ID[q] # i
        BY <2>1, <2>2, <3>2 DEF IInv, TypeOK, HandleBinding
      <4>2. QED
        BY <2>1, <4>1 DEF IInv, TypeOK, HandleBinding
    <3>3. QED
      BY <3>1, <3>2
  <2>9. HandleKept'
    <3> SUFFICES ASSUME NEW j \in Ids, mInst'[j] # Null
                 PROVE  mID'[j] = j /\ m_ID'[mInst'[j]] = j
      BY DEF HandleKept
    <3>1. CASE j = i
      BY <2>1, <3>1 DEF IInv, TypeOK
    <3>2. CASE j # i
      <4>1. mInst[j] # Null /\ mInst[j] \in Handles /\ m_ID[mInst[j]] = j /\ mID[j] = j
        BY <2>1, <3>2 DEF IInv, TypeOK, HandleKept
      <4>2. mInst[j] # h /\ j # -1
        BY <2>1, <4>1 DEF Ids
      <4>3. QED
        BY <2>1, <3>2, <4>1, <4>2 DEF IInv, TypeOK
    <3>3. QED
      BY <3>1, <3>2
  <2>10. TasksHaveEntity'
    BY <2>1 DEF IInv, TypeOK, TasksHaveEntity
  <2>11. \A g \in CallsOf(stack') : InPool(g) /\ DeletionPending(g)'
    <3>1. InPool(f) /\ DeletionPending(f)'
      BY DEF InPool, DeletionPending, Deleting
    <3>2. ASSUME NEW g \in CallsOf(rest) PROVE DeletionPending(g)'
      <4>1. g.fn = "Delete" => g.id # i
        BY <2>3
      <4>2. g.fn = "Delete" => /\ mInst'[g.id] = mInst[g.id] /\ mID'[g.id] = mID[g.id]
                               /\ mFlags'[g.id] = mFlags[g.id]
        BY <2>1, <4>1 DEF IInv, TypeOK
      <4>3. QED
        BY <4>2 DEF DeletionPending, Deleting, IsValid
    <3>3. QED
      BY <2>5, <3>1, <3>2
  <2>12. QED
    BY <2>5, <2>7, <2>8, <2>9, <2>10, <2>11 DEF IInv, InPool, Nested, CallsOf
<1>3. QED
  BY <1>1, <1>2

(* A step that only makes one more call, or another one, within `rest`.    *)
LEMMA PushInv ==
  ASSUME IInv, UNCHANGED <<pool, server, ours, undefined>>,
         NEW fn \in Calls, NEW i \in 0 .. PoolSize, NEW flag \in BOOLEAN,
         NEW rest \in Seq(Frames), Nested(rest),
         \A g \in CallsOf(rest) :
           /\ InPool(g) /\ DeletionPending(g)
           /\ Within([fn |-> fn, id |-> i, flag |-> flag], g),
         InPool([fn |-> fn, id |-> i, flag |-> flag]),
         DeletionPending([fn |-> fn, id |-> i, flag |-> flag]),
         stack' = Call(fn, i, flag, rest)
  PROVE  IInv'
<1>1. /\ stack' \in Seq(Frames) /\ Nested(stack')
      /\ CallsOf(stack') = {[fn |-> fn, id |-> i, flag |-> flag]} \cup CallsOf(rest)
  BY CallProperties
<1>2. ours' \subseteq Ids /\ undefined' \in BOOLEAN
  BY DEF IInv, TypeOK
<1>3. QED
  BY <1>1, <1>2, StackInv

(* BlipInst::Destroy, called where the instance is not being deleted.      *)
LEMMA DestroyInv ==
  ASSUME IInv, NEW i \in Ids, NEW destroy \in BOOLEAN, NEW rest \in Seq(Frames),
         Nested(rest),
         \A g \in CallsOf(rest) : /\ InPool(g) /\ DeletionPending(g)
                                  /\ g.fn = "Delete" => g.flag /\ g.id # i,
         Destroy(i, destroy, rest), UNCHANGED <<pool, server, ours, undefined>>
  PROVE  IInv'
<1>1. PICK fn \in {"DestroyedOwn", "Release"} : stack' = Call(fn, i, destroy, rest)
  BY DEF Destroy
<1> DEFINE f == [fn |-> fn, id |-> i, flag |-> destroy]
<1>2. i \in 0 .. PoolSize /\ fn \in Calls
  BY EntityAssumption DEF Ids, Calls, Emissions
<1>3. InPool(f) /\ DeletionPending(f)
  BY DEF InPool, DeletionPending, Deleting
<1>4. \A g \in CallsOf(rest) : Within(f, g)
  BY DEF Within, Deleting
<1>5. QED
  BY <1>1, <1>2, <1>3, <1>4, PushInv

(* Between two callbacks no call is in progress.                           *)
LEMMA IdleProperties == IInv /\ In("Idle") => stack = <<>>
<1> SUFFICES ASSUME IInv, In("Idle"), stack # <<>> PROVE FALSE
  OBVIOUS
<1>1. stack \in Seq(Frames) /\ Nested(stack)
  BY DEF IInv, TypeOK
<1>2. Head(stack) \in Frames
  BY <1>1, ReturnProperties
<1>3. QED
  BY <1>2 DEF In, Running, Frames, Calls, Emissions

(* No calls in progress.                                                   *)
LEMMA NoCalls == <<>> \in Seq(Frames) /\ Nested(<<>>) /\ CallsOf(<<>>) = {}
BY DEF Nested, CallsOf

-----------------------------------------------------------------------------
(* One lemma per operation, or for those that return alike.                *)

(* A listener, or all of them, have returned: what it returns to goes on.  *)
LEMMA ReturnInv ==
  ASSUME IInv, NEW fn \in Calls, Returns(fn, Tail(stack)) PROVE IInv'
<1>1. In(fn)
  BY DEF Returns
<1>2. /\ Tail(stack) \in Seq(Frames) /\ Nested(Tail(stack))
      /\ \A g \in CallsOf(Tail(stack)) : InPool(g) /\ DeletionPending(g)
  BY <1>1, RunningProperties
<1>3. QED
  BY <1>2, StackInv DEF Returns, IInv, TypeOK

(* Destroy goes from one emission to the next, and on to the release.      *)
LEMMA DestroyedReturnsInv ==
  ASSUME IInv, NEW fn \in {"DestroyedOwn", "DestroyedFreed", "DestroyedAll"},
         NEW to \in {"DestroyedAll", "Release"},
         Returns(fn, Call(to, Head(stack).id, Head(stack).flag, Tail(stack)))
  PROVE  IInv'
<1> DEFINE i == Head(stack).id
           flag == Head(stack).flag
           f == [fn |-> to, id |-> i, flag |-> flag]
<1>1. In(fn) /\ fn \in Calls /\ to \in Calls
  BY DEF Returns, Calls, Emissions
<1>2. /\ Head(stack) \in Frames /\ Head(stack).fn = fn /\ InPool(Head(stack))
      /\ Tail(stack) \in Seq(Frames) /\ Nested(Tail(stack))
      /\ \A g \in CallsOf(Tail(stack)) :
           Within(Head(stack), g) /\ InPool(g) /\ DeletionPending(g)
  BY <1>1, RunningProperties
<1>3. i \in 0 .. PoolSize /\ flag \in BOOLEAN /\ i \in Ids
  BY <1>2 DEF Frames, InPool
<1>4. InPool(f) /\ DeletionPending(f)
  BY <1>3 DEF InPool, DeletionPending, Deleting
<1>5. \A g \in CallsOf(Tail(stack)) : Within(f, g)
  BY <1>2 DEF Within, Deleting
<1>6. stack' = Call(to, i, flag, Tail(stack)) /\ UNCHANGED <<pool, server, ours, undefined>>
  BY DEF Returns
<1> HIDE DEF i, flag
<1>7. QED
  BY <1>1, <1>2, <1>3, <1>4, <1>5, <1>6, PushInv

(* A listener of a creation throws.                                        *)
LEMMA CreatedThrowsInv == IInv /\ CreatedThrows => IInv'
<1> SUFFICES ASSUME IInv, CreatedThrows PROVE IInv'
  OBVIOUS
<1>1. stack \in Seq(Frames) /\ Nested(stack)
  BY DEF IInv, TypeOK
<1>2. stack' \in Seq(Frames) /\ Nested(stack') /\ CallsOf(stack') \subseteq CallsOf(stack)
  BY <1>1, ThrowProperties DEF CreatedThrows, Returns
<1>3. QED
  BY <1>2, StackInv DEF CreatedThrows, Returns, IInv, TypeOK

(* One turn of ImportBlips: nothing encloses it.                           *)
LEMMA ImportInv == IInv /\ Import => IInv'
<1> SUFFICES ASSUME IInv, Import PROVE IInv'
  OBVIOUS
<1> DEFINE i == Head(stack).id
           rest == Call("Import", i + 1, FALSE, Tail(stack))
           f == [fn |-> "Import", id |-> i + 1, flag |-> FALSE]
<1>1. In("Import") /\ "Import" \in Calls
  BY DEF Import, Calls
<1>2. /\ Head(stack) \in Frames /\ Head(stack).fn = "Import"
      /\ Tail(stack) \in Seq(Frames) /\ Nested(Tail(stack))
      /\ \A g \in CallsOf(Tail(stack)) : Within(Head(stack), g)
  BY <1>1, RunningProperties
<1>3. CallsOf(Tail(stack)) = {}
  BY <1>2 DEF Within
<1>4. i \in 0 .. PoolSize
  BY <1>2 DEF Frames
<1>5. CASE i = PoolSize
  BY <1>2, <1>3, <1>5, StackInv DEF Import, IInv, TypeOK
<1>6. CASE i # PoolSize
  <2>1. i \in Ids /\ i + 1 \in 0 .. PoolSize
    BY <1>4, <1>6, EntityAssumption DEF Ids
  <2>2. rest \in Seq(Frames) /\ Nested(rest) /\ CallsOf(rest) = {f}
    <3>1. \A g \in CallsOf(Tail(stack)) : Within(f, g)
      BY <1>3
    <3> HIDE DEF i
    <3>2. rest \in Seq(Frames) /\ Nested(rest) /\ CallsOf(rest) = {f} \cup CallsOf(Tail(stack))
      BY <1>1, <1>2, <2>1, <3>1, CallProperties
    <3>3. QED
      BY <1>3, <3>2
  <2>3. InPool(f) /\ DeletionPending(f) /\ f.fn # "Delete"
    BY DEF InPool, DeletionPending, Deleting
  <2>4. CASE server[i] # "none"
    <3>1. Alloc(i, FALSE, rest) /\ UNCHANGED <<server, ours, undefined>>
      BY <1>6, <2>4 DEF Import
    <3> HIDE DEF i, rest, f
    <3>2. QED
      BY <2>1, <2>2, <2>3, <3>1, AllocInv
  <2>5. CASE server[i] = "none"
    <3>1. stack' = rest /\ UNCHANGED <<pool, server, ours, undefined>>
      BY <1>6, <2>5 DEF Import
    <3> HIDE DEF i, rest, f
    <3>2. QED
      BY <2>2, <2>3, <3>1, StackInv DEF IInv, TypeOK
  <2>6. QED
    BY <2>4, <2>5
<1>7. QED
  BY <1>5, <1>6

(* NewBlip: the server had none, so it is deleting no such entity.         *)
LEMMA NewInv ==
  ASSUME IInv, NEW i \in Ids, NEW reported \in BOOLEAN, New(i, reported)
  PROVE  IInv'
<1> DEFINE new == Call("New", i, FALSE, stack)
           f == [fn |-> "New", id |-> i, flag |-> FALSE]
           p == [fn |-> "Pool", id |-> i, flag |-> FALSE]
<1>1. /\ stack \in Seq(Frames) /\ Nested(stack)
      /\ \A g \in CallsOf(stack) :
           InPool(g) /\ DeletionPending(g) /\ (g.fn = "Delete" => g.flag)
  BY ScriptProperties DEF New, ScriptCalls
<1>2. server[i] = "none" /\ server' = [server EXCEPT ![i] = "exists"]
  BY DEF New
<1>3. \A g \in CallsOf(stack) : Deleting(g) => g.id # i
  BY <1>1, <1>2 DEF DeletionPending
<1>4. \A g \in CallsOf(stack) : g.fn = "Delete" => g.id # i /\ g.flag
  BY <1>1, <1>3 DEF Deleting
<1>5. i \in 0 .. PoolSize /\ {"New", "Pool"} \subseteq Calls
  BY EntityAssumption DEF Ids, Calls
<1>6. new \in Seq(Frames) /\ Nested(new) /\ CallsOf(new) = {f} \cup CallsOf(stack)
  <2>1. \A g \in CallsOf(stack) : Within(f, g)
    BY <1>4 DEF Within, Deleting
  <2>2. QED
    BY <1>1, <1>5, <2>1, CallProperties
<1>7. /\ Call("Pool", i, FALSE, new) \in Seq(Frames)
      /\ Nested(Call("Pool", i, FALSE, new))
      /\ CallsOf(Call("Pool", i, FALSE, new)) = {p, f} \cup CallsOf(stack)
  <2>1. \A g \in CallsOf(new) : Within(p, g)
    <3>1. Within(p, f) /\ \A g \in CallsOf(stack) : Within(p, g)
      BY <1>4 DEF Within, Deleting
    <3> HIDE DEF new, f
    <3>2. QED
      BY <1>6, <3>1
  <2> HIDE DEF new
  <2>2. CallsOf(Call("Pool", i, FALSE, new)) = {p} \cup CallsOf(new)
    BY <1>5, <1>6, <2>1, CallProperties
  <2>3. QED
    BY <1>5, <1>6, <2>1, <2>2, CallProperties
<1>8. stack' \in Seq(Frames) /\ Nested(stack') /\ CallsOf(stack') \subseteq {p, f} \cup CallsOf(stack)
  <2>1. stack' = new \/ stack' = Call("Pool", i, FALSE, new)
    BY DEF New
  <2> HIDE DEF new, p, f
  <2>2. QED
    BY <1>6, <1>7, <2>1
<1>9. \A g \in CallsOf(stack') : InPool(g) /\ DeletionPending(g)'
  <2>1. InPool(f) /\ InPool(p) /\ DeletionPending(f)' /\ DeletionPending(p)'
    BY DEF InPool, DeletionPending, Deleting
  <2>2. ASSUME NEW g \in CallsOf(stack) PROVE DeletionPending(g)'
    BY <1>1, <1>2, <1>3
    DEF DeletionPending, Deleting, IsValid, New, pool, InPool, IInv, TypeOK
  <2>3. QED
    BY <1>1, <1>8, <2>1, <2>2
<1>10. TypeOK'
  BY <1>8 DEF New, pool, IInv, TypeOK
<1>11. HandleBinding' /\ HandleKept' /\ TasksHaveEntity'
  BY DEF New, pool, IInv, HandleBinding, HandleKept, TasksHaveEntity
<1>12. QED
  BY <1>8, <1>9, <1>10, <1>11 DEF IInv, InPool, Nested, CallsOf

(* The rest of NewBlip, where the server has reported the entity or not.   *)
LEMMA NewAllocInv == IInv /\ NewAlloc => IInv'
<1> SUFFICES ASSUME IInv, NewAlloc PROVE IInv'
  OBVIOUS
<1> DEFINE i == Head(stack).id
           f == [fn |-> "NewReturn", id |-> i, flag |-> FALSE]
           rest == Call("NewReturn", i, FALSE, Tail(stack))
<1>1. In("New") /\ {"New", "NewReturn"} \subseteq Calls
  BY DEF NewAlloc, Calls
<1>2. /\ Head(stack) \in Frames /\ Head(stack).fn = "New" /\ InPool(Head(stack))
      /\ Tail(stack) \in Seq(Frames) /\ Nested(Tail(stack))
      /\ \A g \in CallsOf(Tail(stack)) :
           Within(Head(stack), g) /\ InPool(g) /\ DeletionPending(g)
  BY <1>1, RunningProperties
<1>3. i \in Ids /\ i \in 0 .. PoolSize
  BY <1>2 DEF Frames, InPool
<1>4. \A g \in CallsOf(Tail(stack)) : Within(f, g) /\ (g.fn = "Delete" => g.flag)
  BY <1>2 DEF Within, Deleting
<1>5. InPool(f) /\ DeletionPending(f) /\ f.fn # "Delete"
  BY <1>3 DEF InPool, DeletionPending, Deleting
<1>6. Alloc(i, TRUE, rest) /\ UNCHANGED <<server, ours, undefined>>
  BY DEF NewAlloc
<1> HIDE DEF i
<1>7. rest \in Seq(Frames) /\ Nested(rest) /\ CallsOf(rest) = {f} \cup CallsOf(Tail(stack))
  BY <1>1, <1>2, <1>3, <1>4, CallProperties
<1> HIDE DEF rest, f
<1>8. QED
  BY <1>2, <1>3, <1>4, <1>5, <1>6, <1>7, AllocInv

(* The end of NewBlip adds a flag at most.                                 *)
LEMMA NewReturnInv == IInv /\ NewReturn => IInv'
<1> SUFFICES ASSUME IInv, NewReturn PROVE IInv'
  OBVIOUS
<1>1. In("NewReturn") /\ "NewReturn" \in Calls
  BY DEF NewReturn, Calls
<1>2. /\ Head(stack).id \in Ids
      /\ Tail(stack) \in Seq(Frames) /\ Nested(Tail(stack))
      /\ \A g \in CallsOf(Tail(stack)) : InPool(g) /\ DeletionPending(g)
  BY <1>1, RunningProperties DEF InPool
<1>3. mFlags' \in [Ids -> SUBSET Flags] /\ \A j \in Ids : mFlags[j] \subseteq mFlags'[j]
  BY <1>2 DEF NewReturn, NewFlags, Flags, IInv, TypeOK
<1>4. \A g \in CallsOf(Tail(stack)) : DeletionPending(g)'
  BY <1>2, <1>3 DEF NewReturn, DeletionPending, Deleting, IsValid, InPool
<1>5. TypeOK'
  BY <1>2, <1>3 DEF NewReturn, IInv, TypeOK
<1>6. HandleBinding' /\ HandleKept' /\ TasksHaveEntity'
  BY DEF NewReturn, IInv, HandleBinding, HandleKept, TasksHaveEntity
<1>7. QED
  BY <1>2, <1>4, <1>5, <1>6 DEF NewReturn, IInv, InPool, Nested, CallsOf

(* A handle that works has an instance nobody is deleting.                 *)
LEMMA DestroyHandleInv == ASSUME IInv, NEW h \in Handles, DestroyHandle(h) PROVE IInv'
<1> DEFINE i == m_ID[h]
<1>1. /\ stack \in Seq(Frames) /\ Nested(stack)
      /\ \A g \in CallsOf(stack) :
           InPool(g) /\ DeletionPending(g) /\ (g.fn = "Delete" => g.flag)
  BY ScriptProperties DEF DestroyHandle, ScriptCalls
<1>2. i \in Ids /\ mInst[i] # Null
  BY EntityAssumption DEF DestroyHandle, IInv, TypeOK, HandleBinding
<1>3. \A g \in CallsOf(stack) : g.fn = "Delete" => g.id # i
  BY <1>1, <1>2 DEF DeletionPending
<1>4. Dealloc(i, TRUE, stack) /\ UNCHANGED <<pool, server, ours, undefined>>
  BY DEF DestroyHandle
<1> HIDE DEF i
<1>5. CASE Destroy(i, TRUE, stack)
  BY <1>1, <1>2, <1>3, <1>4, <1>5, DestroyInv
<1>6. CASE stack' = stack
  BY <1>1, <1>4, <1>6, StackInv DEF IInv, TypeOK
<1>7. QED
  BY <1>4, <1>5, <1>6 DEF Dealloc

(* A task is bound through a handle that works.                            *)
LEMMA MakeTaskInv == ASSUME IInv, NEW h \in Handles, MakeTask(h) PROVE IInv'
<1>1. m_ID[h] \in Ids /\ mInst[m_ID[h]] # Null
  BY EntityAssumption DEF MakeTask, IInv, TypeOK, HandleBinding
<1>2. TypeOK' /\ TasksHaveEntity'
  BY <1>1 DEF MakeTask, IInv, TypeOK, TasksHaveEntity
<1>3. HandleBinding' /\ HandleKept'
  BY DEF MakeTask, IInv, HandleBinding, HandleKept
<1>4. Nested(stack') /\ \A f \in CallsOf(stack') : InPool(f) /\ DeletionPending(f)'
  BY DEF MakeTask, IInv, DeletionPending, IsValid
<1>5. QED
  BY <1>2, <1>3, <1>4 DEF IInv, InPool, Nested, CallsOf

(* Tasks that end leave fewer bound identifiers.                           *)
LEMMA TasksEndInv == ASSUME IInv, NEW i \in Ids, TasksEnd(i) PROVE IInv'
<1>1. TypeOK' /\ TasksHaveEntity'
  BY DEF TasksEnd, IInv, TypeOK, TasksHaveEntity
<1>2. HandleBinding' /\ HandleKept'
  BY DEF TasksEnd, IInv, HandleBinding, HandleKept
<1>3. Nested(stack') /\ \A f \in CallsOf(stack') : InPool(f) /\ DeletionPending(f)'
  BY DEF TasksEnd, IInv, DeletionPending, IsValid
<1>4. QED
  BY <1>1, <1>2, <1>3 DEF IInv, InPool, Nested, CallsOf

(* A report of the server's: it destroys what is not locked, or allocates. *)
LEMMA PoolInv == IInv /\ Pool => IInv'
<1> SUFFICES ASSUME IInv, Pool PROVE IInv'
  OBVIOUS
<1> DEFINE i == Head(stack).id
           deleted == Head(stack).flag
           f == [fn |-> "EntityPool", id |-> i, flag |-> deleted]
           rest == Call("EntityPool", i, deleted, Tail(stack))
<1>1. In("Pool") /\ {"Pool", "EntityPool"} \subseteq Calls
  BY DEF Pool, Calls, Emissions
<1>2. /\ Head(stack) \in Frames /\ Head(stack).fn = "Pool" /\ InPool(Head(stack))
      /\ Tail(stack) \in Seq(Frames) /\ Nested(Tail(stack))
      /\ \A g \in CallsOf(Tail(stack)) :
           Within(Head(stack), g) /\ InPool(g) /\ DeletionPending(g)
  BY <1>1, RunningProperties
<1>3. i \in Ids /\ i \in 0 .. PoolSize /\ deleted \in BOOLEAN
  BY <1>2 DEF Frames, InPool
<1>4. \A g \in CallsOf(Tail(stack)) : Within(f, g) /\ (g.fn = "Delete" => g.flag)
  BY <1>2 DEF Within, Deleting
<1>5. InPool(f) /\ DeletionPending(f) /\ f.fn # "Delete"
  BY <1>3 DEF InPool, DeletionPending, Deleting
<1>6. /\ UNCHANGED <<server, ours, undefined>>
      /\ \/ Dealloc(i, FALSE, rest) /\ UNCHANGED pool
         \/ stack' = rest /\ UNCHANGED pool
         \/ Alloc(i, FALSE, rest)
  BY DEF Pool
<1> HIDE DEF i, deleted
<1>7. rest \in Seq(Frames) /\ Nested(rest) /\ CallsOf(rest) = {f} \cup CallsOf(Tail(stack))
  BY <1>1, <1>2, <1>3, <1>4, CallProperties
<1> HIDE DEF rest, f
<1>8. \A g \in CallsOf(rest) : InPool(g) /\ DeletionPending(g) /\ (g.fn = "Delete" => g.flag)
  BY <1>2, <1>4, <1>5, <1>7
<1>9. CASE Alloc(i, FALSE, rest)
  BY <1>3, <1>6, <1>7, <1>8, <1>9, AllocInv
<1>10. CASE stack' = rest /\ UNCHANGED pool
  BY <1>6, <1>7, <1>8, <1>10, StackInv DEF IInv, TypeOK
<1>11. CASE Dealloc(i, FALSE, rest) /\ UNCHANGED pool
  <2>1. CASE "LOCKED" \notin mFlags[i] /\ Destroy(i, FALSE, rest)
    <3>1. \A g \in CallsOf(rest) : g.fn = "Delete" => g.flag /\ g.id # i
      BY <1>8, <2>1 DEF DeletionPending
    <3>2. QED
      BY <1>3, <1>6, <1>7, <1>8, <1>11, <2>1, <3>1, DestroyInv
  <2>2. QED
    BY <1>10, <1>11, <2>1 DEF Dealloc
<1>12. QED
  BY <1>6, <1>9, <1>10, <1>11

(* After the event: the handle and the tasks go, the deletion begins.      *)
LEMMA ReleaseInv == IInv /\ Release => IInv'
<1> SUFFICES ASSUME IInv, Release PROVE IInv'
  OBVIOUS
<1> DEFINE i == Head(stack).id
           destroy == Head(stack).flag /\ IsValid(i) /\ "OWNED" \in mFlags[i]
           known == server[i] = "exists"
           d == destroy /\ known
           f == [fn |-> "Delete", id |-> i, flag |-> d]
           p == [fn |-> "Pool", id |-> i, flag |-> TRUE]
           rest == Call("Delete", i, d, Tail(stack))
<1>1. In("Release") /\ {"Release", "Delete", "Pool"} \subseteq Calls
  BY DEF Release, Calls
<1>2. /\ Head(stack) \in Frames /\ Head(stack).fn = "Release" /\ InPool(Head(stack))
      /\ Tail(stack) \in Seq(Frames) /\ Nested(Tail(stack))
      /\ \A g \in CallsOf(Tail(stack)) :
           Within(Head(stack), g) /\ InPool(g) /\ DeletionPending(g)
  BY <1>1, RunningProperties
<1>3. i \in Ids /\ i \in 0 .. PoolSize /\ Head(stack).flag \in BOOLEAN /\ d \in BOOLEAN
  BY <1>2 DEF Frames, InPool
<1>4. /\ Unbind(i)
      /\ mInst' = [mInst EXCEPT ![i] = Null]
      /\ CleanupTasks(mID[i])
      /\ mFlags' = [mFlags EXCEPT ![i] = IF destroy THEN @ \cup {"LOCKED"} ELSE @]
      /\ server' = IF d THEN [server EXCEPT ![i] = "deleting"] ELSE server
      /\ stack' = rest \/ (d /\ stack' = Call("Pool", i, TRUE, rest))
      /\ UNCHANGED <<mID, ours, undefined>>
  BY DEF Release
<1>5. d => IsValid(i) /\ server[i] = "exists" /\ destroy
  OBVIOUS
<1> HIDE DEF i, d, destroy, known
<1>6. \A g \in CallsOf(Tail(stack)) : g.fn = "Delete" => g.flag /\ g.id # i
  BY <1>2 DEF Within, i
<1>7. \A g \in CallsOf(Tail(stack)) : d /\ Deleting(g) => g.id # i
  BY <1>2, <1>5 DEF DeletionPending
<1>8. rest \in Seq(Frames) /\ Nested(rest) /\ CallsOf(rest) = {f} \cup CallsOf(Tail(stack))
  <2>1. \A g \in CallsOf(Tail(stack)) : Within(f, g)
    BY <1>6, <1>7 DEF Within, Deleting
  <2>2. QED
    BY <1>1, <1>2, <1>3, <2>1, CallProperties
<1>9. ASSUME d
      PROVE  /\ Call("Pool", i, TRUE, rest) \in Seq(Frames)
             /\ Nested(Call("Pool", i, TRUE, rest))
             /\ CallsOf(Call("Pool", i, TRUE, rest)) = {p} \cup CallsOf(rest)
  <2>1. \A g \in CallsOf(rest) : Within(p, g)
    <3>1. Within(p, f) /\ \A g \in CallsOf(Tail(stack)) : Within(p, g)
      BY <1>6, <1>9 DEF Within, Deleting
    <3> HIDE DEF rest, f, p
    <3>2. QED
      BY <1>8, <3>1
  <2> HIDE DEF rest
  <2>2. QED
    BY <1>1, <1>3, <1>8, <2>1, CallProperties
<1>10. stack' \in Seq(Frames) /\ Nested(stack')
       /\ CallsOf(stack') \subseteq {p, f} \cup CallsOf(Tail(stack))
  <2> HIDE DEF rest, p, f
  <2>1. QED
    BY <1>4, <1>8, <1>9
<1>11. TypeOK'
  <2>1. m_ID' \in [Handles -> Ids \cup {-1}]
    BY <1>4 DEF Unbind, IInv, TypeOK
  <2>2. mFlags' \in [Ids -> SUBSET Flags]
    BY <1>4 DEF Flags, IInv, TypeOK
  <2>3. QED
    BY <1>4, <1>10, <2>1, <2>2 DEF CleanupTasks, IInv, TypeOK
<1>12. HandleBinding'
  BY <1>3, <1>4 DEF Unbind, IInv, TypeOK, HandleBinding
<1>13. HandleKept'
  <2> SUFFICES ASSUME NEW j \in Ids, mInst'[j] # Null
               PROVE  mID'[j] = j /\ m_ID'[mInst'[j]] = j
    BY DEF HandleKept
  <2>1. j # i /\ mInst'[j] = mInst[j] /\ mInst[j] \in Handles
    BY <1>3, <1>4 DEF IInv, TypeOK
  <2>2. mID[j] = j /\ m_ID[mInst[j]] = j
    BY <2>1 DEF IInv, HandleKept
  <2>3. mInst[j] # mInst[i]
    BY <1>3, <2>1, <2>2 DEF IInv, HandleKept
  <2>4. QED
    BY <1>4, <2>1, <2>2, <2>3 DEF Unbind
<1>14. TasksHaveEntity'
  <2> SUFFICES ASSUME NEW j \in tasks, j # mID[i] PROVE mInst'[j] # Null
    BY <1>4 DEF CleanupTasks, TasksHaveEntity
  <2>1. j \in Ids /\ mInst[j] # Null /\ mID[j] = j
    BY DEF IInv, TypeOK, HandleKept, TasksHaveEntity
  <2>2. QED
    BY <1>3, <1>4, <2>1 DEF IInv, TypeOK
<1>15. \A g \in CallsOf(stack') : InPool(g) /\ DeletionPending(g)'
  <2>1. ASSUME NEW g, g = f PROVE InPool(g) /\ DeletionPending(g)'
    <3>1. g.fn = "Delete" /\ g.id = i /\ g.flag = d
      BY <2>1
    <3>2. mInst'[i] = Null
      BY <1>3, <1>4 DEF IInv, TypeOK
    <3>3. d => mID'[i] # -1 /\ "LOCKED" \in mFlags'[i] /\ server'[i] = "deleting"
      BY <1>3, <1>4, <1>5 DEF IsValid, IInv, TypeOK
    <3> HIDE DEF f
    <3>4. QED
      BY <1>3, <3>1, <3>2, <3>3 DEF InPool, DeletionPending, Deleting, IsValid
  <2>2. ASSUME NEW g, g = p PROVE InPool(g) /\ DeletionPending(g)'
    BY <1>3, <2>2 DEF InPool, DeletionPending, Deleting
  <2>3. ASSUME NEW g \in CallsOf(Tail(stack)) PROVE DeletionPending(g)'
    <3>1. DeletionPending(g) /\ (g.fn = "Delete" => g.id # i) /\ (d /\ Deleting(g) => g.id # i)
      BY <1>2, <1>6, <1>7
    <3>2. Deleting(g) \/ g.fn = "Delete" => g.id \in Ids
      BY <1>2 DEF InPool, Deleting
    <3>3. QED
      BY <1>3, <1>4, <3>1, <3>2 DEF DeletionPending, Deleting, IsValid, IInv, TypeOK
  <2> HIDE DEF p, f
  <2>4. QED
    BY <1>2, <1>10, <2>1, <2>2, <2>3
<1>16. QED
  BY <1>10, <1>11, <1>12, <1>13, <1>14, <1>15 DEF IInv, InPool, Nested, CallsOf

(* The end of Destroy resets an instance no handle works on.               *)
LEMMA DeleteInv == IInv /\ Delete => IInv'
<1> SUFFICES ASSUME IInv, Delete PROVE IInv'
  OBVIOUS
<1> DEFINE i == Head(stack).id
           flag == Head(stack).flag
<1>1. In("Delete") /\ "Delete" \in Calls
  BY DEF Delete, Calls
<1>2. /\ Head(stack) \in Frames /\ Head(stack).fn = "Delete"
      /\ InPool(Head(stack)) /\ DeletionPending(Head(stack))
      /\ Tail(stack) \in Seq(Frames) /\ Nested(Tail(stack))
      /\ \A g \in CallsOf(Tail(stack)) :
           Within(Head(stack), g) /\ InPool(g) /\ DeletionPending(g)
  BY <1>1, RunningProperties
<1>3. i \in Ids /\ mInst[i] = Null
  BY <1>2 DEF Frames, InPool, DeletionPending
<1>4. /\ mID' = [mID EXCEPT ![i] = -1]
      /\ mFlags' = [mFlags EXCEPT ![i] = {}]
      /\ stack' = DropEvents(i, Tail(stack))
      /\ server' = IF flag THEN [server EXCEPT ![i] = "none"] ELSE server
      /\ ours' \subseteq ours
      /\ UNCHANGED <<mInst, m_ID, tasks, undefined>>
  BY DEF Delete
<1>5. \A g \in CallsOf(Tail(stack)) :
        /\ g.fn = "Delete" => g.id # i
        /\ flag /\ Deleting(g) => g.id # i
  BY <1>2 DEF Within, Deleting
<1> HIDE DEF i, flag
<1>6. /\ stack' \in Seq(Frames) /\ Nested(stack')
      /\ \A g \in CallsOf(stack') :
           g \in CallsOf(Tail(stack)) \/ (g.fn = "DestroyedFreed" /\ g.id = i)
  BY <1>2, <1>3, <1>4, DropProperties
<1>7. TypeOK'
  BY <1>3, <1>4, <1>6 DEF IInv, TypeOK
<1>8. HandleBinding'
  <2> SUFFICES ASSUME NEW h \in Handles, m_ID[h] # -1
               PROVE  mID'[m_ID[h]] = m_ID[h] /\ mInst[m_ID[h]] = h
    BY <1>4 DEF HandleBinding
  <2>1. m_ID[h] # i
    BY <1>3, EntityAssumption DEF IInv, HandleBinding
  <2>2. m_ID[h] \in Ids
    BY DEF IInv, TypeOK
  <2>3. QED
    BY <1>4, <2>1, <2>2 DEF IInv, TypeOK, HandleBinding
<1>9. HandleKept' /\ TasksHaveEntity'
  BY <1>3, <1>4 DEF IInv, TypeOK, HandleKept, TasksHaveEntity
<1>10. \A g \in CallsOf(stack') : InPool(g) /\ DeletionPending(g)'
  <2>1. ASSUME NEW g \in CallsOf(Tail(stack)) PROVE DeletionPending(g)'
    <3>1. Deleting(g) \/ g.fn = "Delete" => g.id \in Ids
      BY <1>2 DEF InPool, Deleting
    <3>2. QED
      BY <1>2, <1>3, <1>4, <1>5, <3>1 DEF DeletionPending, Deleting, IsValid, IInv, TypeOK
  <2>2. ASSUME NEW g, g.fn = "DestroyedFreed", g.id = i
        PROVE  InPool(g) /\ DeletionPending(g)'
    BY <1>3, <2>2 DEF InPool, DeletionPending, Deleting
  <2>3. QED
    BY <1>2, <1>6, <2>1, <2>2
<1>11. QED
  BY <1>6, <1>7, <1>8, <1>9, <1>10 DEF IInv, InPool, Nested, CallsOf

(* Another plug-in creates an entity, between two callbacks.               *)
LEMMA ServerCreatesInv == ASSUME IInv, NEW i \in Ids, ServerCreates(i) PROVE IInv'
<1> DEFINE p == [fn |-> "Pool", id |-> i, flag |-> FALSE]
<1>1. i \in 0 .. PoolSize /\ "Pool" \in Calls
  BY EntityAssumption DEF Ids, Calls
<1>2. \A g \in CallsOf(<<>>) : Within(p, g)
  BY NoCalls
<1>3. stack' = Call("Pool", i, FALSE, <<>>)
  BY DEF ServerCreates
<1>4. stack' \in Seq(Frames) /\ Nested(stack') /\ CallsOf(stack') = {p} \cup CallsOf(<<>>)
  BY <1>1, <1>2, <1>3, NoCalls, CallProperties
<1>5. \A g \in CallsOf(stack') : InPool(g) /\ DeletionPending(g)'
  <2>1. ASSUME NEW g, g = p PROVE InPool(g) /\ DeletionPending(g)'
    BY <2>1 DEF InPool, DeletionPending, Deleting
  <2>2. QED
    BY <1>4, <2>1, NoCalls
<1>6. TypeOK'
  BY <1>4 DEF ServerCreates, pool, IInv, TypeOK
<1>7. HandleBinding' /\ HandleKept' /\ TasksHaveEntity'
  BY DEF ServerCreates, pool, IInv, HandleBinding, HandleKept, TasksHaveEntity
<1>8. QED
  BY <1>4, <1>5, <1>6, <1>7 DEF IInv, InPool, Nested, CallsOf

(* Another plug-in deletes an entity, between two callbacks.               *)
LEMMA ServerDeletesInv == ASSUME IInv, NEW i \in Ids, ServerDeletes(i) PROVE IInv'
<1> DEFINE p == [fn |-> "Pool", id |-> i, flag |-> TRUE]
           f == [fn |-> "ServerDelete", id |-> i, flag |-> TRUE]
           rest == Call("ServerDelete", i, TRUE, <<>>)
<1>1. i \in 0 .. PoolSize /\ {"Pool", "ServerDelete"} \subseteq Calls
  BY EntityAssumption DEF Ids, Calls
<1>2. \A g \in CallsOf(<<>>) : Within(f, g)
  BY NoCalls
<1>3. rest \in Seq(Frames) /\ Nested(rest) /\ CallsOf(rest) = {f} \cup CallsOf(<<>>)
  BY <1>1, <1>2, NoCalls, CallProperties
<1>4. Within(p, f)
  BY DEF Within, Deleting
<1>5. stack' = Call("Pool", i, TRUE, rest)
  BY DEF ServerDeletes
<1> HIDE DEF rest
<1>6. \A g \in CallsOf(rest) : Within(p, g)
  BY <1>3, <1>4, NoCalls
<1>7. stack' \in Seq(Frames) /\ Nested(stack') /\ CallsOf(stack') = {p} \cup CallsOf(rest)
  BY <1>1, <1>3, <1>5, <1>6, CallProperties
<1>8. \A g \in CallsOf(stack') : InPool(g) /\ DeletionPending(g)'
  <2>1. ASSUME NEW g, g = p PROVE InPool(g) /\ DeletionPending(g)'
    BY <2>1 DEF InPool, DeletionPending, Deleting
  <2>2. server'[i] = "deleting"
    BY DEF ServerDeletes, IInv, TypeOK
  <2>3. ASSUME NEW g, g = f PROVE InPool(g) /\ DeletionPending(g)'
    BY <2>2, <2>3 DEF InPool, DeletionPending, Deleting
  <2>4. QED
    BY <1>3, <1>7, <2>1, <2>3, NoCalls
<1>9. TypeOK'
  BY <1>7 DEF ServerDeletes, pool, IInv, TypeOK
<1>10. HandleBinding' /\ HandleKept' /\ TasksHaveEntity'
  BY DEF ServerDeletes, pool, IInv, HandleBinding, HandleKept, TasksHaveEntity
<1>11. QED
  BY <1>7, <1>8, <1>9, <1>10 DEF IInv, InPool, Nested, CallsOf

(* The deletion another plug-in has asked for is done.                     *)
LEMMA ServerDeletedInv == IInv /\ ServerDeleted => IInv'
<1> SUFFICES ASSUME IInv, ServerDeleted PROVE IInv'
  OBVIOUS
<1>1. In("ServerDelete") /\ "ServerDelete" \in Calls
  BY DEF ServerDeleted, Calls
<1>2. /\ Head(stack).fn = "ServerDelete"
      /\ Tail(stack) \in Seq(Frames) /\ Nested(Tail(stack))
      /\ \A g \in CallsOf(Tail(stack)) :
           Within(Head(stack), g) /\ InPool(g) /\ DeletionPending(g)
  BY <1>1, RunningProperties
<1>3. \A g \in CallsOf(Tail(stack)) : Deleting(g) => g.id # Head(stack).id
  BY <1>2 DEF Within, Deleting
<1>4. ASSUME NEW g \in CallsOf(Tail(stack)) PROVE DeletionPending(g)'
  BY <1>2, <1>3
  DEF ServerDeleted, pool, DeletionPending, Deleting, IsValid, InPool, IInv, TypeOK
<1>5. TypeOK'
  BY <1>2 DEF ServerDeleted, pool, IInv, TypeOK
<1>6. HandleBinding' /\ HandleKept' /\ TasksHaveEntity'
  BY DEF ServerDeleted, pool, IInv, HandleBinding, HandleKept, TasksHaveEntity
<1>7. QED
  BY <1>2, <1>4, <1>5, <1>6 DEF ServerDeleted, IInv, InPool, Nested, CallsOf

(* A loop over the pool, at its start, in the middle or at its end: the    *)
(* only call in progress.                                                  *)
LEMMA LoopProperties ==
  ASSUME NEW fn \in {"Import", "Cleanup"}, NEW i \in 0 .. PoolSize, NEW flag \in BOOLEAN
  PROVE  /\ Call(fn, i, flag, <<>>) \in Seq(Frames)
         /\ Nested(Call(fn, i, flag, <<>>))
         /\ \A g \in CallsOf(Call(fn, i, flag, <<>>)) :
              InPool(g) /\ DeletionPending(g) /\ DeletionPending(g)' /\ g.fn # "Delete"
<1> DEFINE f == [fn |-> fn, id |-> i, flag |-> flag]
<1>1. fn \in Calls
  BY DEF Calls
<1>2. \A g \in CallsOf(<<>>) : Within(f, g)
  BY NoCalls
<1>3. /\ Call(fn, i, flag, <<>>) \in Seq(Frames)
      /\ Nested(Call(fn, i, flag, <<>>))
      /\ CallsOf(Call(fn, i, flag, <<>>)) = {f} \cup CallsOf(<<>>)
  BY <1>1, <1>2, NoCalls, CallProperties
<1>4. ASSUME NEW g, g = f
      PROVE  InPool(g) /\ DeletionPending(g) /\ DeletionPending(g)' /\ g.fn # "Delete"
  BY <1>4 DEF InPool, DeletionPending, Deleting
<1>5. QED
  BY <1>3, <1>4, NoCalls

(* The start of Terminate.                                                 *)
LEMMA TerminateInv == IInv /\ Terminate => IInv'
<1> SUFFICES ASSUME IInv, Terminate PROVE IInv'
  OBVIOUS
<1>1. 0 \in 0 .. PoolSize
  BY EntityAssumption
<1>2. QED
  BY <1>1, LoopProperties, StackInv DEF Terminate, IInv, TypeOK

(* One turn of its loop.                                                   *)
LEMMA CleanupNextInv == IInv /\ CleanupNext => IInv'
<1> SUFFICES ASSUME IInv, CleanupNext PROVE IInv'
  OBVIOUS
<1> DEFINE i == Head(stack).id
           rest == Call("Cleanup", i + 1, TRUE, <<>>)
<1>1. In("Cleanup") /\ "Cleanup" \in Calls
  BY DEF CleanupNext, Calls
<1>2. i \in 0 .. PoolSize
  BY <1>1, RunningProperties DEF Frames
<1>3. i \in Ids /\ i + 1 \in 0 .. PoolSize
  BY <1>2, EntityAssumption DEF CleanupNext, Ids
<1>4. Destroy(i, TRUE, rest) /\ UNCHANGED <<pool, server, ours, undefined>>
  BY DEF CleanupNext
<1> HIDE DEF i
<1>5. /\ rest \in Seq(Frames) /\ Nested(rest)
      /\ \A g \in CallsOf(rest) : InPool(g) /\ DeletionPending(g) /\ g.fn # "Delete"
  BY <1>3, LoopProperties
<1> HIDE DEF rest
<1>6. QED
  BY <1>3, <1>4, <1>5, DestroyInv

(* The end of Terminate, and the start of the scripts.                     *)
LEMMA CleanupEndInv == IInv /\ CleanupEnd => IInv'
<1> SUFFICES ASSUME IInv, CleanupEnd PROVE IInv'
  OBVIOUS
<1>1. 0 \in 0 .. PoolSize
  BY EntityAssumption
<1>2. /\ stack' \in Seq(Frames) /\ Nested(stack')
      /\ \A g \in CallsOf(stack') : InPool(g) /\ DeletionPending(g)'
  BY <1>1, LoopProperties DEF CleanupEnd
<1>3. TypeOK'
  BY <1>2 DEF CleanupEnd, IInv, TypeOK
<1>4. HandleBinding' /\ HandleKept' /\ TasksHaveEntity'
  BY DEF CleanupEnd, IInv, HandleBinding, HandleKept, TasksHaveEntity
<1>5. QED
  BY <1>2, <1>3, <1>4 DEF IInv, InPool, Nested, CallsOf

-----------------------------------------------------------------------------
(* Every step preserves the invariant.                                     *)
LEMMA NextInv == IInv /\ [Next]_vars => IInv'
<1> SUFFICES ASSUME IInv, [Next]_vars PROVE IInv'
  OBVIOUS
<1>1. CASE Import
  BY <1>1, ImportInv
<1>2. ASSUME NEW i \in Ids, NEW reported \in BOOLEAN, New(i, reported) PROVE IInv'
  BY <1>2, NewInv
<1>3. ASSUME NEW i \in Ids, ServerCreates(i) PROVE IInv'
  BY <1>3, ServerCreatesInv
<1>4. ASSUME NEW i \in Ids, ServerDeletes(i) PROVE IInv'
  BY <1>4, ServerDeletesInv
<1>5. CASE NewAlloc
  BY <1>5, NewAllocInv
<1>6. CASE NewReturn
  BY <1>6, NewReturnInv
<1>7. ASSUME NEW h \in Handles, DestroyHandle(h) PROVE IInv'
  BY <1>7, DestroyHandleInv
<1>8. ASSUME NEW h \in Handles, MakeTask(h) PROVE IInv'
  BY <1>8, MakeTaskInv
<1>9. CASE Pool
  BY <1>9, PoolInv
<1>10. CASE Release
  BY <1>10, ReleaseInv
<1>11. CASE Delete
  BY <1>11, DeleteInv
<1>12. CASE CreatedReturns \/ EntityPoolReturns
  BY <1>12, ReturnInv DEF CreatedReturns, EntityPoolReturns, Calls, Emissions
<1>13. CASE CreatedThrows
  BY <1>13, CreatedThrowsInv
<1>14. CASE DestroyedOwnReturns \/ DestroyedAllReturns \/ DestroyedThrows
  BY <1>14, DestroyedReturnsInv
  DEF DestroyedOwnReturns, DestroyedAllReturns, DestroyedThrows
<1>15. CASE DestroyedFreedReturns
  <2>1. CASE Returns("DestroyedFreed",
                     Call("DestroyedAll", Head(stack).id, Head(stack).flag, Tail(stack)))
    BY <2>1, DestroyedReturnsInv
  <2>2. CASE undefined' = TRUE /\ UNCHANGED <<pool, server, ours, stack>>
    BY <2>2, StackInv DEF IInv, TypeOK
  <2>3. QED
    BY <1>15, <2>1, <2>2 DEF DestroyedFreedReturns
<1>16. CASE ServerDeleted
  BY <1>16, ServerDeletedInv
<1>17. CASE Terminate
  BY <1>17, TerminateInv
<1>18. CASE CleanupNext
  BY <1>18, CleanupNextInv
<1>19. CASE CleanupEnd
  BY <1>19, CleanupEndInv
<1>20. CASE UNCHANGED vars
  BY <1>20, StackInv DEF vars, IInv, TypeOK
<1>21. ASSUME NEW i \in Ids, TasksEnd(i) PROVE IInv'
  BY <1>21, TasksEndInv
<1>22. QED
  BY <1>1, <1>2, <1>3, <1>4, <1>5, <1>6, <1>7, <1>8, <1>9, <1>10, <1>11, <1>12, <1>13,
     <1>14, <1>15, <1>16, <1>17, <1>18, <1>19, <1>20, <1>21
  DEF Next

(* The invariant of the pool, of the entities and of the calls in progress *)
(* about them, whatever the listeners of the events and the server do.     *)
THEOREM EntityInvariance == Spec => []IInv
<1>1. Init => IInv
  BY InitInv
<1>2. IInv /\ [Next]_vars => IInv'
  BY NextInv
<1>3. QED
  BY <1>1, <1>2, PTL DEF Spec

(* Type correctness: identifiers, flags, handles and calls stay within     *)
(* their types.                                                            *)
THEOREM EntityTypeCorrect == Spec => []TypeOK
<1>1. IInv => TypeOK
  BY DEF IInv
<1>2. QED
  BY <1>1, EntityInvariance, PTL

(* A handle that passes Validate works on the allocated instance that      *)
(* knows it (CBlip::Validate, BlipInst::Destroy).                          *)
THEOREM HandlesBound == Spec => []HandleBinding
<1>1. IInv => HandleBinding
  BY DEF IInv
<1>2. QED
  BY <1>1, EntityInvariance, PTL

(* No task outlives the entity it is bound to (CleanupTasks).              *)
THEOREM TasksBound == Spec => []TasksHaveEntity
<1>1. IInv => TasksHaveEntity
  BY DEF IInv
<1>2. QED
  BY <1>1, EntityInvariance, PTL

(* Only the report of a deletion the plug-in asked for concerns the entity *)
(* while it is in progress: nothing destroys it twice (ENF_LOCKED).        *)
THEOREM QuietDeletion == Spec => []DeletesQuietly
<1>1. IInv => DeletesQuietly
  BY DEF IInv, Nested, Within, DeletesQuietly
<1>2. QED
  BY <1>1, EntityInvariance, PTL

-----------------------------------------------------------------------------
(* The promise to the tasks.                                               *)

Present == {i \in Ids : mInst[i] # Null}

(* An allocation is an arrival, or finds the instance allocated.           *)
LEMMA AllocPromise ==
  ASSUME IInv, NEW i \in Ids, NEW owned, NEW rest, Alloc(i, owned, rest)
  PROVE  Promise!Arrive(i) \/ UNCHANGED <<mInst, tasks>>
<1>1. CASE IsValid(i)
  BY <1>1 DEF Alloc, pool
<1>2. CASE ~IsValid(i)
  <2>1. mInst[i] = Null
    BY <1>2 DEF IInv, HandleKept, IsValid, Ids
  <2>2. PICK h \in Handles : mInst' = [mInst EXCEPT ![i] = h] /\ UNCHANGED tasks
    BY <1>2 DEF Alloc
  <2>3. Present' = Present \cup {i} /\ i \notin Present
    BY <2>1, <2>2, EntityAssumption DEF Present, IInv, TypeOK
  <2>4. QED
    BY <2>2, <2>3 DEF Promise!Arrive, Present
<1>3. QED
  BY <1>1, <1>2

(* The release of an instance is the departure of its entity, unless its   *)
(* handle is gone; then it has no tasks either.                            *)
LEMMA ReleasePromise ==
  ASSUME IInv, Release
  PROVE  Promise!Next \/ UNCHANGED Promise!vars
<1> DEFINE i == Head(stack).id
<1>1. In("Release")
  BY DEF Release
<1>2. i \in Ids
  <2>1. "Release" \in Calls
    BY DEF Calls
  <2>2. QED
    BY <1>1, <2>1, RunningProperties DEF InPool
<1>3. mInst' = [mInst EXCEPT ![i] = Null] /\ tasks' = tasks \ {mID[i]}
  BY DEF Release, CleanupTasks
<1> HIDE DEF i
<1>4. Present' = Present \ {i}
  BY <1>2, <1>3 DEF Present, IInv, TypeOK
<1>5. CASE mInst[i] # Null
  <2>1. mID[i] = i /\ i \in Present
    BY <1>2, <1>5 DEF IInv, HandleKept, Present
  <2>2. PICK e \in Ids : e = i
    BY <1>2
  <2>3. Promise!Depart(e)
    BY <1>3, <1>4, <2>1, <2>2 DEF Promise!Depart, Present
  <2>4. QED
    BY <2>3 DEF Promise!Next
<1>6. CASE mInst[i] = Null
  <2>1. Present' = Present
    BY <1>4, <1>6 DEF Present
  <2>2. CASE mID[i] = -1
    <3>1. tasks' = tasks
      BY <1>3, <2>2, EntityAssumption DEF IInv, TypeOK, Ids
    <3>2. QED
      BY <2>1, <3>1 DEF Promise!vars, Present
  <2>3. CASE mID[i] \in Ids
    <3>1. Promise!Unbind(mID[i])
      BY <1>3, <2>1 DEF Promise!Unbind, Present
    <3>2. QED
      BY <2>3, <3>1 DEF Promise!Next
  <2>4. QED
    BY <1>2, <2>2, <2>3 DEF IInv, TypeOK
<1>7. QED
  BY <1>5, <1>6

(* Every step of the pool is a step of the promise or a stutter.           *)
LEMMA NextPromise == IInv /\ [Next]_vars => [Promise!Next]_(Promise!vars)
<1> SUFFICES ASSUME IInv, [Next]_vars PROVE Promise!Next \/ UNCHANGED Promise!vars
  OBVIOUS
<1>1. CASE UNCHANGED <<mInst, tasks>>
  BY <1>1 DEF Promise!vars
<1>2. ASSUME NEW i \in Ids, NEW owned, NEW rest, Alloc(i, owned, rest)
      PROVE  Promise!Next \/ UNCHANGED Promise!vars
  BY <1>1, <1>2, AllocPromise DEF Promise!Next
<1>3. CASE Import
  <2> DEFINE i == Head(stack).id
  <2>1. CASE UNCHANGED pool
    BY <1>1, <2>1 DEF pool
  <2>2. CASE i # PoolSize /\ Alloc(i, FALSE, Call("Import", i + 1, FALSE, Tail(stack)))
    <3>1. i \in 0 .. PoolSize
      <4>1. "Import" \in Calls /\ In("Import")
        BY <1>3 DEF Import, Calls
      <4>2. Head(stack) \in Frames
        BY <4>1, RunningProperties
      <4>3. QED
        BY <4>2 DEF Frames
    <3>2. i \in Ids
      BY <2>2, <3>1, EntityAssumption DEF Ids
    <3>3. QED
      BY <1>2, <2>2, <3>2
  <2>3. QED
    BY <1>3, <2>1, <2>2 DEF Import
<1>4. CASE NewAlloc
  <2>1. Head(stack).id \in Ids
    <3>1. "New" \in Calls /\ In("New")
      BY <1>4 DEF NewAlloc, Calls
    <3>2. QED
      BY <3>1, RunningProperties DEF InPool
  <2>2. QED
    BY <1>2, <1>4, <2>1 DEF NewAlloc
<1>5. CASE Pool
  <2>1. Head(stack).id \in Ids
    <3>1. "Pool" \in Calls /\ In("Pool")
      BY <1>5 DEF Pool, Calls
    <3>2. QED
      BY <3>1, RunningProperties DEF InPool
  <2>2. QED
    BY <1>1, <1>2, <1>5, <2>1 DEF Pool, pool
<1>6. ASSUME NEW h \in Handles, MakeTask(h) PROVE Promise!Next
  <2>1. m_ID[h] \in Ids /\ mInst[m_ID[h]] # Null
    BY <1>6, EntityAssumption DEF MakeTask, IInv, TypeOK, HandleBinding
  <2>2. Promise!Bind(m_ID[h])
    BY <1>6, <2>1 DEF MakeTask, Promise!Bind
  <2>3. QED
    BY <2>1, <2>2 DEF Promise!Next
<1>7. ASSUME NEW i \in Ids, TasksEnd(i) PROVE Promise!Next
  BY <1>7 DEF TasksEnd, Promise!Unbind, Promise!Next
<1>8. CASE Release
  BY <1>8, ReleasePromise
<1>9. CASE CleanupEnd
  BY <1>9 DEF CleanupEnd, Promise!Clear, Promise!Next
<1>10. ASSUME NEW i \in Ids,
              \/ \E reported \in BOOLEAN : New(i, reported)
              \/ ServerCreates(i)
              \/ ServerDeletes(i)
       PROVE  UNCHANGED <<mInst, tasks>>
  BY <1>10 DEF New, ServerCreates, ServerDeletes, pool
<1>11. ASSUME NewReturn \/ Delete \/ ServerDeleted \/ Terminate \/ CleanupNext
       PROVE  UNCHANGED <<mInst, tasks>>
  BY <1>11 DEF NewReturn, Delete, ServerDeleted, Terminate, CleanupNext, pool
<1>12. ASSUME \/ CreatedReturns \/ CreatedThrows
              \/ DestroyedOwnReturns \/ DestroyedAllReturns
              \/ DestroyedThrows \/ DestroyedFreedReturns \/ EntityPoolReturns
       PROVE  UNCHANGED <<mInst, tasks>>
  BY <1>12 DEF CreatedReturns, CreatedThrows, DestroyedOwnReturns, DestroyedAllReturns,
               DestroyedThrows, DestroyedFreedReturns, EntityPoolReturns, Returns, pool
<1>13. ASSUME NEW h \in Handles, DestroyHandle(h) PROVE UNCHANGED <<mInst, tasks>>
  BY <1>13 DEF DestroyHandle, pool
<1>14. CASE UNCHANGED vars
  BY <1>1, <1>14 DEF vars, pool
<1>15. QED
  BY <1>1, <1>3, <1>4, <1>5, <1>6, <1>7, <1>8, <1>9, <1>10, <1>11, <1>12, <1>13, <1>14
  DEF Next

(* Every behaviour of the pool is one EntityService allows: an entity that *)
(* scripts can reach goes only together with its tasks (CleanupTasks), and *)
(* no task is bound to one that is not there.                              *)
THEOREM PromiseKept == Spec => KeepsPromise
<1>1. Init => Promise!Init
  BY DEF Init, Promise!Init
<1>2. QED
  BY <1>1, EntityInvariance, NextPromise, PTL DEF Spec, KeepsPromise, Promise!Spec

-----------------------------------------------------------------------------
(* What the plug-in creates and deletes.                                   *)

(* The calls in progress as far as it matters to that.                     *)
Well(s) == s \in Seq(Frames) /\ AllApart(s) /\ Called(s)

Callers == {"EntityPool", "NewReturn", "Import"}

LEMMA WellPush ==
  ASSUME NEW rest, Well(rest),
         NEW fn \in Calls, NEW i \in 0 .. PoolSize, NEW flag \in BOOLEAN,
         \A g \in CallsOf(rest) : Apart([fn |-> fn, id |-> i, flag |-> flag], g),
         fn = "Created" => rest # <<>> /\ Head(rest).fn \in Callers
  PROVE  /\ Well(Call(fn, i, flag, rest))
         /\ CallsOf(Call(fn, i, flag, rest))
              = {[fn |-> fn, id |-> i, flag |-> flag]} \cup CallsOf(rest)
         /\ Call(fn, i, flag, rest) # <<>>
         /\ Head(Call(fn, i, flag, rest)) = [fn |-> fn, id |-> i, flag |-> flag]
<1> DEFINE f == [fn |-> fn, id |-> i, flag |-> flag]
           s == <<f>> \o rest
<1>1. f \in Frames /\ rest \in Seq(Frames)
  BY DEF Frames, Well
<1>2. <<f>> \in Seq(Frames) /\ Len(<<f>>) = 1 /\ <<f>>[1] = f
  BY <1>1
<1>3. /\ s \in Seq(Frames)
      /\ Len(s) = Len(rest) + 1
      /\ \A k \in 1 .. Len(rest) + 1 : s[k] = IF k <= 1 THEN f ELSE rest[k - 1]
  <2> HIDE DEF f
  <2> QED  BY <1>1, <1>2, ConcatProperties
<1>4. /\ Len(rest) \in Nat /\ DOMAIN rest = 1 .. Len(rest) /\ DOMAIN s = 1 .. Len(rest) + 1
      /\ s # <<>> /\ Head(s) = s[1]
  BY <1>1, <1>3
<1>5. /\ s[1] = f
      /\ \A k \in DOMAIN rest : k + 1 \in DOMAIN s /\ s[k + 1] = rest[k]
      /\ \A k \in DOMAIN s : k = 1 \/ (k - 1 \in DOMAIN rest /\ s[k] = rest[k - 1])
  BY <1>3, <1>4
<1>6. fn = "Created" => 1 \in DOMAIN rest /\ rest[1].fn \in Callers
  <2>1. rest # <<>> => Head(rest) = rest[1] /\ 1 \in DOMAIN rest
    BY <1>1, <1>4
  <2> QED  BY <2>1
<1> HIDE DEF s
<1>7. CallsOf(s) = {f} \cup CallsOf(rest)
  <2>1. 1 \in DOMAIN s
    BY <1>4
  <2> HIDE DEF f
  <2> QED  BY <1>5, <2>1 DEF CallsOf
<1>8. AllApart(s)
  <2> SUFFICES ASSUME NEW j \in DOMAIN s, NEW k \in DOMAIN s, j < k
               PROVE  Apart(s[j], s[k])
    BY DEF AllApart
  <2>1. k - 1 \in DOMAIN rest /\ s[k] = rest[k - 1]
    BY <1>4, <1>5
  <2>2. CASE j = 1
    BY <1>5, <2>1, <2>2 DEF CallsOf
  <2>3. CASE j # 1
    <3>1. j - 1 \in DOMAIN rest /\ s[j] = rest[j - 1] /\ j - 1 < k - 1
      BY <1>4, <1>5, <2>3
    <3> QED  BY <2>1, <3>1 DEF Well, AllApart
  <2> QED  BY <2>2, <2>3
<1>9. Called(s)
  <2> SUFFICES ASSUME NEW k \in DOMAIN s, s[k].fn = "Created"
               PROVE  k + 1 \in DOMAIN s /\ s[k + 1].fn \in Callers
    BY DEF Called, Callers
  <2>1. CASE k = 1
    <3>1. fn = "Created"
      BY <1>5, <2>1
    <3> QED  BY <1>5, <1>6, <2>1, <3>1
  <2>2. CASE k # 1
    <3>1. k - 1 \in DOMAIN rest /\ rest[k - 1].fn = "Created" /\ (k - 1) + 1 = k
      BY <1>4, <1>5, <2>2
    <3>2. k \in DOMAIN rest /\ rest[k].fn \in Callers
      BY <3>1 DEF Well, Called, Callers
    <3> QED  BY <1>5, <3>2
  <2> QED  BY <2>1, <2>2
<1> QED
  BY <1>3, <1>4, <1>5, <1>7, <1>8, <1>9 DEF Well, Call, s, f

LEMMA WellPop ==
  ASSUME NEW s, Well(s), s # <<>>
  PROVE  /\ Head(s) \in Frames /\ Tail(s) \in Seq(Frames) /\ Well(Tail(s))
         /\ CallsOf(s) = {Head(s)} \cup CallsOf(Tail(s))
         /\ \A g \in CallsOf(Tail(s)) : g \in Frames /\ Apart(Head(s), g)
         /\ Head(s).fn = "Created" => Tail(s) # <<>> /\ Head(Tail(s)).fn \in Callers
<1> DEFINE t == Tail(s)
<1>1. /\ s \in Seq(Frames)
      /\ Head(s) \in Frames /\ t \in Seq(Frames)
      /\ Len(t) = Len(s) - 1
      /\ \A k \in 1 .. Len(t) : t[k] = s[k + 1]
  BY HeadTailProperties DEF Well
<1>2. Len(s) \in Nat \ {0} /\ DOMAIN s = 1 .. Len(s) /\ Head(s) = s[1]
  BY <1>1, EmptySeq
<1>3. DOMAIN t = 1 .. Len(s) - 1
  BY <1>1, <1>2
<1>4. \A k \in DOMAIN t : k + 1 \in DOMAIN s /\ t[k] = s[k + 1]
  BY <1>1, <1>2, <1>3
<1> HIDE DEF t
<1>5. AllApart(t)
  <2> SUFFICES ASSUME NEW j \in DOMAIN t, NEW k \in DOMAIN t, j < k
               PROVE  Apart(t[j], t[k])
    BY DEF AllApart
  <2>1. j + 1 < k + 1
    BY <1>2, <1>3
  <2> QED  BY <1>4, <2>1 DEF AllApart, Well
<1>6. Called(t)
  <2> SUFFICES ASSUME NEW k \in DOMAIN t, t[k].fn = "Created"
               PROVE  k + 1 \in DOMAIN t /\ t[k + 1].fn \in Callers
    BY DEF Called, Callers
  <2>1. k + 1 \in DOMAIN s /\ s[k + 1].fn = "Created"
    BY <1>4
  <2>2. (k + 1) + 1 \in DOMAIN s /\ s[(k + 1) + 1].fn \in Callers
    BY <2>1 DEF Well, Called, Callers
  <2>3. k + 1 \in DOMAIN t
    BY <1>2, <1>3, <2>2
  <2> QED  BY <1>4, <2>2, <2>3
<1>7. CallsOf(s) = {Head(s)} \cup CallsOf(t)
  <2>1. \A k \in DOMAIN s : k = 1 \/ (k - 1 \in DOMAIN t /\ s[k] = t[k - 1])
    <3> SUFFICES ASSUME NEW k \in DOMAIN s, k # 1
                 PROVE  k - 1 \in DOMAIN t /\ s[k] = t[k - 1]
      OBVIOUS
    <3>1. k - 1 \in DOMAIN t /\ (k - 1) + 1 = k
      BY <1>2, <1>3
    <3> QED  BY <1>4, <3>1
  <2>2. 1 \in DOMAIN s
    BY <1>2
  <2> QED  BY <1>2, <1>4, <2>1, <2>2 DEF CallsOf
<1>8. ASSUME NEW g \in CallsOf(t) PROVE g \in Frames /\ Apart(Head(s), g)
  <2>1. PICK k \in DOMAIN t : g = t[k]
    BY DEF CallsOf
  <2>2. k + 1 \in DOMAIN s /\ 1 \in DOMAIN s /\ 1 < k + 1 /\ g = s[k + 1]
    BY <1>2, <1>3, <1>4, <2>1
  <2>3. g \in Frames
    BY <1>1, <2>2
  <2> QED  BY <1>2, <2>2, <2>3 DEF AllApart, Well
<1>9. Head(s).fn = "Created" => t # <<>> /\ Head(t).fn \in Callers
  <2> SUFFICES ASSUME Head(s).fn = "Created"
               PROVE  t # <<>> /\ Head(t).fn \in Callers
    OBVIOUS
  <2>1. 1 \in DOMAIN s /\ s[1].fn = "Created"
    BY <1>2
  <2>2. 1 + 1 \in DOMAIN s /\ s[1 + 1].fn \in Callers
    BY <2>1 DEF Well, Called, Callers
  <2>3. 1 \in DOMAIN t
    BY <1>2, <1>3, <2>2
  <2>4. t # <<>> /\ Head(t) = t[1]
    BY <1>1, <2>3
  <2>5. t[1] = s[1 + 1]
    BY <1>4, <2>3
  <2> QED  BY <2>2, <2>4, <2>5
<1> QED  BY <1>1, <1>5, <1>6, <1>7, <1>8, <1>9 DEF Well, t

(* What is left when an exception ends two calls.                          *)
LEMMA TwoPopped ==
  ASSUME NEW s \in Seq(Frames), s # <<>>, Tail(s) # <<>>
  PROVE  SubSeq(s, 3, Len(s)) = Tail(Tail(s))
<1> DEFINE t == Tail(s)
           u == Tail(t)
           v == SubSeq(s, 3, Len(s))
<1>1. /\ t \in Seq(Frames) /\ Len(t) = Len(s) - 1 /\ Len(s) \in Nat
      /\ \A k \in 1 .. Len(t) : t[k] = s[k + 1]
  BY HeadTailProperties
<1> HIDE DEF t
<1>2. /\ u \in Seq(Frames) /\ Len(u) = Len(t) - 1 /\ Len(t) \in Nat \ {0}
      /\ \A k \in 1 .. Len(u) : u[k] = t[k + 1]
  BY <1>1, HeadTailProperties, EmptySeq DEF t
<1>3. \A k \in 1 .. Len(s) : s[k] \in Frames
  OBVIOUS
<1>4. /\ v \in Seq(Frames) /\ Len(v) = Len(s) - 2
      /\ \A k \in 1 .. Len(s) - 2 : v[k] = s[k + 2]
  <2>1. CASE Len(s) = 2
    <3>1. v = <<>>
      BY <2>1, SubSeqEmpty
    <3> HIDE DEF v
    <3> QED  BY <2>1, <3>1
  <2>2. CASE Len(s) >= 3
    BY <1>1, <1>3, <2>2
  <2> QED  BY <1>1, <1>2, <2>1, <2>2
<1> HIDE DEF u, v
<1>5. \A k \in 1 .. Len(u) : u[k] = v[k]
  <2> SUFFICES ASSUME NEW k \in 1 .. Len(u)
               PROVE  u[k] = v[k]
    OBVIOUS
  <2>1. /\ k \in 1 .. Len(s) - 2 /\ k + 1 \in 1 .. Len(t)
        /\ (k + 1) + 1 = k + 2
    BY <1>1, <1>2
  <2>2. u[k] = t[k + 1] /\ t[k + 1] = s[(k + 1) + 1] /\ v[k] = s[k + 2]
    BY <1>1, <1>2, <1>4, <2>1
  <2> QED  BY <2>1, <2>2
<1>6. Len(u) = Len(v)
  BY <1>1, <1>2, <1>4
<1>7. u = v
  BY <1>2, <1>4, <1>5, <1>6, SeqEqual
<1> QED  BY <1>7 DEF u, v, t

(* What an emission of a dropped signal is like before and after.          *)
Like(f, g, i) ==
  f = g \/ /\ f.fn = "DestroyedOwn" /\ g.fn = "DestroyedFreed"
           /\ f.id = i /\ g.id = i /\ f.flag = g.flag

LEMMA WellDrop ==
  ASSUME NEW s, Well(s), NEW i \in Ids
  PROVE  /\ Well(DropEvents(i, s))
         /\ \A g \in CallsOf(DropEvents(i, s)) : \E f \in CallsOf(s) : Like(f, g, i)
         /\ \A f \in CallsOf(s) : \E g \in CallsOf(DropEvents(i, s)) : Like(f, g, i)
<1> DEFINE t == DropEvents(i, s)
<1>1. /\ Len(s) \in Nat /\ DOMAIN s = 1 .. Len(s) /\ s \in Seq(Frames)
      /\ \A k \in DOMAIN s : s[k] \in Frames
  BY DEF Well
<1>2. DOMAIN t = DOMAIN s
  BY DEF DropEvents
<1>3. ASSUME NEW k \in DOMAIN s
      PROVE  /\ t[k] \in Frames /\ t[k].id = s[k].id /\ t[k].flag = s[k].flag
             /\ \/ t[k] = s[k]
                \/ t[k].fn = "DestroyedFreed" /\ t[k].id = i /\ s[k].fn = "DestroyedOwn"
  BY <1>1, <1>3 DEF DropEvents, Frames, Calls, Emissions
<1> HIDE DEF t
<1>4. t \in Seq(Frames)
  <2>1. t = [k \in 1 .. Len(s) |-> t[k]]
    BY <1>1, <1>2 DEF t, DropEvents
  <2> QED  BY <1>1, <1>3, <2>1, IsASeq
<1>5. \A k \in DOMAIN s : Like(s[k], t[k], i)
  BY <1>3 DEF Like
<1>6. AllApart(t)
  <2> SUFFICES ASSUME NEW j \in DOMAIN t, NEW k \in DOMAIN t, j < k
               PROVE  Apart(t[j], t[k])
    BY DEF AllApart
  <2>1. Apart(s[j], s[k])
    BY <1>2 DEF AllApart, Well
  <2> QED  BY <1>2, <1>5, <2>1 DEF Apart, Deleting, Reported, Like
<1>7. Called(t)
  <2> SUFFICES ASSUME NEW k \in DOMAIN t, t[k].fn = "Created"
               PROVE  k + 1 \in DOMAIN t /\ t[k + 1].fn \in Callers
    BY DEF Called, Callers
  <2>1. k \in DOMAIN s /\ s[k].fn = "Created"
    BY <1>2, <1>5 DEF Like
  <2>2. k + 1 \in DOMAIN s /\ s[k + 1].fn \in Callers
    BY <2>1 DEF Well, Called, Callers
  <2> QED  BY <1>2, <1>5, <2>2 DEF Like, Callers
<1>8. /\ \A g \in CallsOf(t) : \E f \in CallsOf(s) : Like(f, g, i)
      /\ \A f \in CallsOf(s) : \E g \in CallsOf(t) : Like(f, g, i)
  BY <1>2, <1>5 DEF CallsOf
<1> QED  BY <1>4, <1>6, <1>7, <1>8 DEF Well, t

LEMMA WellNothing == Well(<<>>) /\ CallsOf(<<>>) = {}
BY NoCalls DEF Well, AllApart, Called

-----------------------------------------------------------------------------
(* What holds of the innermost call and of those it returns to.            *)
LEMMA RunningOwned ==
  ASSUME OwnedInv, NEW fn \in Calls, In(fn)
  PROVE  /\ stack # <<>> /\ Running = fn /\ Head(stack) \in Frames /\ Head(stack).fn = fn
         /\ InPool(Head(stack)) /\ DeletionPending(Head(stack)) /\ Relies(Head(stack))
         /\ Tail(stack) \in Seq(Frames) /\ Well(Tail(stack))
         /\ CallsOf(stack) = {Head(stack)} \cup CallsOf(Tail(stack))
         /\ \A g \in CallsOf(Tail(stack)) :
              /\ g \in Frames /\ g \in CallsOf(stack) /\ InPool(g)
              /\ Within(Head(stack), g) /\ Apart(Head(stack), g)
              /\ DeletionPending(g) /\ Relies(g) /\ (g.fn = "Delete" => g.flag)
         /\ fn = "Created" => Tail(stack) # <<>> /\ Head(Tail(stack)).fn \in Callers
<1>1. IInv /\ Well(stack) /\ stack \in Seq(Frames)
  BY DEF OwnedInv, IInv, TypeOK, Well
<1>2. /\ stack # <<>> /\ Head(stack) \in Frames /\ Head(stack).fn = fn
      /\ InPool(Head(stack)) /\ DeletionPending(Head(stack))
      /\ \A g \in CallsOf(Tail(stack)) :
           g \in Frames /\ Within(Head(stack), g) /\ InPool(g) /\ DeletionPending(g)
  BY <1>1, RunningProperties
<1>3. /\ Tail(stack) \in Seq(Frames) /\ Well(Tail(stack))
      /\ CallsOf(stack) = {Head(stack)} \cup CallsOf(Tail(stack))
      /\ \A g \in CallsOf(Tail(stack)) : Apart(Head(stack), g)
      /\ Head(stack).fn = "Created" => Tail(stack) # <<>> /\ Head(Tail(stack)).fn \in Callers
  BY <1>1, <1>2, WellPop
<1>4. \A g \in CallsOf(stack) : Relies(g)
  BY DEF OwnedInv
<1>5. \A g \in CallsOf(Tail(stack)) : g.fn = "Delete" => g.flag
  BY <1>2 DEF Within
<1>6. Running = fn
  BY DEF In
<1> QED  BY <1>2, <1>3, <1>4, <1>5, <1>6

(* The same while a script runs.                                           *)
LEMMA ScriptOwned ==
  ASSUME OwnedInv, ScriptRuns
  PROVE  /\ Well(stack) /\ stack \in Seq(Frames) /\ Running # "NewReturn"
         /\ \A g \in CallsOf(stack) :
              /\ g \in Frames /\ InPool(g) /\ DeletionPending(g) /\ Relies(g)
              /\ g.fn # "Pool" /\ (g.fn = "Delete" => g.flag)
<1>1. IInv /\ Well(stack) /\ stack \in Seq(Frames)
  BY DEF OwnedInv, IInv, TypeOK, Well
<1>2. \A g \in CallsOf(stack) :
        /\ g \in Frames /\ InPool(g) /\ DeletionPending(g)
        /\ g.fn = "Delete" => g.flag
  BY <1>1, ScriptProperties
<1>3. \A g \in CallsOf(stack) : Relies(g)
  BY DEF OwnedInv
<1>4. \A g \in CallsOf(stack) : g.fn # "Pool"
  <2>1. CASE stack = <<>>
    BY <2>1, NoCalls
  <2>2. CASE stack # <<>>
    <3>1. Head(stack).fn # "Pool"
      BY <2>2 DEF ScriptRuns, Running, Emissions
    <3>2. /\ CallsOf(stack) = {Head(stack)} \cup CallsOf(Tail(stack))
          /\ \A g \in CallsOf(Tail(stack)) : Apart(Head(stack), g)
      BY <1>1, <2>2, WellPop
    <3> QED  BY <3>1, <3>2 DEF Apart
  <2> QED  BY <2>1, <2>2
<1>5. Running # "NewReturn"
  BY DEF ScriptRuns, Emissions
<1> QED  BY <1>1, <1>2, <1>3, <1>4, <1>5

(* What a call relies on stays if its entity and its instance do.          *)
Untouched(q) == /\ mID'[q] = mID[q] /\ mFlags'[q] = mFlags[q] /\ server'[q] = server[q]
                /\ q \in ours' <=> q \in ours

LEMMA ReliesStays ==
  ASSUME NEW f, InPool(f), Relies(f), f.fn = "Delete" => f.flag,
         f.id \in Ids => Untouched(f.id)
  PROVE  Relies(f)'
<1>1. CASE f.id \in Ids
  BY <1>1 DEF Relies, Owned, IsValid, Reported, Untouched
<1>2. CASE f.id \notin Ids
  BY <1>2 DEF InPool, Relies, Reported
<1> QED  BY <1>1, <1>2

(* The calls about q that its state depends on are kept.                   *)
Kept(q) ==
  /\ \A f \in CallsOf(stack) :
       f.id = q /\ f.fn \in {"Delete", "ServerDelete", "New"} => f \in CallsOf(stack')
  /\ (\E f \in CallsOf(stack) : Ending(f) /\ f.id = q)
       => \E f \in CallsOf(stack') : Ending(f) /\ f.id = q

LEMMA OwnedStays ==
  ASSUME NEW q \in Ids, OwnedWhere(q), Untouched(q), Kept(q),
         ~(Running = "NewReturn" /\ Head(stack).id = q /\ IsValid(q))
  PROVE  OwnedWhere(q)'
<1>1. Owned(q)' <=> Owned(q)
  BY DEF Owned, IsValid, Untouched
<1>2. /\ (\E f \in CallsOf(stack) : f.fn = "Delete" /\ f.id = q)
           => \E f \in CallsOf(stack)' : f.fn = "Delete" /\ f.id = q
      /\ (\E f \in CallsOf(stack) : Deleting(f) /\ f.id = q)
           => \E f \in CallsOf(stack)' : Deleting(f) /\ f.id = q
      /\ Creating(q) => Creating(q)'
      /\ (\E f \in CallsOf(stack) : Ending(f) /\ f.id = q)
           => \E f \in CallsOf(stack)' : Ending(f) /\ f.id = q
  BY DEF Kept, Deleting, Creating, CallsOf
<1> QED  BY <1>1, <1>2 DEF OwnedWhere, Untouched, Deleting, Ending

LEMMA OwnedTogether ==
  ASSUME IInv', Well(stack'), \A f \in CallsOf(stack') : Relies(f)', \A q \in Ids : OwnedWhere(q)'
  PROVE  OwnedInv'
BY DEF OwnedInv, Well, CallsOf, AllApart, Called, Apart, Deleting, Reported

(* A step of calls alone.                                                  *)
LEMMA StackOwned ==
  ASSUME OwnedInv, IInv', Well(stack'), UNCHANGED <<mID, mFlags, server, ours>>,
         Running # "NewReturn",
         \A f \in CallsOf(stack') : InPool(f) /\ Relies(f) /\ (f.fn = "Delete" => f.flag),
         \A q \in Ids : Kept(q)
  PROVE  OwnedInv'
<1>1. \A q \in Ids : Untouched(q)
  BY DEF Untouched
<1>2. \A f \in CallsOf(stack') : Relies(f)'
  BY <1>1, ReliesStays
<1>3. \A q \in Ids : OwnedWhere(q)'
  BY <1>1, OwnedStays DEF OwnedInv
<1> QED  BY <1>2, <1>3, OwnedTogether

-----------------------------------------------------------------------------
(* One lemma per operation, or for those that are alike.                   *)

(* Nothing happens that matters here.                                      *)
LEMMA SameOwned ==
  ASSUME OwnedInv, IInv', UNCHANGED <<mID, mFlags, server, ours, stack>>
  PROVE  OwnedInv'
<1>1. \A f : Relies(f) => Relies(f)'
  BY DEF Relies, Reported, Owned, IsValid, Creating, CallsOf
<1>2. \A q : OwnedWhere(q) => OwnedWhere(q)'
  BY DEF OwnedWhere, Owned, IsValid, Creating, CallsOf, Running, Deleting, Ending
<1>3. AllApart(stack') /\ Called(stack') /\ stack' \in Seq(Frames)
  BY DEF OwnedInv, IInv, TypeOK
<1> QED  BY <1>1, <1>2, <1>3, OwnedTogether DEF OwnedInv, CallsOf, Well

(* Listeners that matter to no deletion have returned.                     *)
LEMMA ReturnOwned ==
  ASSUME OwnedInv, IInv', NEW fn \in {"Created", "EntityPool"}, Returns(fn, Tail(stack))
  PROVE  OwnedInv'
<1>1. fn \in Calls /\ In(fn) /\ UNCHANGED <<mID, mFlags, server, ours>> /\ stack' = Tail(stack)
  BY DEF Returns, Calls, Emissions, pool
<1>2. /\ Running = fn /\ Head(stack).fn = fn /\ Well(stack')
      /\ CallsOf(stack) = {Head(stack)} \cup CallsOf(stack')
      /\ \A g \in CallsOf(stack') : InPool(g) /\ Relies(g) /\ (g.fn = "Delete" => g.flag)
  BY <1>1, RunningOwned
<1>3. \A q \in Ids : Kept(q)
  BY <1>2 DEF Kept, Ending
<1> QED  BY <1>1, <1>2, <1>3, StackOwned

(* A listener of a creation fails: only what it was for ends with it.      *)
LEMMA CreatedThrowsOwned ==
  ASSUME OwnedInv, IInv', CreatedThrows
  PROVE  OwnedInv'
<1>1. /\ "Created" \in Calls /\ In("Created") /\ UNCHANGED <<mID, mFlags, server, ours>>
      /\ stack' = SubSeq(stack, 3, Len(stack))
  BY DEF CreatedThrows, Returns, Calls, Emissions, pool
<1>2. /\ Running = "Created" /\ Head(stack).fn = "Created" /\ stack # <<>>
      /\ CallsOf(stack) = {Head(stack)} \cup CallsOf(Tail(stack))
      /\ Well(Tail(stack)) /\ Tail(stack) # <<>> /\ Head(Tail(stack)).fn \in Callers
      /\ \A g \in CallsOf(Tail(stack)) :
           InPool(g) /\ Relies(g) /\ (g.fn = "Delete" => g.flag)
  BY <1>1, RunningOwned
<1>3. stack' = Tail(Tail(stack))
  BY <1>1, <1>2, TwoPopped DEF OwnedInv, IInv, TypeOK
<1>4. Well(stack') /\ CallsOf(Tail(stack)) = {Head(Tail(stack))} \cup CallsOf(stack')
  BY <1>2, <1>3, WellPop
<1>5. \A q \in Ids : Kept(q)
  BY <1>2, <1>4 DEF Kept, Ending, Callers
<1> QED  BY <1>1, <1>2, <1>4, <1>5, StackOwned

(* Destroy goes from one emission to the next, and on to the release.      *)
LEMMA DestroyedReturnsOwned ==
  ASSUME OwnedInv, IInv', NEW fn \in {"DestroyedOwn", "DestroyedFreed", "DestroyedAll"},
         NEW to \in {"DestroyedAll", "Release"},
         Returns(fn, Call(to, Head(stack).id, Head(stack).flag, Tail(stack)))
  PROVE  OwnedInv'
<1> DEFINE i == Head(stack).id
           flag == Head(stack).flag
           f == [fn |-> to, id |-> i, flag |-> flag]
<1>1. /\ fn \in Calls /\ In(fn) /\ to \in Calls /\ UNCHANGED <<mID, mFlags, server, ours>>
      /\ stack' = Call(to, i, flag, Tail(stack))
  BY DEF Returns, Calls, Emissions, pool
<1>2. /\ Running = fn /\ Head(stack).fn = fn /\ Head(stack) \in Frames
      /\ InPool(Head(stack)) /\ Relies(Head(stack)) /\ Well(Tail(stack))
      /\ CallsOf(stack) = {Head(stack)} \cup CallsOf(Tail(stack))
      /\ \A g \in CallsOf(Tail(stack)) : /\ Apart(Head(stack), g)
                                         /\ InPool(g) /\ Relies(g) /\ (g.fn = "Delete" => g.flag)
  BY <1>1, RunningOwned
<1>3. i \in 0 .. PoolSize /\ flag \in BOOLEAN
  BY <1>2 DEF Frames
<1>4. InPool(f) /\ Relies(f) /\ Ending(f) /\ f.fn # "Delete"
  BY <1>2 DEF InPool, Relies, Reported, Ending
<1>5. \A g \in CallsOf(Tail(stack)) : Apart(f, g)
  BY <1>2 DEF Apart, Deleting
<1>6. f.id = Head(stack).id
  OBVIOUS
<1> HIDE DEF i, flag
<1>7. Well(stack') /\ CallsOf(stack') = {f} \cup CallsOf(Tail(stack))
  BY <1>1, <1>2, <1>3, <1>5, WellPush
<1> HIDE DEF f
<1>8. \A q \in Ids : Kept(q)
  <2> SUFFICES ASSUME NEW q \in Ids PROVE Kept(q)
    OBVIOUS
  <2>1. \A g \in CallsOf(stack) :
          g.id = q /\ g.fn \in {"Delete", "ServerDelete", "New"} => g \in CallsOf(stack')
    BY <1>2, <1>7
  <2>2. (\E g \in CallsOf(stack) : Ending(g) /\ g.id = q)
          => \E g \in CallsOf(stack') : Ending(g) /\ g.id = q
    BY <1>2, <1>4, <1>6, <1>7
  <2> QED  BY <2>1, <2>2 DEF Kept
<1> QED  BY <1>1, <1>2, <1>4, <1>7, <1>8, StackOwned

(* The start of Destroy, from calls that do not delete the instance.       *)
LEMMA DestroyOwned ==
  ASSUME OwnedInv, IInv', UNCHANGED <<mID, mFlags, server, ours>>, Running # "NewReturn",
         NEW i \in Ids, NEW destroy \in BOOLEAN, ~destroy => server[i] = "deleting",
         NEW rest, Well(rest), Destroy(i, destroy, rest),
         \A g \in CallsOf(rest) :
           InPool(g) /\ Relies(g) /\ g.fn # "Pool" /\ (g.fn = "Delete" => g.flag),
         \A g \in CallsOf(stack) :
           g \in CallsOf(rest) \/ (g.fn \in {"Pool", "Cleanup"} /\ (g.flag => g.id = i \/ g.fn = "Cleanup"))
  PROVE  OwnedInv'
<1>1. PICK fn \in {"DestroyedOwn", "Release"} : stack' = Call(fn, i, destroy, rest)
  BY DEF Destroy
<1> DEFINE f == [fn |-> fn, id |-> i, flag |-> destroy]
<1>2. i \in 0 .. PoolSize /\ fn \in Calls
  BY EntityAssumption DEF Ids, Calls, Emissions
<1>3. InPool(f) /\ Relies(f) /\ Ending(f) /\ f.fn # "Delete" /\ f.id = i
  BY DEF InPool, Relies, Reported, Ending
<1>4. \A g \in CallsOf(rest) : Apart(f, g)
  BY DEF Apart, Deleting
<1>5. Well(stack') /\ CallsOf(stack') = {f} \cup CallsOf(rest)
  BY <1>1, <1>2, <1>4, WellPush
<1> HIDE DEF f
<1>6. \A q \in Ids : Kept(q)
  <2> SUFFICES ASSUME NEW q \in Ids PROVE Kept(q)
    OBVIOUS
  <2>1. \A g \in CallsOf(stack) :
          g.id = q /\ g.fn \in {"Delete", "ServerDelete", "New"} => g \in CallsOf(stack')
    BY <1>5
  <2>2. (\E g \in CallsOf(stack) : Ending(g) /\ g.id = q)
          => \E g \in CallsOf(stack') : Ending(g) /\ g.id = q
    <3> SUFFICES ASSUME NEW g \in CallsOf(stack), Ending(g), g.id = q
                 PROVE  \E h \in CallsOf(stack') : Ending(h) /\ h.id = q
      OBVIOUS
    <3>1. CASE g \in CallsOf(rest)
      BY <1>5, <3>1
    <3>2. CASE g \notin CallsOf(rest)
      <4>1. g.fn = "Pool" /\ g.flag /\ g.id = i
        BY <3>2 DEF Ending
      <4> QED  BY <1>3, <1>5, <4>1
    <3> QED  BY <3>1, <3>2
  <2> QED  BY <2>1, <2>2 DEF Kept
<1> QED  BY <1>3, <1>5, <1>6, StackOwned

LEMMA DestroyHandleOwned ==
  ASSUME OwnedInv, IInv', NEW h \in Handles, DestroyHandle(h)
  PROVE  OwnedInv'
<1>1. /\ ScriptRuns /\ m_ID[h] # -1 /\ Dealloc(m_ID[h], TRUE, stack)
      /\ UNCHANGED <<mID, mFlags, server, ours, pool, undefined>>
  BY DEF DestroyHandle, ScriptCalls, pool
<1>2. m_ID[h] \in Ids
  BY <1>1 DEF OwnedInv, IInv, TypeOK
<1>3. PICK i \in Ids : i = m_ID[h]
  BY <1>2
<1>4. CASE Destroy(i, TRUE, stack)
  BY <1>1, <1>4, ScriptOwned, DestroyOwned
<1>5. CASE stack' = stack
  BY <1>1, <1>5, SameOwned
<1> QED  BY <1>1, <1>3, <1>4, <1>5 DEF Dealloc

(* AllocBlip makes an instance: owned if it is NewBlip that calls it.      *)
LEMMA AllocatedOwned ==
  ASSUME OwnedInv, IInv', NEW i \in Ids, NEW owned \in BOOLEAN, NEW rest,
         Alloc(i, owned, rest), UNCHANGED <<server, ours>>,
         ~IsValid(i), server[i] # "none", owned => i \in ours /\ server[i] = "exists",
         Running \notin {"NewReturn", "Delete"}, owned <=> Running = "New",
         Well(rest), rest # <<>>, Head(rest).fn \in Callers,
         \A g \in CallsOf(rest) :
           /\ InPool(g) /\ Relies(g) /\ DeletionPending(g) /\ g.fn # "Pool"
           /\ g.fn = "Delete" => g.flag
           /\ owned => ~(g.fn = "New" /\ g.id = i),
         \A g \in CallsOf(stack) :
           \/ g \in CallsOf(rest)
           \/ g.fn = "Import"
           \/ g.fn = "Pool" /\ g.id = i
           \/ g.fn = "New" /\ g.id = i /\ owned
  PROVE  OwnedInv'
<1> DEFINE f == [fn |-> "Created", id |-> i, flag |-> FALSE]
<1>1. /\ mID' = [mID EXCEPT ![i] = i]
      /\ mFlags' = [mFlags EXCEPT ![i] = AllocFlags(i, owned)]
      /\ stack' = Call("Created", i, FALSE, rest)
  BY DEF Alloc
<1>2. /\ i \in Int /\ i # -1 /\ i \in 0 .. PoolSize
      /\ mID \in [Ids -> Ids \cup {-1}] /\ mFlags \in [Ids -> SUBSET Flags]
  BY EntityAssumption DEF Ids, OwnedInv, IInv, TypeOK
<1>3. /\ mID'[i] # -1
      /\ owned => "OWNED" \in mFlags'[i]
      /\ ~owned => "OWNED" \notin mFlags'[i]
      /\ "LOCKED" \in mFlags'[i] <=> "LOCKED" \in mFlags[i]
      /\ \A q \in Ids : q # i => Untouched(q)
  BY <1>1, <1>2 DEF AllocFlags, Untouched
<1>4. Owned(i)' <=> owned
  BY <1>3 DEF Owned, IsValid
<1>5. /\ Well(stack') /\ CallsOf(stack') = {f} \cup CallsOf(rest)
  <2>1. \A g \in CallsOf(rest) : Apart(f, g)
    BY DEF Apart, Deleting
  <2>2. "Created" \in Calls
    BY DEF Calls, Emissions
  <2> QED  BY <1>1, <1>2, <2>1, <2>2, WellPush
<1>6. \A g \in CallsOf(stack') : Relies(g)'
  <2>1. Relies(f)'
    BY DEF Relies, Reported
  <2>2. ASSUME NEW g \in CallsOf(rest), g.id = i PROVE Relies(g)'
    <3>1. /\ g.fn # "Pool" /\ ~(g.fn = "Delete")
          /\ g.fn = "New" => server[i] = "exists" /\ i \in ours /\ ~owned
          /\ g.fn = "NewReturn" /\ server[i] # "none" => i \in ours
          /\ Reported(g) => server[i] = "deleting"
      BY <2>2 DEF Relies, DeletionPending
    <3> QED  BY <1>4, <2>2, <3>1 DEF Relies, Reported
  <2>3. ASSUME NEW g \in CallsOf(rest), g.id # i PROVE Relies(g)'
    BY <1>3, <2>3, ReliesStays
  <2> HIDE DEF f
  <2>4. ASSUME NEW g \in CallsOf(stack') PROVE g = f \/ g \in CallsOf(rest)
    BY <1>5
  <2>5. ASSUME NEW g \in CallsOf(rest) PROVE Relies(g)'
    BY <2>2, <2>3
  <2>6. ASSUME NEW g, g = f PROVE Relies(g)'
    BY <2>1, <2>6 DEF f, Relies, Reported
  <2> QED  BY <2>4, <2>5, <2>6
<1> HIDE DEF f
<1>7. OwnedWhere(i)
  BY DEF OwnedInv
<1>8. ~Owned(i)
  BY DEF Owned
<1>9. OwnedWhere(i)'
  <2>1. Owned(i)' => server'[i] # "none" /\ i \in ours'
    BY <1>4
  <2>2. "LOCKED" \in mFlags'[i] => \E g \in CallsOf(stack)' : g.fn = "Delete" /\ g.id = i
    BY <1>3, <1>5, <1>7 DEF OwnedWhere, CallsOf
  <2>3. server'[i] = "deleting" => \E g \in CallsOf(stack)' : Deleting(g) /\ g.id = i
    BY <1>5, <1>7 DEF OwnedWhere, CallsOf, Deleting
  <2>4. ~(server'[i] = "deleting" /\ Owned(i)')
    BY <1>4
  <2>5. i \in ours' => Owned(i)' \/ server'[i] = "deleting" \/ Creating(i)'
    BY <1>4, <1>5, <1>7, <1>8 DEF OwnedWhere, Creating, CallsOf
  <2> QED  BY <2>1, <2>2, <2>3, <2>4, <2>5 DEF OwnedWhere, Deleting
<1>10. ASSUME NEW q \in Ids, q # i PROVE OwnedWhere(q)'
  <2>1. Kept(q)
    BY <1>5, <1>10 DEF Kept, Ending
  <2> QED  BY <1>3, <1>10, <2>1, OwnedStays DEF OwnedInv
<1> QED  BY <1>5, <1>6, <1>9, <1>10, OwnedTogether

(* The loops over the pool are outermost.                                  *)
LEMMA LoopOwned ==
  ASSUME NEW fn \in {"Import", "Cleanup"}, NEW i \in 0 .. PoolSize, NEW flag \in BOOLEAN
  PROVE  /\ Well(Call(fn, i, flag, <<>>)) /\ Call(fn, i, flag, <<>>) # <<>>
         /\ Head(Call(fn, i, flag, <<>>)).fn = fn
         /\ \A g \in CallsOf(Call(fn, i, flag, <<>>)) :
              /\ g.fn = fn /\ g.id = i /\ g.flag = flag
              /\ InPool(g) /\ Relies(g) /\ DeletionPending(g)
<1> DEFINE f == [fn |-> fn, id |-> i, flag |-> flag]
<1>1. fn \in Calls
  BY DEF Calls
<1>2. /\ Well(Call(fn, i, flag, <<>>)) /\ Call(fn, i, flag, <<>>) # <<>>
      /\ Head(Call(fn, i, flag, <<>>)) = f
      /\ CallsOf(Call(fn, i, flag, <<>>)) = {f} \cup CallsOf(<<>>)
  <2>1. /\ Well(<<>>) /\ fn # "Created"
        /\ \A g \in CallsOf(<<>>) : Apart([fn |-> fn, id |-> i, flag |-> flag], g)
    BY WellNothing
  <2> QED  BY <1>1, <2>1, WellPush
<1>3. ASSUME NEW g, g = f
      PROVE  /\ g.fn = fn /\ g.id = i /\ g.flag = flag
             /\ InPool(g) /\ Relies(g) /\ DeletionPending(g)
  BY <1>3 DEF InPool, Relies, DeletionPending, Deleting, Reported
<1> QED  BY <1>2, <1>3, WellNothing

LEMMA ImportOwned ==
  ASSUME OwnedInv, IInv', Import
  PROVE  OwnedInv'
<1> DEFINE i == Head(stack).id
           rest == Call("Import", i + 1, FALSE, Tail(stack))
<1>1. "Import" \in Calls /\ In("Import") /\ UNCHANGED <<server, ours>>
  BY DEF Import, Calls
<1>2. /\ Running = "Import" /\ Head(stack).fn = "Import" /\ Head(stack) \in Frames
      /\ CallsOf(stack) = {Head(stack)} \cup CallsOf(Tail(stack))
      /\ Tail(stack) \in Seq(Frames)
      /\ \A g \in CallsOf(Tail(stack)) : Within(Head(stack), g)
  BY <1>1, RunningOwned
<1>3. CallsOf(Tail(stack)) = {}
  BY <1>2 DEF Within
<1>4. Tail(stack) = <<>>
  <2> DEFINE t == Tail(stack)
  <2>1. t \in Seq(Frames) /\ Len(t) \in Nat /\ DOMAIN t = 1 .. Len(t)
    BY <1>2
  <2> HIDE DEF t
  <2>2. DOMAIN t = {}
    BY <1>3 DEF CallsOf, t
  <2>3. ~(1 <= Len(t))
    BY <2>1, <2>2
  <2>4. Len(t) = 0
    BY <2>1, <2>3
  <2> QED  BY <2>1, <2>4, EmptySeq DEF t
<1>5. i \in 0 .. PoolSize
  BY <1>2 DEF Frames
<1>6. \A q \in Ids : \A g \in CallsOf(stack) : ~(g.fn \in {"Delete", "ServerDelete", "New"}) /\ ~Ending(g)
  BY <1>2, <1>3 DEF Ending
<1>7. \A q \in Ids : Kept(q)
  BY <1>6 DEF Kept
<1>8. CASE i = PoolSize
  <2>1. stack' = <<>> /\ UNCHANGED <<mID, mFlags>>
    BY <1>4, <1>8 DEF Import, pool
  <2> QED  BY <1>1, <1>2, <1>7, <2>1, WellNothing, StackOwned
<1>9. CASE i # PoolSize
  <2>1. i \in Ids /\ i + 1 \in 0 .. PoolSize
    BY <1>5, <1>9, EntityAssumption DEF Ids
  <2>2. /\ Well(rest) /\ rest # <<>> /\ Head(rest).fn = "Import"
        /\ \A g \in CallsOf(rest) :
             g.fn = "Import" /\ InPool(g) /\ Relies(g) /\ DeletionPending(g)
    <3> HIDE DEF i
    <3>1. rest = Call("Import", i + 1, FALSE, <<>>)
      BY <1>4
    <3>2. PICK j \in 0 .. PoolSize : j = i + 1
      BY <2>1
    <3>3. rest = Call("Import", j, FALSE, <<>>)
      BY <3>1, <3>2
    <3> HIDE DEF rest
    <3> QED  BY <3>3, LoopOwned
  <2>3. IF server[i] # "none" THEN Alloc(i, FALSE, rest)
                              ELSE stack' = rest /\ UNCHANGED pool
    BY <1>9 DEF Import
  <2> HIDE DEF rest
  <2>4. CASE stack' = rest /\ UNCHANGED <<mID, mFlags>>
    BY <1>1, <1>2, <1>7, <2>2, <2>4, StackOwned
  <2>5. CASE server[i] # "none" /\ Alloc(i, FALSE, rest) /\ ~IsValid(i)
    <3>1. \A g \in CallsOf(stack) : g.fn = "Import"
      BY <1>2, <1>3
    <3>2. PICK j \in Ids : j = i
      BY <2>1
    <3> HIDE DEF i
    <3>3. server[j] # "none" /\ Alloc(j, FALSE, rest) /\ ~IsValid(j)
      BY <2>5, <3>2
    <3>4. Head(rest).fn \in Callers /\ Running \notin {"New", "NewReturn", "Delete"}
      BY <1>2, <2>2 DEF Callers
    <3>5. \A g \in CallsOf(rest) : g.fn \notin {"Pool", "Delete", "New"}
      BY <2>2
    <3> QED  BY <1>1, <2>2, <3>1, <3>3, <3>4, <3>5, AllocatedOwned
  <2> QED  BY <2>3, <2>4, <2>5 DEF Alloc, pool
<1> QED  BY <1>8, <1>9

LEMMA IdleOwned ==
  ASSUME OwnedInv, In("Idle")
  PROVE  stack = <<>> /\ CallsOf(stack) = {} /\ Running = "Idle" /\ \A q : Kept(q)
<1>1. stack = <<>> /\ Running = "Idle"
  BY IdleProperties DEF OwnedInv, In
<1> QED  BY <1>1, NoCalls DEF Kept

LEMMA TerminateOwned ==
  ASSUME OwnedInv, IInv', Terminate
  PROVE  OwnedInv'
<1>1. /\ In("Idle") /\ UNCHANGED <<mID, mFlags, server, ours>>
      /\ stack' = Call("Cleanup", 0, TRUE, <<>>) /\ 0 \in 0 .. PoolSize
  BY EntityAssumption DEF Terminate, pool
<1> QED  BY <1>1, IdleOwned, LoopOwned, StackOwned

(* Within the loop of Terminate nothing is in progress but the loop.       *)
LEMMA CleanupAlone ==
  ASSUME OwnedInv, In("Cleanup")
  PROVE  /\ Running = "Cleanup" /\ Head(stack).id \in 0 .. PoolSize
         /\ \A g \in CallsOf(stack) : g.fn = "Cleanup"
<1>1. "Cleanup" \in Calls
  BY DEF Calls
<1>2. /\ Running = "Cleanup" /\ Head(stack).fn = "Cleanup" /\ Head(stack) \in Frames
      /\ CallsOf(stack) = {Head(stack)} \cup CallsOf(Tail(stack))
      /\ \A g \in CallsOf(Tail(stack)) : Apart(Head(stack), g)
  BY <1>1, RunningOwned
<1>3. CallsOf(Tail(stack)) = {}
  BY <1>2 DEF Apart
<1> QED  BY <1>2, <1>3 DEF Frames

LEMMA CleanupNextOwned ==
  ASSUME OwnedInv, IInv', CleanupNext
  PROVE  OwnedInv'
<1>1. /\ In("Cleanup") /\ UNCHANGED <<mID, mFlags, server, ours>>
      /\ Head(stack).id # PoolSize
      /\ Destroy(Head(stack).id, TRUE, Call("Cleanup", Head(stack).id + 1, TRUE, <<>>))
  BY DEF CleanupNext, pool
<1>2. Head(stack).id \in Ids
  BY <1>1, CleanupAlone, EntityAssumption DEF Ids
<1>3. PICK i \in Ids : i = Head(stack).id
  BY <1>2
<1>4. i + 1 \in 0 .. PoolSize
  BY EntityAssumption DEF Ids
<1> DEFINE rest == Call("Cleanup", i + 1, TRUE, <<>>)
<1>5. /\ Well(rest)
      /\ \A g \in CallsOf(rest) : g.fn = "Cleanup" /\ InPool(g) /\ Relies(g)
  BY <1>4, LoopOwned
<1>6. Destroy(i, TRUE, rest)
  BY <1>1, <1>3
<1> HIDE DEF rest
<1>7. \A g \in CallsOf(rest) : InPool(g) /\ Relies(g) /\ g.fn # "Pool" /\ g.fn # "Delete"
  BY <1>5
<1> QED  BY <1>1, <1>5, <1>6, <1>7, CleanupAlone, DestroyOwned

LEMMA CleanupEndOwned ==
  ASSUME OwnedInv, IInv', CleanupEnd
  PROVE  OwnedInv'
<1>1. /\ In("Cleanup") /\ UNCHANGED <<mID, mFlags, server, ours>>
      /\ stack' = Call("Import", 0, FALSE, <<>>) /\ 0 \in 0 .. PoolSize
  BY EntityAssumption DEF CleanupEnd
<1>2. \A q \in Ids : Kept(q)
  BY <1>1, CleanupAlone DEF Kept, Ending
<1> QED  BY <1>1, <1>2, CleanupAlone, LoopOwned, StackOwned

(* EmitEntityPool: the report of a creation or a deletion.                 *)
LEMMA PoolOwned ==
  ASSUME OwnedInv, IInv', Pool
  PROVE  OwnedInv'
<1>1. "Pool" \in Calls /\ "EntityPool" \in Calls /\ In("Pool") /\ UNCHANGED <<server, ours>>
  BY DEF Pool, Calls, Emissions
<1>2. /\ Running = "Pool" /\ Head(stack).fn = "Pool" /\ Head(stack) \in Frames
      /\ InPool(Head(stack)) /\ Relies(Head(stack)) /\ Well(Tail(stack))
      /\ CallsOf(stack) = {Head(stack)} \cup CallsOf(Tail(stack))
      /\ \A g \in CallsOf(Tail(stack)) :
           /\ InPool(g) /\ Relies(g) /\ DeletionPending(g) /\ g.fn # "Pool"
           /\ g.fn = "Delete" => g.flag
  BY <1>1, RunningOwned DEF Apart
<1>3. Head(stack).id \in Ids /\ Head(stack).flag \in BOOLEAN
  BY <1>2 DEF Frames, InPool
<1>4. PICK i \in Ids, deleted \in BOOLEAN : i = Head(stack).id /\ deleted = Head(stack).flag
  BY <1>3
<1>5. i \in 0 .. PoolSize
  BY EntityAssumption DEF Ids
<1> DEFINE rest == Call("EntityPool", i, deleted, Tail(stack))
           f == [fn |-> "EntityPool", id |-> i, flag |-> deleted]
<1>6. InPool(f) /\ Relies(f) /\ DeletionPending(f) /\ f.fn = "EntityPool"
  BY DEF InPool, Relies, Reported, DeletionPending, Deleting
<1>7. \A g \in CallsOf(Tail(stack)) : Apart(f, g)
  BY <1>2 DEF Apart, Deleting
<1>8. /\ Well(rest) /\ rest # <<>> /\ Head(rest).fn = "EntityPool"
      /\ CallsOf(rest) = {f} \cup CallsOf(Tail(stack))
  BY <1>1, <1>2, <1>5, <1>7, WellPush
<1>9. \/ IsValid(i) /\ deleted /\ Dealloc(i, FALSE, rest) /\ UNCHANGED pool
      \/ IsValid(i) /\ ~deleted /\ stack' = rest /\ UNCHANGED pool
      \/ ~IsValid(i) /\ Alloc(i, FALSE, rest)
  BY <1>4 DEF Pool
<1>10. /\ server[i] # "none"
       /\ deleted => server[i] = "deleting"
  BY <1>2, <1>4 DEF Relies, Reported
<1> HIDE DEF rest, f
<1>11. \A g \in CallsOf(rest) :
         /\ InPool(g) /\ Relies(g) /\ DeletionPending(g) /\ g.fn # "Pool"
         /\ g.fn = "Delete" => g.flag
  BY <1>2, <1>6, <1>8
<1>12. \A g \in CallsOf(stack) : g \in CallsOf(rest) \/ (g.fn = "Pool" /\ g.id = i)
  BY <1>2, <1>4, <1>8
<1>13. \A q : \A g \in CallsOf(stack) :
         g.id = q /\ g.fn \in {"Delete", "ServerDelete", "New"} => g \in CallsOf(rest)
  BY <1>12
<1>14. CASE IsValid(i) /\ ~deleted /\ stack' = rest /\ UNCHANGED pool
  <2>1. \A g \in CallsOf(stack) : Ending(g) => g \in CallsOf(rest)
    BY <1>2, <1>4, <1>8, <1>14 DEF Ending
  <2>2. \A q \in Ids : Kept(q)
    BY <1>13, <1>14, <2>1 DEF Kept
  <2> QED  BY <1>1, <1>2, <1>8, <1>11, <1>14, <2>2, StackOwned DEF pool
<1>15. CASE IsValid(i) /\ deleted /\ stack' = rest /\ "LOCKED" \in mFlags[i] /\ UNCHANGED pool
  <2>1. \E g \in CallsOf(rest) : g.fn = "Delete" /\ g.id = i
    <3>1. PICK g \in CallsOf(stack) : g.fn = "Delete" /\ g.id = i
      BY <1>15 DEF OwnedInv, OwnedWhere
    <3> QED  BY <1>12, <3>1
  <2>2. \A q \in Ids : Kept(q)
    BY <1>12, <1>13, <1>15, <2>1 DEF Kept, Ending
  <2> QED  BY <1>1, <1>2, <1>8, <1>11, <1>15, <2>2, StackOwned DEF pool
<1>16. CASE IsValid(i) /\ deleted /\ Destroy(i, FALSE, rest) /\ UNCHANGED pool
  <2>1. UNCHANGED <<mID, mFlags, server, ours>> /\ Running # "NewReturn" /\ server[i] = "deleting"
    BY <1>1, <1>2, <1>10, <1>16 DEF pool
  <2> QED  BY <1>8, <1>11, <1>12, <1>16, <2>1, DestroyOwned
<1>17. CASE ~IsValid(i) /\ Alloc(i, FALSE, rest)
  <2>1. Running \notin {"New", "NewReturn", "Delete"} /\ Head(rest).fn \in Callers
    BY <1>2, <1>8 DEF Callers
  <2> QED  BY <1>1, <1>8, <1>10, <1>11, <1>12, <1>17, <2>1, AllocatedOwned
<1> QED  BY <1>9, <1>14, <1>15, <1>16, <1>17 DEF Dealloc

(* NewBlip: the server creates the entity, and reports it or not.          *)
LEMMA NewOwned ==
  ASSUME OwnedInv, IInv', NEW i \in Ids, NEW reported \in BOOLEAN, New(i, reported)
  PROVE  OwnedInv'
<1> DEFINE rest == Call("New", i, FALSE, stack)
           f == [fn |-> "New", id |-> i, flag |-> FALSE]
           p == [fn |-> "Pool", id |-> i, flag |-> FALSE]
<1>1. /\ ScriptRuns /\ server[i] = "none" /\ server' = [server EXCEPT ![i] = "exists"]
      /\ ours' = ours \cup {i} /\ UNCHANGED <<mID, mFlags>>
      /\ stack' = rest \/ stack' = Call("Pool", i, FALSE, rest)
  BY DEF New, ScriptCalls, pool
<1>2. /\ Well(stack) /\ Running # "NewReturn"
      /\ \A g \in CallsOf(stack) :
           /\ g \in Frames /\ InPool(g) /\ DeletionPending(g) /\ Relies(g)
           /\ g.fn # "Pool" /\ (g.fn = "Delete" => g.flag)
  BY <1>1, ScriptOwned
<1>3. i \in 0 .. PoolSize /\ "New" \in Calls /\ "Pool" \in Calls
  BY EntityAssumption DEF Ids, Calls
<1>4. /\ server'[i] = "exists" /\ i \in ours'
      /\ \A q \in Ids : q # i => Untouched(q)
  BY <1>1 DEF OwnedInv, IInv, TypeOK, Untouched
<1>5. ~Owned(i) /\ ~Owned(i)'
  BY <1>1 DEF OwnedInv, OwnedWhere, Owned, IsValid
<1>6. ASSUME NEW g \in CallsOf(stack), g.id = i
      PROVE  ~Deleting(g) /\ g.fn # "New" /\ ~Reported(g) /\ g.fn # "Delete"
  <2>1. DeletionPending(g) /\ Relies(g) /\ (g.fn = "Delete" => g.flag)
    BY <1>2
  <2> QED  BY <1>1, <1>6, <2>1 DEF DeletionPending, Relies, Deleting
<1>7. \A g \in CallsOf(stack) : Apart(f, g)
  BY <1>2, <1>6 DEF Apart, Deleting
<1>8. Well(rest) /\ CallsOf(rest) = {f} \cup CallsOf(stack)
  BY <1>2, <1>3, <1>7, WellPush
<1>9. \A g \in CallsOf(stack) : Apart(p, g)
  BY <1>2 DEF Apart, Deleting
<1>10. Apart(p, f)
  BY DEF Apart, Deleting
<1>11. f.fn = "New" /\ f.id = i
  OBVIOUS
<1>13. /\ Well(stack') /\ CallsOf(stack) \subseteq CallsOf(stack') /\ f \in CallsOf(stack')
       /\ \A g \in CallsOf(stack') : g = f \/ g = p \/ g \in CallsOf(stack)
  <2> HIDE DEF f, rest
  <2>1. CASE stack' = rest
    BY <1>8, <2>1
  <2>2. CASE stack' = Call("Pool", i, FALSE, rest)
    <3>1. \A g \in CallsOf(rest) : Apart(p, g)
      BY <1>8, <1>9, <1>10
    <3>2. Well(stack') /\ CallsOf(stack') = {p} \cup CallsOf(rest)
      BY <1>3, <1>8, <2>2, <3>1, WellPush
    <3> QED  BY <1>8, <3>2
  <2> QED  BY <1>1, <2>1, <2>2
<1>14. ASSUME NEW g \in CallsOf(stack) PROVE Relies(g)'
  <2>1. CASE g.id = i
    BY <1>2, <1>4, <1>6, <2>1 DEF Relies, Reported
  <2>2. CASE g.id # i
    BY <1>2, <1>4, <2>2, ReliesStays
  <2> QED  BY <2>1, <2>2
<1>15. ASSUME NEW g, g = f PROVE Relies(g)'
  BY <1>4, <1>5, <1>15 DEF Relies, Reported
<1>16. ASSUME NEW g, g = p PROVE Relies(g)'
  BY <1>4, <1>16 DEF Relies, Reported
<1> HIDE DEF f, p, rest
<1>17. \A g \in CallsOf(stack') : Relies(g)'
  BY <1>13, <1>14, <1>15, <1>16
<1>18. OwnedWhere(i)'
  <2>1. "LOCKED" \in mFlags'[i] => \E g \in CallsOf(stack)' : g.fn = "Delete" /\ g.id = i
    BY <1>1, <1>13 DEF OwnedInv, OwnedWhere, CallsOf
  <2>2. Creating(i)'
    BY <1>11, <1>13 DEF Creating, CallsOf
  <2> QED  BY <1>4, <1>5, <2>1, <2>2 DEF OwnedWhere
<1>19. ASSUME NEW q \in Ids, q # i PROVE OwnedWhere(q)'
  <2>1. Kept(q)
    BY <1>13 DEF Kept
  <2> QED  BY <1>2, <1>4, <1>19, <2>1, OwnedStays DEF OwnedInv
<1> QED  BY <1>13, <1>17, <1>18, <1>19, OwnedTogether

(* NewBlip goes on after the call: the instance is allocated, unless the   *)
(* report has done that.                                                   *)
LEMMA NewAllocOwned ==
  ASSUME OwnedInv, IInv', NewAlloc
  PROVE  OwnedInv'
<1>1. "New" \in Calls /\ "NewReturn" \in Calls /\ In("New") /\ UNCHANGED <<server, ours>>
  BY DEF NewAlloc, Calls
<1>2. /\ Running = "New" /\ Head(stack).fn = "New" /\ Head(stack) \in Frames
      /\ InPool(Head(stack)) /\ Relies(Head(stack)) /\ Well(Tail(stack))
      /\ CallsOf(stack) = {Head(stack)} \cup CallsOf(Tail(stack))
      /\ \A g \in CallsOf(Tail(stack)) :
           /\ InPool(g) /\ Relies(g) /\ DeletionPending(g) /\ Apart(Head(stack), g)
           /\ g.fn = "Delete" => g.flag
  BY <1>1, RunningOwned
<1>3. Head(stack).id \in Ids
  BY <1>2 DEF InPool
<1>4. PICK i \in Ids : i = Head(stack).id
  BY <1>3
<1>5. i \in 0 .. PoolSize
  BY EntityAssumption DEF Ids
<1> DEFINE rest == Call("NewReturn", i, FALSE, Tail(stack))
           f == [fn |-> "NewReturn", id |-> i, flag |-> FALSE]
<1>6. server[i] = "exists" /\ i \in ours /\ ~Owned(i)
  BY <1>2, <1>4 DEF Relies
<1>7. /\ InPool(f) /\ Relies(f) /\ DeletionPending(f)
      /\ f.fn = "NewReturn" /\ f.id = i
  BY <1>6 DEF InPool, Relies, Reported, DeletionPending, Deleting
<1>8. \A g \in CallsOf(Tail(stack)) :
        g.fn # "Pool" /\ (Deleting(g) \/ g.fn = "New" => g.id # i)
  BY <1>2, <1>4 DEF Apart
<1>9. \A g \in CallsOf(Tail(stack)) : Apart(f, g)
  BY <1>8 DEF Apart, Deleting
<1>10. /\ Well(rest) /\ rest # <<>> /\ Head(rest) = f
       /\ CallsOf(rest) = {f} \cup CallsOf(Tail(stack))
  BY <1>1, <1>2, <1>5, <1>9, WellPush
<1>11. Alloc(i, TRUE, rest)
  BY <1>4 DEF NewAlloc
<1> HIDE DEF rest, f
<1>12. \A g \in CallsOf(rest) :
         /\ InPool(g) /\ Relies(g) /\ DeletionPending(g) /\ g.fn # "Pool"
         /\ g.fn = "Delete" => g.flag
         /\ ~(g.fn = "New" /\ g.id = i)
  BY <1>2, <1>7, <1>8, <1>10
<1>13. \A g \in CallsOf(stack) : g \in CallsOf(rest) \/ (g.fn = "New" /\ g.id = i)
  BY <1>2, <1>4, <1>10
<1>14. CASE ~IsValid(i)
  <2>1. Running \notin {"NewReturn", "Delete"} /\ Head(rest).fn \in Callers
    BY <1>2, <1>7, <1>10 DEF Callers
  <2> QED  BY <1>1, <1>2, <1>6, <1>10, <1>11, <1>12, <1>13, <1>14, <2>1, AllocatedOwned
<1>15. CASE IsValid(i)
  <2>1. stack' = rest /\ UNCHANGED <<mID, mFlags>>
    BY <1>11, <1>15 DEF Alloc, pool
  <2>2. \A q \in Ids : Untouched(q)
    BY <1>1, <2>1 DEF Untouched
  <2>3. \A g \in CallsOf(stack') : Relies(g)'
    BY <1>12, <2>1, <2>2, ReliesStays
  <2>4. OwnedWhere(i)'
    <3>1. "LOCKED" \in mFlags'[i] => \E g \in CallsOf(stack)' : g.fn = "Delete" /\ g.id = i
      BY <1>13, <2>1 DEF OwnedInv, OwnedWhere, CallsOf
    <3>2. Running' = "NewReturn" /\ Head(stack').id = i /\ IsValid(i)'
      BY <1>7, <1>10, <1>15, <2>1 DEF Running, IsValid
    <3>3. server'[i] = "exists" /\ ~Owned(i)'
      BY <1>1, <1>6, <2>1 DEF Owned, IsValid
    <3> QED  BY <3>1, <3>2, <3>3 DEF OwnedWhere
  <2>5. ASSUME NEW q \in Ids, q # i PROVE OwnedWhere(q)'
    <3>1. Kept(q)
      BY <1>13, <2>1, <2>5 DEF Kept, Ending
    <3> QED  BY <1>2, <2>2, <3>1, OwnedStays DEF OwnedInv
  <2> QED  BY <1>10, <2>1, <2>3, <2>4, <2>5, OwnedTogether
<1> QED  BY <1>14, <1>15

LEMMA NewReturnOwned ==
  ASSUME OwnedInv, IInv', NewReturn
  PROVE  OwnedInv'
<1>1. /\ "NewReturn" \in Calls /\ In("NewReturn") /\ stack' = Tail(stack)
      /\ UNCHANGED <<mID, server, ours>>
      /\ mFlags' = [mFlags EXCEPT ![Head(stack).id] = NewFlags(Head(stack).id)]
  BY DEF NewReturn, Calls
<1>2. /\ Running = "NewReturn" /\ Head(stack).fn = "NewReturn"
      /\ InPool(Head(stack)) /\ Relies(Head(stack)) /\ Well(Tail(stack))
      /\ CallsOf(stack) = {Head(stack)} \cup CallsOf(Tail(stack))
      /\ \A g \in CallsOf(Tail(stack)) :
           /\ InPool(g) /\ Relies(g) /\ Apart(Head(stack), g)
           /\ g.fn = "Delete" => g.flag
  BY <1>1, RunningOwned
<1>3. Head(stack).id \in Ids
  BY <1>2 DEF InPool
<1>4. PICK i \in Ids : i = Head(stack).id
  BY <1>3
<1>5. /\ mFlags'[i] = IF IsValid(i) THEN mFlags[i] \cup {"OWNED"} ELSE mFlags[i]
      /\ \A q \in Ids : q # i => Untouched(q)
  BY <1>1, <1>4 DEF OwnedInv, IInv, TypeOK, Untouched, NewFlags
<1>6. /\ server[i] # "none" => i \in ours
      /\ IsValid(i) => server[i] # "none"
  BY <1>2, <1>4 DEF Relies
<1>7. \A g \in CallsOf(Tail(stack)) :
        g.fn # "Pool" /\ (Deleting(g) \/ g.fn = "New" => g.id # i)
  BY <1>2, <1>4 DEF Apart
<1>8. server[i] # "deleting"
  BY <1>2, <1>7 DEF OwnedInv, OwnedWhere, Deleting
<1>9. ASSUME NEW g \in CallsOf(stack') PROVE Relies(g)'
  <2>1. InPool(g) /\ Relies(g) /\ (g.fn = "Delete" => g.flag)
    BY <1>1, <1>2
  <2>2. CASE g.id = i
    <3>1. g.fn \notin {"Pool", "New", "Delete"}
      BY <1>1, <1>7, <2>1, <2>2 DEF Deleting
    <3> QED  BY <1>1, <2>1, <2>2, <3>1 DEF Relies, Reported, IsValid
  <2>3. CASE g.id # i
    BY <1>5, <2>1, <2>3, ReliesStays
  <2> QED  BY <2>2, <2>3
<1>10. \A g \in CallsOf(stack) : g.fn # "NewReturn" => g \in CallsOf(stack')
  BY <1>1, <1>2
<1>11. \A q \in Ids : Kept(q)
  BY <1>10 DEF Kept, Ending
<1>12. CASE IsValid(i)
  <2>1. mFlags'[i] = mFlags[i] \cup {"OWNED"} /\ i \in ours /\ server[i] # "none"
    BY <1>5, <1>6, <1>12
  <2>2. Owned(i)'
    BY <1>1, <1>12, <2>1 DEF Owned, IsValid
  <2>3. "LOCKED" \in mFlags'[i] => \E g \in CallsOf(stack)' : g.fn = "Delete" /\ g.id = i
    BY <1>10, <2>1 DEF OwnedInv, OwnedWhere, CallsOf
  <2>4. OwnedWhere(i)'
    BY <1>1, <1>8, <2>1, <2>2, <2>3 DEF OwnedWhere
  <2>5. ASSUME NEW q \in Ids, q # i PROVE OwnedWhere(q)'
    BY <1>4, <1>5, <1>11, <2>5, OwnedStays DEF OwnedInv
  <2> QED  BY <1>1, <1>2, <1>9, <2>4, <2>5, OwnedTogether
<1>13. CASE ~IsValid(i)
  <2>1. Untouched(i)
    BY <1>1, <1>5, <1>13 DEF Untouched
  <2>2. \A q \in Ids : OwnedWhere(q)'
    BY <1>4, <1>5, <1>11, <1>13, <2>1, OwnedStays DEF OwnedInv
  <2> QED  BY <1>1, <1>2, <1>9, <2>2, OwnedTogether
<1> QED  BY <1>12, <1>13

(* BlipInst::Destroy after the event: it asks for the deletion or not.     *)
LEMMA ReleaseOwned ==
  ASSUME OwnedInv, IInv', Release
  PROVE  OwnedInv'
<1>1. "Release" \in Calls /\ "Delete" \in Calls /\ "Pool" \in Calls /\ In("Release")
  BY DEF Release, Calls
<1>2. /\ Running = "Release" /\ Head(stack).fn = "Release" /\ Head(stack) \in Frames
      /\ InPool(Head(stack)) /\ Relies(Head(stack)) /\ Well(Tail(stack))
      /\ CallsOf(stack) = {Head(stack)} \cup CallsOf(Tail(stack))
      /\ \A g \in CallsOf(Tail(stack)) :
           /\ InPool(g) /\ Relies(g) /\ Apart(Head(stack), g)
           /\ g.fn = "Delete" => g.flag
  BY <1>1, RunningOwned
<1>3. Head(stack).id \in Ids
  BY <1>2 DEF InPool
<1>4. PICK i \in Ids : i = Head(stack).id
  BY <1>3
<1>5. i \in 0 .. PoolSize
  BY EntityAssumption DEF Ids
<1> DEFINE wanted == Head(stack).flag /\ Owned(i)
           asked == wanted /\ server[i] = "exists"
<1>6. PICK gone \in BOOLEAN : gone <=> asked
  OBVIOUS
<1> DEFINE rest == Call("Delete", i, gone, Tail(stack))
           f == [fn |-> "Delete", id |-> i, flag |-> gone]
           p == [fn |-> "Pool", id |-> i, flag |-> TRUE]
<1>7. /\ mFlags' = [mFlags EXCEPT ![i] = IF wanted THEN @ \cup {"LOCKED"} ELSE @]
      /\ server' = IF gone THEN [server EXCEPT ![i] = "deleting"] ELSE server
      /\ UNCHANGED <<mID, ours>>
      /\ stack' = rest \/ (gone /\ stack' = Call("Pool", i, TRUE, rest))
  <2>1. /\ mFlags' = [mFlags EXCEPT ![i] = IF wanted THEN @ \cup {"LOCKED"} ELSE @]
        /\ server' = IF asked THEN [server EXCEPT ![i] = "deleting"] ELSE server
        /\ UNCHANGED <<mID, ours>>
    BY <1>4 DEF Release, Owned
  <2>2. \/ stack' = Call("Delete", i, asked, Tail(stack))
        \/ asked /\ stack' = Call("Pool", i, TRUE, Call("Delete", i, asked, Tail(stack)))
    BY <1>4 DEF Release, Owned
  <2>3. asked = gone
    BY <1>6
  <2> HIDE DEF asked
  <2> QED  BY <2>1, <2>2, <2>3
<1>8. /\ mID \in [Ids -> Ids \cup {-1}] /\ mFlags \in [Ids -> SUBSET Flags]
      /\ server \in [Ids -> {"none", "exists", "deleting"}]
      /\ OwnedWhere(i)
  BY DEF OwnedInv, IInv, TypeOK
<1>9. /\ mFlags'[i] = IF wanted THEN mFlags[i] \cup {"LOCKED"} ELSE mFlags[i]
      /\ server'[i] = IF gone THEN "deleting" ELSE server[i]
      /\ \A q \in Ids : q # i => Untouched(q)
  BY <1>7, <1>8 DEF Untouched
<1>10. "OWNED" \in mFlags'[i] <=> "OWNED" \in mFlags[i]
  BY <1>9
<1>11. Owned(i)' <=> Owned(i)
  BY <1>7, <1>10 DEF Owned, IsValid
<1>12. gone => Owned(i) /\ server[i] = "exists" /\ i \in ours
  BY <1>6, <1>8 DEF OwnedWhere
<1>13. \A g \in CallsOf(Tail(stack)) : g.fn # "Pool"
  BY <1>2 DEF Apart
<1>14. \A g \in CallsOf(Tail(stack)) : Apart(f, g) /\ Apart(p, g)
  <2> SUFFICES ASSUME NEW g \in CallsOf(Tail(stack))
               PROVE  Apart(f, g) /\ Apart(p, g)
    OBVIOUS
  <2>1. Relies(g) /\ g.fn # "Pool"
    BY <1>2, <1>13
  <2>2. gone /\ Reported(g) => g.id # i
    BY <1>12, <2>1 DEF Relies
  <2>3. Deleting(f) => gone
    BY DEF Deleting
  <2>4. Apart(f, g)
    BY <2>1, <2>2, <2>3 DEF Apart
  <2>5. Apart(p, g)
    BY <2>1 DEF Apart, Deleting
  <2> QED  BY <2>4, <2>5
<1>15. Apart(p, f)
  BY DEF Apart, Deleting
<1>16. f.fn = "Delete" /\ f.id = i /\ f.flag = gone
  OBVIOUS
<1>17. Well(rest) /\ CallsOf(rest) = {f} \cup CallsOf(Tail(stack))
  BY <1>1, <1>2, <1>5, <1>14, WellPush
<1>18. /\ Well(stack') /\ CallsOf(Tail(stack)) \subseteq CallsOf(stack') /\ f \in CallsOf(stack')
       /\ \A g \in CallsOf(stack') : g = f \/ (gone /\ g = p) \/ g \in CallsOf(Tail(stack))
  <2> HIDE DEF f, rest
  <2>1. CASE stack' = rest
    BY <1>17, <2>1
  <2>2. CASE gone /\ stack' = Call("Pool", i, TRUE, rest)
    <3>1. \A g \in CallsOf(rest) : Apart(p, g)
      BY <1>14, <1>15, <1>17
    <3>2. Well(stack') /\ CallsOf(stack') = {p} \cup CallsOf(rest)
      BY <1>1, <1>5, <1>17, <2>2, <3>1, WellPush
    <3> QED  BY <1>17, <2>2, <3>2
  <2> QED  BY <1>7, <2>1, <2>2
<1>19. \A q : Creating(q) => Creating(q)'
  <2>1. \A g \in CallsOf(stack) : g.fn = "New" => g \in CallsOf(stack')
    BY <1>2, <1>18
  <2> QED  BY <2>1 DEF Creating, CallsOf
<1>20. ASSUME NEW g, g = f PROVE Relies(g)'
  <2>1. gone => "OWNED" \in mFlags'[i]
    BY <1>10, <1>12 DEF Owned
  <2>2. ~gone /\ i \in ours => server'[i] = "deleting" \/ Creating(i)'
    <3> SUFFICES ASSUME ~gone, i \in ours
                 PROVE  server[i] = "deleting" \/ Creating(i)
      BY <1>9, <1>19
    <3>1. CASE wanted
      BY <1>6, <1>8, <3>1 DEF OwnedWhere
    <3>2. CASE ~wanted
      <4>1. CASE ~Owned(i)
        BY <1>2, <1>8, <4>1 DEF OwnedWhere
      <4>2. CASE ~Head(stack).flag
        BY <1>2, <1>4, <4>2 DEF Relies, Reported
      <4> QED  BY <3>2, <4>1, <4>2
    <3> QED  BY <3>1, <3>2
  <2>3. g.fn = "Delete" /\ g.id = i /\ (g.flag <=> gone)
    BY <1>16, <1>20
  <2>4. ours' = ours
    BY <1>7
  <2> QED  BY <2>1, <2>2, <2>3, <2>4 DEF Relies, Reported
<1>21. ASSUME NEW g, g = p, gone PROVE Relies(g)'
  <2>1. server'[i] = "deleting"
    BY <1>9, <1>21
  <2>2. g.fn = "Pool" /\ g.id = i
    BY <1>21
  <2> QED  BY <2>1, <2>2 DEF Relies, Reported
<1>22. ASSUME NEW g \in CallsOf(Tail(stack)) PROVE Relies(g)'
  <2>1. /\ InPool(g) /\ Relies(g) /\ g.fn # "Pool" /\ (g.fn = "Delete" => g.flag)
    BY <1>2, <1>13
  <2>2. CASE g.id = i
    <3>1. Reported(g) => server'[i] = "deleting"
      BY <1>9, <2>1, <2>2 DEF Relies
    <3>2. g.fn = "New" => server'[i] = "exists" /\ i \in ours' /\ ~Owned(i)'
      BY <1>7, <1>9, <1>11, <1>12, <2>1, <2>2 DEF Relies
    <3>3. g.fn = "NewReturn" => /\ server'[i] # "none" => i \in ours'
                                /\ IsValid(i)' => server'[i] # "none"
      BY <1>7, <1>9, <1>12, <2>1, <2>2 DEF Relies, IsValid
    <3>4. g.fn = "Delete" => "OWNED" \in mFlags'[i]
      BY <1>10, <2>1, <2>2 DEF Relies
    <3> QED  BY <2>1, <2>2, <3>1, <3>2, <3>3, <3>4 DEF Relies, Reported
  <2>3. CASE g.id # i
    BY <1>9, <2>1, <2>3, ReliesStays
  <2> QED  BY <2>2, <2>3
<1> HIDE DEF f, p, rest
<1>23. \A g \in CallsOf(stack') : Relies(g)'
  BY <1>18, <1>20, <1>21, <1>22
<1>24. OwnedWhere(i)'
  <2>1. Owned(i)' => server'[i] # "none" /\ i \in ours'
    BY <1>7, <1>8, <1>9, <1>11 DEF OwnedWhere
  <2>2. \E g \in CallsOf(stack)' : g.fn = "Delete" /\ g.id = i /\ Ending(g)'
    BY <1>16, <1>18 DEF CallsOf, Ending
  <2>3. server'[i] = "deleting" => \E g \in CallsOf(stack)' : Deleting(g)' /\ g.id = i
    <3>1. CASE gone
      BY <1>16, <1>18, <3>1 DEF CallsOf, Deleting
    <3>2. CASE ~gone
      <4> SUFFICES ASSUME server[i] = "deleting"
                   PROVE  \E g \in CallsOf(stack') : Deleting(g) /\ g.id = i
        BY <1>9, <3>2 DEF CallsOf, Deleting
      <4>1. PICK g \in CallsOf(stack) : Deleting(g) /\ g.id = i
        BY <1>8 DEF OwnedWhere
      <4>2. g \in CallsOf(Tail(stack))
        BY <1>2, <4>1 DEF Deleting
      <4> QED  BY <1>18, <4>1, <4>2
    <3> QED  BY <3>1, <3>2
  <2>4. i \in ours' => Owned(i)' \/ server'[i] = "deleting" \/ Creating(i)'
    BY <1>2, <1>7, <1>8, <1>9, <1>11, <1>19 DEF OwnedWhere
  <2> QED  BY <2>1, <2>2, <2>3, <2>4 DEF OwnedWhere
<1>25. ASSUME NEW q \in Ids, q # i PROVE OwnedWhere(q)'
  <2>1. Kept(q)
    BY <1>2, <1>4, <1>18, <1>25 DEF Kept
  <2> QED  BY <1>2, <1>9, <1>25, <2>1, OwnedStays DEF OwnedInv
<1> QED  BY <1>18, <1>23, <1>24, <1>25, OwnedTogether

(* The end of BlipInst::Destroy.                                           *)
LEMMA DeleteOwned ==
  ASSUME OwnedInv, IInv', Delete
  PROVE  OwnedInv'
<1>1. "Delete" \in Calls /\ In("Delete")
  BY DEF Delete, Calls
<1>2. /\ Running = "Delete" /\ Head(stack).fn = "Delete" /\ Head(stack) \in Frames
      /\ InPool(Head(stack)) /\ Relies(Head(stack)) /\ DeletionPending(Head(stack))
      /\ Well(Tail(stack))
      /\ CallsOf(stack) = {Head(stack)} \cup CallsOf(Tail(stack))
      /\ \A g \in CallsOf(Tail(stack)) :
           /\ InPool(g) /\ Relies(g) /\ Apart(Head(stack), g) /\ Within(Head(stack), g)
           /\ g.fn = "Delete" => g.flag
  BY <1>1, RunningOwned
<1>3. Head(stack).id \in Ids /\ Head(stack).flag \in BOOLEAN
  BY <1>2 DEF InPool, Frames
<1>4. PICK i \in Ids, gone \in BOOLEAN : i = Head(stack).id /\ gone = Head(stack).flag
  BY <1>3
<1>5. /\ mID \in [Ids -> Ids \cup {-1}] /\ mFlags \in [Ids -> SUBSET Flags]
      /\ server \in [Ids -> {"none", "exists", "deleting"}]
      /\ OwnedWhere(i)
  BY DEF OwnedInv, IInv, TypeOK
<1>6. /\ mID' = [mID EXCEPT ![i] = -1] /\ mFlags' = [mFlags EXCEPT ![i] = {}]
      /\ stack' = DropEvents(i, Tail(stack))
      /\ gone => server' = [server EXCEPT ![i] = "none"] /\ ours' = ours \ {i}
      /\ ~gone => UNCHANGED <<server, ours>>
  BY <1>4 DEF Delete
<1>7. /\ ~Owned(i)' /\ ~IsValid(i)' /\ "LOCKED" \notin mFlags'[i]
      /\ server'[i] = IF gone THEN "none" ELSE server[i]
      /\ i \in ours' <=> ~gone /\ i \in ours
      /\ \A q \in Ids : q # i => Untouched(q)
  BY <1>5, <1>6 DEF Owned, IsValid, Untouched
<1>8. gone => server[i] = "deleting"
  BY <1>2, <1>4 DEF DeletionPending, Deleting
<1>9. /\ Well(stack')
      /\ \A g \in CallsOf(stack') : \E f \in CallsOf(Tail(stack)) : Like(f, g, i)
      /\ \A f \in CallsOf(Tail(stack)) : \E g \in CallsOf(stack') : Like(f, g, i)
  BY <1>2, <1>6, WellDrop
<1>10. ASSUME NEW g \in CallsOf(Tail(stack)) PROVE Relies(g)'
  <2>1. InPool(g) /\ Relies(g) /\ (g.fn = "Delete" => g.flag)
    BY <1>2
  <2>2. CASE g.id = i
    <3>1. g.fn # "Delete" /\ g.fn # "Pool"
      BY <1>2, <1>4, <2>2 DEF Within, Apart
    <3>2. Reported(g) => server'[i] = "deleting"
      <4>1. Reported(g) => ~gone
        BY <1>2, <1>4, <2>2 DEF Apart, Deleting
      <4> QED  BY <1>7, <2>1, <2>2, <4>1 DEF Relies
    <3>3. g.fn = "New" => server'[i] = "exists" /\ i \in ours'
      BY <1>7, <1>8, <2>1, <2>2 DEF Relies
    <3>4. g.fn = "NewReturn" => (server'[i] # "none" => i \in ours')
      BY <1>7, <2>1, <2>2 DEF Relies
    <3> QED  BY <1>7, <2>2, <3>1, <3>2, <3>3, <3>4 DEF Relies, Reported
  <2>3. CASE g.id # i
    BY <1>7, <2>1, <2>3, ReliesStays
  <2> QED  BY <2>2, <2>3
<1>11. ASSUME NEW g \in CallsOf(stack') PROVE Relies(g)'
  <2>1. PICK f \in CallsOf(Tail(stack)) : Like(f, g, i)
    BY <1>9
  <2>2. Relies(f)'
    BY <1>10
  <2> QED  BY <2>1, <2>2 DEF Like, Relies, Reported
<1>12. \A f \in CallsOf(Tail(stack)) : f.fn # "DestroyedOwn" => f \in CallsOf(stack')
  BY <1>9 DEF Like
<1>13. OwnedWhere(i)'
  <2>1. server'[i] = "deleting" => \E g \in CallsOf(stack)' : Deleting(g)' /\ g.id = i
    <3> SUFFICES ASSUME server'[i] = "deleting"
                 PROVE  \E g \in CallsOf(stack') : Deleting(g) /\ g.id = i
      BY DEF CallsOf, Deleting
    <3>1. ~gone /\ server[i] = "deleting"
      BY <1>7
    <3>2. PICK g \in CallsOf(stack) : Deleting(g) /\ g.id = i
      BY <1>5, <3>1 DEF OwnedWhere
    <3>3. g \in CallsOf(Tail(stack)) /\ g.fn # "DestroyedOwn"
      BY <1>2, <1>4, <3>1, <3>2 DEF Deleting
    <3> QED  BY <1>12, <3>2, <3>3
  <2>2. i \in ours' => server'[i] = "deleting" \/ Creating(i)'
    <3> SUFFICES ASSUME i \in ours'
                 PROVE  server'[i] = "deleting" \/ Creating(i)'
      OBVIOUS
    <3>1. ~gone /\ i \in ours
      BY <1>7
    <3>2. server[i] = "deleting" \/ Creating(i)
      BY <1>2, <1>4, <3>1 DEF Relies
    <3>3. Creating(i) => \E g \in CallsOf(stack') : g.fn = "New" /\ g.id = i
      BY <1>2, <1>12 DEF Creating
    <3>4. Creating(i) => Creating(i)'
      BY <3>3 DEF Creating, CallsOf
    <3> QED  BY <1>7, <3>1, <3>2, <3>4
  <2> QED  BY <1>7, <2>1, <2>2 DEF OwnedWhere
<1>14. ASSUME NEW q \in Ids, q # i PROVE OwnedWhere(q)'
  <2>1. \A f \in CallsOf(stack) :
          f.id = q /\ f.fn \in {"Delete", "ServerDelete", "New"} => f \in CallsOf(stack')
    BY <1>2, <1>4, <1>12, <1>14
  <2>2. ASSUME NEW f \in CallsOf(stack), Ending(f), f.id = q
        PROVE  \E g \in CallsOf(stack') : Ending(g) /\ g.id = q
    <3>1. f \in CallsOf(Tail(stack))
      BY <1>2, <1>4, <1>14, <2>2
    <3> QED  BY <1>9, <2>2, <3>1, <1>14 DEF Like
  <2>3. Kept(q)
    BY <2>1, <2>2 DEF Kept
  <2> QED  BY <1>2, <1>7, <1>14, <2>3, OwnedStays DEF OwnedInv
<1> QED  BY <1>9, <1>11, <1>13, <1>14, OwnedTogether

(* Between two callbacks of this plug-in there is nothing of ours that the *)
(* server has not.                                                         *)
LEMMA ServerCreatesOwned ==
  ASSUME OwnedInv, IInv', NEW i \in Ids, ServerCreates(i)
  PROVE  OwnedInv'
<1> DEFINE p == [fn |-> "Pool", id |-> i, flag |-> FALSE]
<1>1. /\ In("Idle") /\ server[i] = "none" /\ UNCHANGED <<mID, mFlags, ours>>
      /\ server' = [server EXCEPT ![i] = "exists"]
      /\ stack' = Call("Pool", i, FALSE, <<>>)
  BY DEF ServerCreates, pool
<1>2. CallsOf(stack) = {} /\ Running = "Idle" /\ \A q : Kept(q)
  BY <1>1, IdleOwned
<1>3. "Pool" \in Calls /\ i \in 0 .. PoolSize
  BY EntityAssumption DEF Calls, Ids
<1>4. Well(stack') /\ CallsOf(stack') = {p}
  <2>1. \A g \in CallsOf(<<>>) : Apart(p, g)
    BY WellNothing
  <2>2. Well(<<>>) /\ "Pool" # "Created"
    BY WellNothing
  <2>3. /\ Well(Call("Pool", i, FALSE, <<>>))
        /\ CallsOf(Call("Pool", i, FALSE, <<>>)) = {p} \cup CallsOf(<<>>)
    BY <1>3, <2>1, <2>2, WellPush
  <2> QED  BY <1>1, <2>3, WellNothing
<1>5. /\ server'[i] = "exists"
      /\ \A q \in Ids : q # i => Untouched(q)
  BY <1>1 DEF OwnedInv, IInv, TypeOK, Untouched
<1>6. ASSUME NEW g, g = p PROVE Relies(g)'
  BY <1>5, <1>6 DEF Relies, Reported
<1>7. ~Owned(i)' /\ i \notin ours' /\ "LOCKED" \notin mFlags'[i]
  BY <1>1, <1>2 DEF OwnedInv, OwnedWhere, Owned, IsValid, Creating
<1>8. OwnedWhere(i)'
  BY <1>5, <1>7 DEF OwnedWhere
<1>9. ASSUME NEW q \in Ids, q # i PROVE OwnedWhere(q)'
  BY <1>2, <1>5, <1>9, OwnedStays DEF OwnedInv
<1> QED  BY <1>4, <1>6, <1>8, <1>9, OwnedTogether

LEMMA ServerDeletesOwned ==
  ASSUME OwnedInv, IInv', NEW i \in Ids, ServerDeletes(i)
  PROVE  OwnedInv'
<1> DEFINE p == [fn |-> "Pool", id |-> i, flag |-> TRUE]
           d == [fn |-> "ServerDelete", id |-> i, flag |-> TRUE]
           rest == Call("ServerDelete", i, TRUE, <<>>)
<1>1. /\ In("Idle") /\ server[i] = "exists" /\ UNCHANGED <<mID, mFlags, ours>>
      /\ server' = [server EXCEPT ![i] = "deleting"]
      /\ stack' = Call("Pool", i, TRUE, rest)
  BY DEF ServerDeletes, pool
<1>2. CallsOf(stack) = {} /\ Running = "Idle" /\ \A q : Kept(q)
  BY <1>1, IdleOwned
<1>3. "Pool" \in Calls /\ "ServerDelete" \in Calls /\ i \in 0 .. PoolSize
  BY EntityAssumption DEF Calls, Ids
<1>4. Well(rest) /\ CallsOf(rest) = {d}
  <2>1. \A g \in CallsOf(<<>>) : Apart(d, g)
    BY WellNothing
  <2>2. Well(<<>>) /\ "ServerDelete" # "Created"
    BY WellNothing
  <2>3. Well(rest) /\ CallsOf(rest) = {d} \cup CallsOf(<<>>)
    BY <1>3, <2>1, <2>2, WellPush
  <2> QED  BY <2>3, WellNothing
<1>5. Apart(p, d)
  BY DEF Apart, Deleting
<1>6. Well(stack') /\ CallsOf(stack') = {p, d}
  <2>1. \A g \in CallsOf(rest) : Apart(p, g)
    BY <1>4, <1>5
  <2> HIDE DEF rest, d
  <2>2. Well(stack') /\ CallsOf(stack') = {p} \cup CallsOf(rest)
    BY <1>1, <1>3, <1>4, <2>1, WellPush
  <2> QED  BY <1>4, <2>2
<1>7. /\ server'[i] = "deleting"
      /\ \A q \in Ids : q # i => Untouched(q)
  BY <1>1 DEF OwnedInv, IInv, TypeOK, Untouched
<1>8. ASSUME NEW g, g = p \/ g = d PROVE Relies(g)'
  BY <1>7, <1>8 DEF Relies, Reported
<1>9. (Owned(i)' => i \in ours') /\ "LOCKED" \notin mFlags'[i]
  BY <1>1, <1>2 DEF OwnedInv, OwnedWhere, Owned, IsValid
<1>10. Ending(p) /\ Deleting(d) /\ p.id = i /\ d.id = i
  BY DEF Ending, Deleting
<1> HIDE DEF p, d
<1>11. OwnedWhere(i)'
  <2>1. \E g \in CallsOf(stack)' : Ending(g)' /\ g.id = i
    BY <1>6, <1>10 DEF CallsOf, Ending
  <2>2. \E g \in CallsOf(stack)' : Deleting(g)' /\ g.id = i
    BY <1>6, <1>10 DEF CallsOf, Deleting
  <2> QED  BY <1>7, <1>9, <2>1, <2>2 DEF OwnedWhere
<1>12. ASSUME NEW q \in Ids, q # i PROVE OwnedWhere(q)'
  BY <1>2, <1>7, <1>12, OwnedStays DEF OwnedInv
<1> QED  BY <1>6, <1>8, <1>11, <1>12, OwnedTogether

LEMMA ServerDeletedOwned ==
  ASSUME OwnedInv, IInv', ServerDeleted
  PROVE  OwnedInv'
<1>1. "ServerDelete" \in Calls /\ In("ServerDelete")
  BY DEF ServerDeleted, Calls
<1>2. /\ Running = "ServerDelete" /\ Head(stack).fn = "ServerDelete"
      /\ InPool(Head(stack)) /\ DeletionPending(Head(stack)) /\ Well(Tail(stack))
      /\ CallsOf(stack) = {Head(stack)} \cup CallsOf(Tail(stack))
      /\ \A g \in CallsOf(Tail(stack)) : Apart(Head(stack), g)
  BY <1>1, RunningOwned
<1>3. CallsOf(Tail(stack)) = {}
  BY <1>2 DEF Apart
<1>4. Head(stack).id \in Ids
  BY <1>2 DEF InPool
<1>5. PICK i \in Ids : i = Head(stack).id
  BY <1>4
<1>6. /\ server' = [server EXCEPT ![i] = "none"] /\ ours' = ours \ {i}
      /\ stack' = Tail(stack) /\ UNCHANGED <<mID, mFlags>>
  BY <1>5 DEF ServerDeleted, pool
<1>7. /\ server'[i] = "none" /\ i \notin ours'
      /\ \A q \in Ids : q # i => Untouched(q)
  BY <1>6 DEF OwnedInv, IInv, TypeOK, Untouched
<1>8. server[i] = "deleting"
  BY <1>2, <1>5 DEF DeletionPending, Deleting
<1>9. ~Owned(i) /\ "LOCKED" \notin mFlags[i]
  <2>1. \A g \in CallsOf(stack) : g.fn = "ServerDelete"
    BY <1>2, <1>3
  <2> QED  BY <1>8, <2>1 DEF OwnedInv, OwnedWhere, Ending
<1>10. OwnedWhere(i)'
  BY <1>6, <1>7, <1>9 DEF OwnedWhere, Owned, IsValid
<1>11. ASSUME NEW q \in Ids, q # i PROVE OwnedWhere(q)'
  <2>1. Kept(q)
    BY <1>2, <1>3, <1>5, <1>11 DEF Kept
  <2> QED  BY <1>2, <1>7, <1>11, <2>1, OwnedStays DEF OwnedInv
<1> QED  BY <1>2, <1>3, <1>6, <1>10, <1>11, OwnedTogether

LEMMA InitOwned == Init => OwnedInv
<1> SUFFICES ASSUME Init PROVE OwnedInv
  OBVIOUS
<1>1. 0 \in 0 .. PoolSize /\ stack = Call("Import", 0, FALSE, <<>>)
  BY EntityAssumption DEF Init
<1>2. Well(stack) /\ \A g \in CallsOf(stack) : Relies(g)
  BY <1>1, LoopOwned
<1>3. \A i \in Ids : OwnedWhere(i)
  BY DEF Init, OwnedWhere, Owned, IsValid
<1> QED  BY <1>2, <1>3, InitInv DEF OwnedInv, Well

LEMMA NextOwned == OwnedInv /\ [Next]_vars => OwnedInv'
<1> SUFFICES ASSUME OwnedInv, [Next]_vars PROVE OwnedInv'
  OBVIOUS
<1>1. IInv'
  BY NextInv DEF OwnedInv
<1>2. CASE UNCHANGED vars
  BY <1>1, <1>2, SameOwned DEF vars, pool
<1>3. CASE Import
  BY <1>1, <1>3, ImportOwned
<1>4. ASSUME NEW i \in Ids, NEW reported \in BOOLEAN, New(i, reported) PROVE OwnedInv'
  BY <1>1, <1>4, NewOwned
<1>5. ASSUME NEW i \in Ids, ServerCreates(i) PROVE OwnedInv'
  BY <1>1, <1>5, ServerCreatesOwned
<1>6. ASSUME NEW i \in Ids, ServerDeletes(i) PROVE OwnedInv'
  BY <1>1, <1>6, ServerDeletesOwned
<1>7. ASSUME NEW i \in Ids, TasksEnd(i) PROVE OwnedInv'
  BY <1>1, <1>7, SameOwned DEF TasksEnd
<1>8. CASE NewAlloc
  BY <1>1, <1>8, NewAllocOwned
<1>9. CASE NewReturn
  BY <1>1, <1>9, NewReturnOwned
<1>10. ASSUME NEW h \in Handles, DestroyHandle(h) PROVE OwnedInv'
  BY <1>1, <1>10, DestroyHandleOwned
<1>11. ASSUME NEW h \in Handles, MakeTask(h) PROVE OwnedInv'
  BY <1>1, <1>11, SameOwned DEF MakeTask
<1>12. CASE Pool
  BY <1>1, <1>12, PoolOwned
<1>13. CASE Release
  BY <1>1, <1>13, ReleaseOwned
<1>14. CASE Delete
  BY <1>1, <1>14, DeleteOwned
<1>15. CASE CreatedReturns \/ EntityPoolReturns
  BY <1>1, <1>15, ReturnOwned DEF CreatedReturns, EntityPoolReturns
<1>16. CASE CreatedThrows
  BY <1>1, <1>16, CreatedThrowsOwned
<1>17. CASE DestroyedOwnReturns
  BY <1>1, <1>17, DestroyedReturnsOwned DEF DestroyedOwnReturns
<1>18. CASE DestroyedAllReturns
  BY <1>1, <1>18, DestroyedReturnsOwned DEF DestroyedAllReturns
<1>19. CASE DestroyedThrows
  BY <1>1, <1>19, DestroyedReturnsOwned DEF DestroyedThrows
<1>20. CASE DestroyedFreedReturns
  <2>1. CASE Returns("DestroyedFreed",
                     Call("DestroyedAll", Head(stack).id, Head(stack).flag, Tail(stack)))
    BY <1>1, <2>1, DestroyedReturnsOwned
  <2>2. CASE UNCHANGED <<pool, server, ours, stack>>
    BY <1>1, <2>2, SameOwned DEF pool
  <2> QED  BY <1>20, <2>1, <2>2 DEF DestroyedFreedReturns
<1>21. CASE ServerDeleted
  BY <1>1, <1>21, ServerDeletedOwned
<1>22. CASE Terminate
  BY <1>1, <1>22, TerminateOwned
<1>23. CASE CleanupNext
  BY <1>1, <1>23, CleanupNextOwned
<1>24. CASE CleanupEnd
  BY <1>1, <1>24, CleanupEndOwned
<1> QED
  BY <1>2, <1>3, <1>4, <1>5, <1>6, <1>7, <1>8, <1>9, <1>10, <1>11, <1>12, <1>13, <1>14,
     <1>15, <1>16, <1>17, <1>18, <1>19, <1>20, <1>21, <1>22, <1>23, <1>24 DEF Next

(* Who has created an entity and who deletes it (ENF_OWNED), and what a    *)
(* creation or a deletion in progress still relies on when the listeners   *)
(* it has called have returned: an invariant of every execution.           *)
THEOREM OwnedInvariance == Spec => []OwnedInv
<1>1. Init => OwnedInv
  BY InitOwned
<1>2. OwnedInv /\ [Next]_vars => OwnedInv'
  BY NextOwned
<1> QED  BY <1>1, <1>2, PTL DEF Spec

(* Destroy asks the server to delete only what the plug-in has created     *)
(* (CoreInst.cpp:60), whatever listeners and other plug-ins have put in    *)
(* its place since.                                                        *)
THEOREM OnlyOwnDeletedHolds == Spec => []OnlyOwnDeleted
<1>1. OwnedInv => OnlyOwnDeleted
  <2> SUFFICES ASSUME OwnedInv, NEW i \in Ids, Deletes(i)
               PROVE  i \in ours
    BY DEF OnlyOwnDeleted
  <2>1. PICK k \in DOMAIN stack : stack[k].fn = "Delete" /\ stack[k].id = i /\ stack[k].flag
    BY DEF Deletes
  <2>2. stack[k] \in CallsOf(stack)
    BY DEF CallsOf
  <2>3. DeletionPending(stack[k]) /\ Relies(stack[k])
    BY <2>2 DEF OwnedInv, IInv
  <2>4. IsValid(i) /\ "OWNED" \in mFlags[i]
    BY <2>1, <2>3 DEF DeletionPending, Relies
  <2> QED  BY <2>4 DEF OwnedInv, OwnedWhere, Owned
<1> QED  BY <1>1, OwnedInvariance, PTL

(* Once a callback of the server has returned, every entity the plug-in    *)
(* has created is allocated and owned, so that Terminate deletes it.       *)
THEOREM OwnedAreKeptHolds == Spec => []OwnedAreKept
<1>1. OwnedInv => OwnedAreKept
  <2> SUFFICES ASSUME OwnedInv, stack = <<>>, NEW i \in ours
               PROVE  Owned(i)
    BY DEF OwnedAreKept, Owned
  <2>1. CallsOf(stack) = {} /\ Running = "Idle"
    BY NoCalls DEF Running
  <2>2. i \in Ids
    BY DEF OwnedInv, IInv, TypeOK
  <2> QED  BY <2>1, <2>2 DEF OwnedInv, OwnedWhere, Creating
<1> QED  BY <1>1, OwnedInvariance, PTL
=============================================================================
