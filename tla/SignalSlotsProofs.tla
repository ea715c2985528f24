--------------------------- MODULE SignalSlotsProofs ---------------------------
(***************************************************************************)
(* Proofs about SignalSlots, for any listeners, matchers, sizes and depth: *)
(* the signal's references are those of its slots, an emission goes on with*)
(* the slots it owes a call, and a move to the front gives the order it is *)
(* to give.  The loops of the source are unrolled by induction on their    *)
(* passes.                                                                 *)
(***************************************************************************)
EXTENDS SignalSlots, SequenceTheorems, FiniteSetTheorems, FunctionTheorems,
        WellFoundedInduction, TLAPS

-----------------------------------------------------------------------------
(* Induction on the passes of a loop.                                      *)

(* A set of naturals has a least member.                                   *)
LEMMA LeastOf ==
  ASSUME NEW S, S \subseteq Nat, S # {}
  PROVE  \E x \in S : \A y \in S : x <= y
<1>1. PICK x \in S : \A y \in S : ~(<<y, x>> \in OpToRel(<, Nat))
  BY NatLessThanWellFounded, WFMin
<1>2. \A m, n \in Nat : m < n => <<m, n>> \in OpToRel(<, Nat)
  BY Zenon DEF OpToRel
<1>3. \A y \in S : ~(y < x)
  BY <1>1, <1>2, Zenon
<1> QED  BY <1>3

(* What holds before the first pass, and after a pass when it did before   *)
(* it, holds before and after every one.                                   *)
LEMMA Upwards ==
  ASSUME NEW N \in Nat, NEW T, 0 \in T, \A n \in 0 .. N - 1 : n \in T => n + 1 \in T
  PROVE  N \in T /\ \A n \in 0 .. N : n \in T
<1> DEFINE F == (0 .. N) \ T
<1> SUFFICES ASSUME F # {} PROVE FALSE
  OBVIOUS
<1>1. PICK x \in F : \A y \in F : x <= y
  <2>1. F \subseteq Nat /\ F # {}
    OBVIOUS
  <2> HIDE DEF F
  <2> QED  BY <2>1, LeastOf
<1>2. x # 0 /\ x - 1 \in 0 .. N - 1 /\ x - 1 \notin F
  BY <1>1
<1> QED  BY <1>1, <1>2

(* The passes of a loop have states, when a pass takes a state to a state. *)
HasRun(N, S, s, F) ==
  \E g \in [0 .. N -> S] : g[0] = s /\ \A n \in 1 .. N : g[n] = F[<<g[n - 1], n - 1>>]

LEMMA LoopExists ==
  ASSUME NEW N \in Nat, NEW S, NEW s \in S, NEW F \in [S \X (0 .. N - 1) -> S]
  PROVE  HasRun(N, S, s, F)
<1> DEFINE Pass(v, n) == F[<<v, n - 1>>]
           Good(g, m) == g[0] = s /\ \A n \in 1 .. m : g[n] = Pass(g[n - 1], n)
           T == {m \in Nat : \E g \in [0 .. m -> S] : Good(g, m)}
<1>1. 0 \in T
  <2>1. [i \in 0 .. 0 |-> s] \in [0 .. 0 -> S] /\ Good([i \in 0 .. 0 |-> s], 0)
    OBVIOUS
  <2> QED  BY <2>1
<1>2. ASSUME NEW m \in 0 .. N - 1, m \in T  PROVE m + 1 \in T
  <2>1. PICK g \in [0 .. m -> S] : Good(g, m)
    BY <1>2
  <2> DEFINE h == [n \in 0 .. m + 1 |-> IF n <= m THEN g[n] ELSE Pass(g[m], m + 1)]
  <2>2. Pass(g[m], m + 1) \in S
    OBVIOUS
  <2> HIDE DEF Pass
  <2>3. h \in [0 .. m + 1 -> S]
    BY <2>2
  <2>4. Good(h, m + 1)
    <3>1. h[0] = s
      BY <2>1
    <3>2. ASSUME NEW n \in 1 .. m + 1 PROVE h[n] = Pass(h[n - 1], n)
      <4>1. h[n - 1] = g[n - 1]
        OBVIOUS
      <4>2. CASE n <= m
        BY <4>1, <4>2, <2>1
      <4>3. CASE n = m + 1
        <5>1. h[n] = Pass(g[m], m + 1) /\ n - 1 = m
          BY <4>3
        <5> QED  BY <4>1, <4>3, <5>1
      <4> QED  BY <4>2, <4>3
    <3> QED  BY <3>1, <3>2
  <2>5. m + 1 \in Nat
    OBVIOUS
  <2> HIDE DEF Good, h
  <2> QED  BY <2>3, <2>4, <2>5
<1>3. N \in T
  <2> HIDE DEF T
  <2>1. \A n \in 0 .. N : n \in T
    BY <1>1, <1>2, Upwards
  <2> QED  BY <2>1
<1>4. PICK g \in [0 .. N -> S] : Good(g, N)
  BY <1>3
<1> QED  BY <1>4 DEF HasRun

-----------------------------------------------------------------------------
(* The slots that are taken from a sequence.                               *)

TakeLoop(s, M) == Loop(LAMBDA t, i : TakePass(s, M, t, i), <<>>, Len(s))

LEMMA TakeRuns ==
  ASSUME NEW s \in Seq(Slot), NEW M
  PROVE  /\ TakeLoop(s, M) \in [0 .. Len(s) -> Seq(Slot)]
         /\ TakeLoop(s, M)[0] = <<>>
         /\ \A n \in 0 .. Len(s) - 1 :
              TakeLoop(s, M)[n + 1] = TakePass(s, M, TakeLoop(s, M)[n], n)
<1> DEFINE N == Len(s)
           S == Seq(Slot)
           start == <<>>
           P(t, i) == TakePass(s, M, t, i)
           F == [p \in S \X (0 .. N - 1) |-> P(p[1], p[2])]
           Eq(g) == g = [n \in 0 .. N |-> IF n = 0 THEN start ELSE P(g[n - 1], n - 1)]
<1>1. N \in Nat /\ start \in S
  OBVIOUS
<1>2. \A t \in S, i \in 0 .. N - 1 : P(t, i) \in S
  BY DEF TakePass
<1>3. F \in [S \X (0 .. N - 1) -> S]
  BY <1>2
<1>4. \A t \in S, i \in 0 .. N - 1 : F[<<t, i>>] = P(t, i)
  OBVIOUS
<1> HIDE DEF F, N, S, P, start
<1>5. PICK g \in [0 .. N -> S] :
        g[0] = start /\ \A n \in 1 .. N : g[n] = F[<<g[n - 1], n - 1>>]
  <2>1. HasRun(N, S, start, F)
    BY <1>1, <1>3, LoopExists
  <2> QED  BY <2>1 DEF HasRun
<1>6. \A n \in 1 .. N : g[n] = P(g[n - 1], n - 1)
  <2>1. \A n \in 1 .. N : n - 1 \in 0 .. N /\ n - 1 \in 0 .. N - 1
    BY <1>1
  <2>2. \A n \in 1 .. N : g[n - 1] \in S
    BY <2>1
  <2> QED  BY <1>4, <1>5, <2>1, <2>2
<1>7. Eq(g)
  BY <1>5, <1>6
<1> DEFINE h == TakeLoop(s, M)
<1>8. Eq(h)
  <2>1. h = CHOOSE g1 : Eq(g1)
    BY DEF TakeLoop, Loop, P, N, start
  <2> HIDE DEF Eq, h
  <2> QED  BY <1>7, <2>1
<1> HIDE DEF h
<1>9. h[0] = start /\ \A n \in 0 .. N - 1 : h[n + 1] = P(h[n], n)
  BY <1>1, <1>8
<1>10. \A n \in 0 .. N : h[n] \in S
  <2> DEFINE T == {n \in Nat : h[n] \in S}
  <2>1. 0 \in T
    BY <1>1, <1>9
  <2>2. \A n \in 0 .. N - 1 : n \in T => n + 1 \in T
    BY <1>1, <1>2, <1>9
  <2> HIDE DEF T
  <2>3. \A n \in 0 .. N : n \in T
    BY <1>1, <2>1, <2>2, Upwards
  <2> QED  BY <2>3 DEF T
<1>11. h \in [0 .. N -> S]
  BY <1>8, <1>10
<1> QED  BY <1>9, <1>11 DEF h, N, S, P, start
(* What is left of a sequence when all of it, or all but one, is taken.    *)
LEMMA TakenAll ==
  ASSUME NEW s \in Seq(Slot), NEW M, \A i \in 1 .. Len(s) : s[i].hash \in M
  PROVE  Those(s, M) = s
<1> DEFINE t == TakeLoop(s, M)
           N == Len(s)
           T == {n \in Nat : t[n] = SubSeq(s, 1, n)}
<1>1. /\ N \in Nat
      /\ t \in [0 .. N -> Seq(Slot)]
      /\ t[0] = <<>>
      /\ \A n \in 0 .. N - 1 : t[n + 1] = TakePass(s, M, t[n], n)
  BY TakeRuns
<1>0. \A i \in 1 .. N : s[i] \in Slot
  OBVIOUS
<1> HIDE DEF t, N
<1>a. \A n \in 0 .. N - 1 :
        /\ n \in Nat /\ n + 1 \in Nat /\ n + 1 \in 1 .. N
        /\ t[n] \in Seq(Slot) /\ s[n + 1] \in Slot
  BY <1>0, <1>1
<1> USE DEF N
<1>2. 0 \in T
  BY <1>1
<1>3. ASSUME NEW n \in 0 .. N - 1, n \in T  PROVE n + 1 \in T
  <2>1. t[n] = SubSeq(s, 1, n) /\ s[n + 1].hash \in M
    BY <1>a, <1>3
  <2>2. t[n + 1] = Append(SubSeq(s, 1, n), s[n + 1])
    BY <1>1, <2>1 DEF TakePass
  <2>3. Append(SubSeq(s, 1, n), s[n + 1]) = SubSeq(s, 1, n + 1)
    BY <1>1
  <2>4. t[n + 1] = SubSeq(s, 1, n + 1) /\ n + 1 \in Nat
    BY <1>a, <2>2, <2>3
  <2> QED  BY <2>4
<1> HIDE DEF T, N
<1>4. N \in T
  BY <1>1, <1>2, <1>3, Upwards
<1> USE DEF N
<1>5. t[N] = SubSeq(s, 1, N)
  BY <1>4 DEF T
<1>6. SubSeq(s, 1, N) = s
  BY <1>1
<1> QED  BY <1>5, <1>6 DEF Those, t, TakeLoop

(* The sequence without its j-th slot.                                     *)
Without(s, j) == [i \in 1 .. Len(s) - 1 |-> s[IF i < j THEN i ELSE i + 1]]

LEMMA TakenButOne ==
  ASSUME NEW s \in Seq(Slot), NEW M, NEW j \in 1 .. Len(s),
         \A i \in 1 .. Len(s) : s[i].hash \in M <=> i # j
  PROVE  Those(s, M) = Without(s, j)
<1> DEFINE t == TakeLoop(s, M)
           N == Len(s)
           kept(n) == IF n < j THEN n ELSE n - 1
           T == {n \in Nat : /\ Len(t[n]) = kept(n)
                             /\ \A i \in 1 .. kept(n) : t[n][i] = s[IF i < j THEN i ELSE i + 1]}
<1>1. /\ N \in Nat
      /\ t \in [0 .. N -> Seq(Slot)]
      /\ t[0] = <<>>
      /\ \A n \in 0 .. N - 1 : t[n + 1] = TakePass(s, M, t[n], n)
  BY TakeRuns
<1>0. \A i \in 1 .. N : s[i] \in Slot
  OBVIOUS
<1> HIDE DEF t, N
<1>a. \A n \in 0 .. N - 1 :
        /\ n \in Nat /\ n + 1 \in Nat /\ n + 1 \in 1 .. N
        /\ t[n] \in Seq(Slot) /\ s[n + 1] \in Slot
  BY <1>0, <1>1
<1> USE DEF N
<1>2. 0 \in T
  BY <1>1
<1>3. ASSUME NEW n \in 0 .. N - 1, n \in T  PROVE n + 1 \in T
  <2>1. t[n] \in Seq(Slot) /\ s[n + 1] \in Slot /\ n + 1 \in 1 .. N /\ n \in Nat
    BY <1>a
  <2>2. CASE n + 1 = j
    <3>1. t[n + 1] = t[n]
      BY <1>1, <2>1, <2>2 DEF TakePass
    <3>2. kept(n + 1) = kept(n)
      BY <2>1, <2>2
    <3> QED  BY <1>3, <2>1, <2>2, <3>1, <3>2
  <2>3. CASE n + 1 # j
    <3>1. t[n + 1] = Append(t[n], s[n + 1])
      BY <1>1, <2>1, <2>3 DEF TakePass
    <3>2. Len(t[n]) = kept(n) /\ kept(n + 1) = kept(n) + 1
      BY <1>3, <2>1, <2>3
    <3>3. \A i \in 1 .. kept(n) : t[n][i] = s[IF i < j THEN i ELSE i + 1]
      BY <1>3
    <3>4. n + 1 = IF kept(n + 1) < j THEN kept(n + 1) ELSE kept(n + 1) + 1
      BY <2>1, <2>3
    <3> HIDE DEF kept
    <3>a. /\ Len(t[n + 1]) = Len(t[n]) + 1
          /\ \A i \in 1 .. Len(t[n]) : t[n + 1][i] = t[n][i]
          /\ t[n + 1][Len(t[n]) + 1] = s[n + 1]
      BY <2>1, <3>1, AppendProperties
    <3>5. Len(t[n + 1]) = kept(n + 1)
      BY <3>2, <3>a
    <3>6. \A i \in 1 .. kept(n) : t[n + 1][i] = t[n][i]
      BY <3>2, <3>a
    <3>7. t[n + 1][kept(n + 1)] = s[n + 1]
      BY <3>2, <3>a
    <3>8. kept(n) \in Nat
      BY <2>1, <3>2
    <3>9. \A i \in 1 .. kept(n + 1) : t[n + 1][i] = s[IF i < j THEN i ELSE i + 1]
      BY <3>2, <3>3, <3>4, <3>6, <3>7, <3>8
    <3> QED  BY <2>1, <3>5, <3>9
  <2> QED  BY <2>2, <2>3
<1> HIDE DEF T, N
<1>4. N \in T
  BY <1>1, <1>2, <1>3, Upwards
<1> USE DEF N
<1>5. /\ t[N] \in Seq(Slot) /\ Len(t[N]) = N - 1
      /\ \A i \in 1 .. N - 1 : t[N][i] = s[IF i < j THEN i ELSE i + 1]
  BY <1>1, <1>4 DEF T
<1>6. t[N] = Without(s, j)
  BY <1>1, <1>5 DEF Without
<1> QED  BY <1>6 DEF Those, t, TakeLoop

-----------------------------------------------------------------------------
(* What the operations work on.                                            *)

Array(size) == [0 .. size - 1 -> Slot]

AScope == [itr : Int, end : Int, stale : BOOLEAN, calm : BOOLEAN, todo : Seq(Slot)]

LEMMA ScopeMoved ==
  ASSUME NEW f \in AScope, NEW i \in Int, NEW e \in Int
  PROVE  [f EXCEPT !.itr = i, !.end = e] \in AScope
BY DEF AScope

LEMMA ToldAreScopes ==
  ASSUME NEW fs \in Seq(AScope), NEW p \in Int
  PROVE  /\ Told(fs, Descend, p) \in Seq(AScope) /\ Len(Told(fs, Descend, p)) = Len(fs)
         /\ Told(fs, ScopeLead, p) \in Seq(AScope) /\ Len(Told(fs, ScopeLead, p)) = Len(fs)
         /\ Told(fs, ScopeTail, p) \in Seq(AScope) /\ Len(Told(fs, ScopeTail, p)) = Len(fs)
<1>1. Len(fs) \in Nat /\ DOMAIN fs = 1 .. Len(fs) /\ \A k \in 1 .. Len(fs) : fs[k] \in AScope
  OBVIOUS
<1>2. \A f \in AScope : Descend(f, p) \in AScope /\ ScopeLead(f, p) \in AScope
                        /\ ScopeTail(f, p) \in AScope
  <2> SUFFICES ASSUME NEW f \in AScope
               PROVE  /\ Descend(f, p) \in AScope
                      /\ ScopeLead(f, p) \in AScope
                      /\ ScopeTail(f, p) \in AScope
    OBVIOUS
  <2> DEFINE lower == [f EXCEPT !.end = @ - 1]
             back  == [f EXCEPT !.itr = @ - 1, !.end = @ - 1]
             next  == [f EXCEPT !.itr = @ + 1]
             up    == [f EXCEPT !.itr = @ + 1, !.end = @ + 1]
  <2>0. /\ f.stale \in BOOLEAN /\ f.itr \in Int /\ f.end \in Int
        /\ lower \in AScope /\ back \in AScope /\ next \in AScope /\ up \in AScope
    <3>1. f.stale \in BOOLEAN /\ f.itr \in Int /\ f.end \in Int
      BY DEF AScope
    <3>2. lower \in AScope
      BY <3>1 DEF AScope
    <3>3. back \in AScope
      <4> DEFINE i == f.itr - 1
                 e == f.end - 1
      <4>1. i \in Int /\ e \in Int
        BY <3>1
      <4>2. back = [f EXCEPT !.itr = i, !.end = e]
        OBVIOUS
      <4> HIDE DEF i, e
      <4>3. [f EXCEPT !.itr = i, !.end = e] \in AScope
        BY <4>1, ScopeMoved
      <4> QED  BY <4>2, <4>3
    <3>4. next \in AScope
      BY <3>1 DEF AScope
    <3>5. up \in AScope
      <4> DEFINE i == f.itr + 1
                 e == f.end + 1
      <4>1. i \in Int /\ e \in Int
        BY <3>1
      <4>2. up = [f EXCEPT !.itr = i, !.end = e]
        OBVIOUS
      <4> HIDE DEF i, e
      <4>3. [f EXCEPT !.itr = i, !.end = e] \in AScope
        BY <4>1, ScopeMoved
      <4> QED  BY <4>2, <4>3
    <3> QED  BY <3>1, <3>2, <3>3, <3>4, <3>5
  <2>1. Descend(f, p) \in {f, lower, back}
    <3>1. CASE f.stale \/ p > f.end
      BY <3>1 DEF Descend
    <3>2. CASE ~ (f.stale \/ p > f.end) /\ (p < f.itr \/ f.itr > f.end)
      BY <3>2 DEF Descend
    <3>3. CASE ~ (f.stale \/ p > f.end) /\ ~ (p < f.itr \/ f.itr > f.end)
      BY <3>3 DEF Descend, AScope
    <3> QED  BY <3>1, <3>2, <3>3
  <2>2. ScopeLead(f, p) \in {f, next, up}
    <3>1. CASE f.stale
      BY <3>1 DEF ScopeLead
    <3>2. CASE ~ f.stale /\ p <= f.end /\ p >= f.itr /\ f.itr # f.end
      BY <2>0, <3>2 DEF ScopeLead
    <3>3. CASE ~ f.stale /\ p <= f.end /\ ~ (p >= f.itr /\ f.itr # f.end)
      BY <2>0, <3>3 DEF ScopeLead
    <3>4. CASE ~ f.stale /\ p > f.end
      BY <2>0, <3>4 DEF ScopeLead
    <3> QED  BY <2>0, <3>1, <3>2, <3>3, <3>4
  <2>3. ScopeTail(f, p) \in {f, lower, back}
    <3>1. CASE f.stale \/ p > f.end \/ f.itr = f.end
      BY <3>1 DEF ScopeTail
    <3>2. CASE ~ (f.stale \/ p > f.end \/ f.itr = f.end) /\ p < f.itr
      BY <3>2 DEF ScopeTail
    <3>3. CASE ~ (f.stale \/ p > f.end \/ f.itr = f.end) /\ ~ (p < f.itr)
      BY <3>3 DEF ScopeTail, AScope
    <3> QED  BY <3>1, <3>2, <3>3
  <2> HIDE DEF lower, back, next, up
  <2> QED  BY <2>0, <2>1, <2>2, <2>3
<1>3. /\ Told(fs, Descend, p) \in [1 .. Len(fs) -> AScope]
      /\ Told(fs, ScopeLead, p) \in [1 .. Len(fs) -> AScope]
      /\ Told(fs, ScopeTail, p) \in [1 .. Len(fs) -> AScope]
  BY <1>1, <1>2 DEF Told
<1>4. \A t \in [1 .. Len(fs) -> AScope] : t \in Seq(AScope) /\ Len(t) = Len(fs)
  BY <1>1
<1> QED  BY <1>3, <1>4

LEMMA ReleaseCounts ==
  ASSUME NEW count \in [Listeners -> Int], NEW s
  PROVE  AfterRelease(count, s) \in [Listeners -> Int]
<1>1. CASE s.ref \in Listeners
  BY <1>1 DEF AfterRelease
<1>2. CASE s.ref \notin Listeners
  <2>1. [count EXCEPT ![s.ref] = @ - 1] = count
    BY <1>2
  <2> QED  BY <2>1 DEF AfterRelease
<1> QED  BY <1>1, <1>2

-----------------------------------------------------------------------------
(* RemoveIf.                                                               *)

RemoveState(size) ==
  [slots : Array(size), dest : Nat, count : [Listeners -> Int], scopes : Seq(AScope),
   gone : SUBSET Nat]

RemoveStart(slots, count, fs) ==
  [slots |-> slots, dest |-> 0, count |-> count, scopes |-> fs, gone |-> {}]

RemoveLoop(slots, used, M, count, fs) ==
  Loop(LAMBDA st, i : RemovePass(M, st, i), RemoveStart(slots, count, fs), used)

LEMMA RemovePassState ==
  ASSUME NEW size \in Nat, NEW st \in RemoveState(size), NEW i \in 0 .. size - 1, NEW M
  PROVE  RemovePass(M, st, i) \in RemoveState(size)
<1>1. /\ st.slots \in Array(size) /\ st.dest \in Nat /\ st.count \in [Listeners -> Int]
      /\ st.scopes \in Seq(AScope) /\ st.gone \in SUBSET Nat
  BY DEF RemoveState
<1>2. st.slots[i] \in Slot /\ i \in Nat /\ i \in Int
  BY <1>1 DEF Array
<1>3. CASE st.slots[i].hash \in M
  <2>1. RemovePass(M, st, i) =
          [slots |-> [st.slots EXCEPT ![i] = Empty], dest |-> st.dest,
           count |-> AfterRelease(st.count, st.slots[i]),
           scopes |-> Told(st.scopes, Descend, i), gone |-> st.gone \cup {i}]
    BY <1>3 DEF RemovePass, RemoveState
  <2>2. [st.slots EXCEPT ![i] = Empty] \in Array(size)
    BY <1>1 DEF Array, Empty, Slot, Hashes
  <2>3. AfterRelease(st.count, st.slots[i]) \in [Listeners -> Int]
    BY <1>1, ReleaseCounts
  <2>4. Told(st.scopes, Descend, i) \in Seq(AScope)
    BY <1>1, <1>2, ToldAreScopes
  <2> QED  BY <1>1, <1>2, <2>1, <2>2, <2>3, <2>4 DEF RemoveState
<1>4. CASE st.slots[i].hash \notin M /\ i = st.dest
  <2>1. RemovePass(M, st, i) = [st EXCEPT !.dest = @ + 1]
    BY <1>4 DEF RemovePass
  <2> QED  BY SMTT(30), <2>1 DEF RemoveState
<1>5. CASE st.slots[i].hash \notin M /\ i # st.dest
  <2>1. RemovePass(M, st, i) =
          [slots |-> [st.slots EXCEPT ![st.dest] = st.slots[i], ![i] = MovedFrom(st.slots[i])],
           dest |-> st.dest + 1, count |-> AfterRelease(st.count, st.slots[st.dest]),
           scopes |-> st.scopes, gone |-> st.gone]
    BY <1>5 DEF RemovePass, RemoveState
  <2>2. MovedFrom(st.slots[i]) \in Slot
    BY <1>2 DEF MovedFrom, Slot, Hashes
  <2>3. [st.slots EXCEPT ![st.dest] = st.slots[i], ![i] = MovedFrom(st.slots[i])] \in Array(size)
    BY <1>1, <1>2, <2>2 DEF Array
  <2>4. AfterRelease(st.count, st.slots[st.dest]) \in [Listeners -> Int]
    BY <1>1, ReleaseCounts
  <2> QED  BY <1>1, <2>1, <2>3, <2>4 DEF RemoveState
<1> QED  BY <1>3, <1>4, <1>5

RemoveRun(size, slots, used, M, count, fs, after) ==
  /\ after \in [0 .. used -> RemoveState(size)]
  /\ after[0] = RemoveStart(slots, count, fs)
  /\ \A n \in 0 .. used - 1 : after[n + 1] = RemovePass(M, after[n], n)
  /\ RemoveIf(slots, used, M, count, fs) = after[used]

LEMMA RemoveRuns ==
  ASSUME NEW size \in Nat, NEW slots \in Array(size), NEW used \in 0 .. size, NEW M,
         NEW count \in [Listeners -> Int], NEW fs \in Seq(AScope)
  PROVE  RemoveRun(size, slots, used, M, count, fs, RemoveLoop(slots, used, M, count, fs))
<1> DEFINE N == used
           S == RemoveState(size)
           start == RemoveStart(slots, count, fs)
           P(st, i) == RemovePass(M, st, i)
           F == [p \in S \X (0 .. N - 1) |-> P(p[1], p[2])]
           Eq(g) == g = [n \in 0 .. N |-> IF n = 0 THEN start ELSE P(g[n - 1], n - 1)]
           h == RemoveLoop(slots, used, M, count, fs)
<1>1. N \in Nat /\ start \in S
  BY DEF RemoveStart, RemoveState
<1>2. \A st \in S, i \in 0 .. N - 1 : P(st, i) \in S
  BY RemovePassState
<1>3. h = CHOOSE g : Eq(g)
  BY DEF RemoveLoop, Loop
<1>4. F \in [S \X (0 .. N - 1) -> S] /\ \A st \in S, i \in 0 .. N - 1 : F[<<st, i>>] = P(st, i)
  BY <1>2
<1> HIDE DEF F, N, S, P, start, h
<1>5. PICK g \in [0 .. N -> S] :
        g[0] = start /\ \A n \in 1 .. N : g[n] = F[<<g[n - 1], n - 1>>]
  <2>1. HasRun(N, S, start, F)
    BY <1>1, <1>4, LoopExists
  <2> QED  BY <2>1 DEF HasRun
<1>6. Eq(g)
  <2>1. \A n \in 1 .. N : n - 1 \in 0 .. N /\ n - 1 \in 0 .. N - 1 /\ g[n - 1] \in S
    BY <1>1
  <2>2. \A n \in 1 .. N : g[n] = P(g[n - 1], n - 1)
    BY <1>4, <1>5, <2>1
  <2> QED  BY <1>5, <2>2
<1>7. Eq(h)
  <2> HIDE DEF Eq
  <2> QED  BY <1>3, <1>6
<1>8. h[0] = start /\ \A n \in 0 .. N - 1 : h[n + 1] = P(h[n], n)
  BY <1>1, <1>7
<1>9. \A n \in 0 .. N : h[n] \in S
  <2> DEFINE T == {n \in Nat : h[n] \in S}
  <2>1. 0 \in T
    BY <1>1, <1>8
  <2>2. \A n \in 0 .. N - 1 : n \in T => n + 1 \in T
    BY <1>1, <1>2, <1>8
  <2> HIDE DEF T
  <2>3. \A n \in 0 .. N : n \in T
    BY <1>1, <2>1, <2>2, Upwards
  <2> QED  BY <2>3 DEF T
<1>10. h \in [0 .. N -> S]
  BY <1>7, <1>9
<1>11. RemoveIf(slots, used, M, count, fs) = h[used]
  BY DEF RemoveIf, h, RemoveLoop, RemoveStart
<1>12. RemoveRun(size, slots, used, M, count, fs, h)
  BY <1>8, <1>10, <1>11 DEF RemoveRun, N, S, P, start
<1> QED  BY <1>12 DEF h

-----------------------------------------------------------------------------
(* The references of the slots of an array.                                *)

Holding(slots, l) == {i \in DOMAIN slots : slots[i].ref = l}

Counted(slots, count) == \A l \in Listeners : count[l] = Cardinality(Holding(slots, l))

(* What a slot holds, Release gives back: its hash is not 0.               *)
Releasable(s) == s.ref # Null => s.hash # Null

One(s, l) == IF s.ref = l THEN 1 ELSE 0

LEMMA HoldingFinite ==
  ASSUME NEW size \in Nat, NEW slots \in Array(size), NEW l
  PROVE  IsFiniteSet(Holding(slots, l)) /\ Cardinality(Holding(slots, l)) \in Nat
<1>1. IsFiniteSet(0 .. size - 1)
  BY FS_Interval
<1>2. Holding(slots, l) \subseteq 0 .. size - 1
  BY DEF Holding, Array
<1> QED  BY <1>1, <1>2, FS_Subset, FS_CardinalityType

(* One slot of an array is replaced by another.                            *)
LEMMA SlotReplaced ==
  ASSUME NEW size \in Nat, NEW slots \in Array(size), NEW i \in 0 .. size - 1,
         NEW s \in Slot, NEW l
  PROVE  /\ [slots EXCEPT ![i] = s] \in Array(size)
         /\ Cardinality(Holding([slots EXCEPT ![i] = s], l))
              = Cardinality(Holding(slots, l)) - One(slots[i], l) + One(s, l)
<1> DEFINE t == [slots EXCEPT ![i] = s]
           H == Holding(slots, l)
           I == Holding(t, l)
<1>1. t \in Array(size) /\ DOMAIN slots = 0 .. size - 1 /\ DOMAIN t = 0 .. size - 1
  BY DEF Array
<1>2. t[i] = s /\ \A j \in 0 .. size - 1 : j # i => t[j] = slots[j]
  BY <1>1
<1>3. IsFiniteSet(H) /\ Cardinality(H) \in Nat
  BY HoldingFinite
<1> HIDE DEF t
<1>4. H \ {i} = I \ {i}
  BY <1>1, <1>2 DEF Holding
<1>5. /\ i \in H <=> slots[i].ref = l
      /\ i \in I <=> s.ref = l
  BY <1>1, <1>2 DEF Holding
<1> HIDE DEF H, I
<1>6. IsFiniteSet(H \ {i}) /\ Cardinality(H \ {i}) = Cardinality(H) - One(slots[i], l)
  <2>1. CASE i \in H
    BY <2>1, <1>3, <1>5, FS_RemoveElement DEF One
  <2>2. CASE i \notin H
    <3>1. H \ {i} = H
      BY <2>2
    <3>2. One(slots[i], l) = 0
      BY <2>2, <1>5 DEF One
    <3>3. IsFiniteSet(H \ {i}) /\ Cardinality(H \ {i}) = Cardinality(H)
      BY <3>1, <1>3, Zenon
    <3> QED  BY <3>2, <3>3, <1>3
  <2> QED  BY <2>1, <2>2
<1>7. Cardinality(I) = Cardinality(H \ {i}) + One(s, l)
  <2>1. CASE i \in I
    <3>1. I = (H \ {i}) \cup {i} /\ i \notin H \ {i}
      BY <2>1, <1>4
    <3>2. Cardinality(I) = Cardinality(H \ {i}) + 1
      BY <3>1, <1>6, FS_AddElement
    <3> QED  BY <2>1, <3>2, <1>5 DEF One
  <2>2. CASE i \notin I
    <3>1. I = H \ {i}
      BY <2>2, <1>4
    <3> QED  BY <2>2, <3>1, <1>5, <1>6, <1>3 DEF One
  <2> QED  BY <2>1, <2>2
<1> QED  BY <1>1, <1>6, <1>7 DEF t, H, I

LEMMA ReleasedOne ==
  ASSUME NEW count \in [Listeners -> Int], NEW s \in Slot, Releasable(s), NEW l \in Listeners
  PROVE  AfterRelease(count, s)[l] = count[l] - One(s, l)
<1>1. l # Null /\ s.ref \in Listeners \cup {Null}
  BY SignalAssumption DEF Slot, Hashes
<1>2. CASE s.ref = Null
  BY <1>1, <1>2 DEF AfterRelease, One
<1>3. CASE s.ref # Null
  <2>1. AfterRelease(count, s) = [count EXCEPT ![s.ref] = @ - 1]
    BY <1>3 DEF AfterRelease, Releasable
  <2> QED  BY <1>1, <1>3, <2>1 DEF One
<1> QED  BY <1>2, <1>3

(* A slot is released, and a slot without references takes its place.      *)
LEMMA SlotDropped ==
  ASSUME NEW size \in Nat, NEW slots \in Array(size), NEW count \in [Listeners -> Int],
         Counted(slots, count), \A i \in 0 .. size - 1 : Releasable(slots[i]),
         NEW i \in 0 .. size - 1
  PROVE  Counted([slots EXCEPT ![i] = Empty], AfterRelease(count, slots[i]))
<1>1. Empty \in Slot /\ \A l \in Listeners : One(Empty, l) = 0
  BY SignalAssumption DEF Empty, Slot, Hashes, One
<1>2. slots[i] \in Slot
  BY DEF Array
<1> SUFFICES ASSUME NEW l \in Listeners
             PROVE  AfterRelease(count, slots[i])[l]
                      = Cardinality(Holding([slots EXCEPT ![i] = Empty], l))
  BY DEF Counted
<1>3. count[l] = Cardinality(Holding(slots, l))
  BY DEF Counted
<1>4. AfterRelease(count, slots[i])[l] = count[l] - One(slots[i], l)
  BY <1>2, ReleasedOne
<1>5. Cardinality(Holding([slots EXCEPT ![i] = Empty], l))
        = Cardinality(Holding(slots, l)) - One(slots[i], l) + One(Empty, l)
  BY <1>1, SlotReplaced
<1>6. One(slots[i], l) \in Int /\ count[l] \in Int
  BY DEF One
<1> QED  BY <1>1, <1>3, <1>4, <1>5, <1>6

(* A slot is moved over another, which is released.                        *)
LEMMA SlotMoved ==
  ASSUME NEW size \in Nat, NEW slots \in Array(size), NEW count \in [Listeners -> Int],
         Counted(slots, count), \A i \in 0 .. size - 1 : Releasable(slots[i]),
         NEW i \in 0 .. size - 1, NEW d \in 0 .. size - 1, d # i, NEW new,
         new = [slots EXCEPT ![d] = slots[i], ![i] = MovedFrom(slots[i])]
  PROVE  /\ new \in Array(size)
         /\ Counted(new, AfterRelease(count, slots[d]))
         /\ \A j \in 0 .. size - 1 : Releasable(new[j])
<1> DEFINE first == [slots EXCEPT ![d] = slots[i]]
           left  == MovedFrom(slots[i])
           moved == [first EXCEPT ![i] = left]
<1>1. slots[i] \in Slot /\ slots[d] \in Slot /\ DOMAIN slots = 0 .. size - 1
  BY DEF Array
<1>2. left \in Slot /\ \A l \in Listeners : One(left, l) = 0
  BY <1>1, SignalAssumption DEF MovedFrom, Slot, Hashes, One
<1>3. Releasable(left)
  BY <1>1 DEF MovedFrom, Releasable, Slot
<1>4. first \in Array(size) /\ first[i] = slots[i]
  BY <1>1 DEF Array
<1> HIDE DEF left
<1>5. \A j \in 0 .. size - 1 : moved[j] = IF j = i THEN left ELSE IF j = d THEN slots[i] ELSE slots[j]
  BY <1>1
<1>6. \A j \in 0 .. size - 1 : Releasable(moved[j])
  <2> HIDE DEF moved
  <2> QED  BY <1>3, <1>5
<1>7. ASSUME NEW l \in Listeners
      PROVE  AfterRelease(count, slots[d])[l] = Cardinality(Holding(moved, l))
  <2>1. Cardinality(Holding(first, l))
          = Cardinality(Holding(slots, l)) - One(slots[d], l) + One(slots[i], l)
    BY ZenonT(40), <1>1, SlotReplaced
  <2>2. Cardinality(Holding(moved, l))
          = Cardinality(Holding(first, l)) - One(first[i], l) + One(left, l)
    <3> HIDE DEF first
    <3> QED  BY <1>2, <1>4, SlotReplaced
  <2>3. AfterRelease(count, slots[d])[l] = count[l] - One(slots[d], l)
    BY <1>1, ReleasedOne
  <2>4. count[l] = Cardinality(Holding(slots, l)) /\ count[l] \in Int
    BY DEF Counted
  <2>5. One(slots[d], l) \in Int /\ One(slots[i], l) \in Int
    BY DEF One
  <2> QED  BY <1>2, <1>4, <2>1, <2>2, <2>3, <2>4, <2>5
<1>8. moved \in Array(size)
  <2> HIDE DEF first
  <2> QED  BY <1>2, <1>4, SlotReplaced
<1>9. moved = new
  BY DEF left
<1> HIDE DEF moved
<1> QED  BY <1>6, <1>7, <1>8, <1>9 DEF Counted

-----------------------------------------------------------------------------
(* What is known of RemoveIf's loop after n passes: of its references,     *)
RemoveCounts(size, st) ==
  /\ Counted(st.slots, st.count)
  /\ \A i \in 0 .. size - 1 : Releasable(st.slots[i])

(* of the slots it has not come to, and those in front of the first that   *)
(* goes or behind the only one that goes,                                  *)
RemovePlaces(slots, size, M, st, n) ==
  /\ st.dest <= n
  /\ st.gone = {i \in 0 .. n - 1 : slots[i].hash \in M}
  /\ \A i \in n .. size - 1 : st.slots[i] = slots[i]
  /\ \A i \in 0 .. n : (\A p \in st.gone : i <= p) =>
       i <= st.dest /\ \A j \in 0 .. i - 1 : st.slots[j] = slots[j]
  /\ \A p \in st.gone : st.gone = {p} =>
       st.dest = n - 1 /\ \A i \in p .. n - 2 : st.slots[i] = slots[i + 1]

(* and of the scopes.                                                      *)
RemoveScopes(fs, st) ==
  /\ Len(st.scopes) = Len(fs)
  /\ \A k \in 1 .. Len(fs) : k # Len(fs) => st.scopes[k] = fs[k]
  /\ (\A p \in st.gone : fs # <<>> => p > fs[Len(fs)].end) => st.scopes = fs
  /\ \A p \in st.gone : st.gone = {p} => st.scopes = Told(fs, Descend, p)

LEMMA RemovePassCounts ==
  ASSUME NEW size \in Nat, NEW st \in RemoveState(size), NEW i \in 0 .. size - 1,
         NEW M, Null \notin M, RemoveCounts(size, st), st.dest <= i
  PROVE  RemoveCounts(size, RemovePass(M, st, i))
<1> DEFINE new == RemovePass(M, st, i)
<1>1. /\ st.slots \in Array(size) /\ st.dest \in 0 .. size - 1 /\ st.count \in [Listeners -> Int]
      /\ Counted(st.slots, st.count) /\ \A j \in 0 .. size - 1 : Releasable(st.slots[j])
  BY DEF RemoveState, RemoveCounts
<1>2. CASE st.slots[i].hash \in M
  <2>1. /\ new.slots = [st.slots EXCEPT ![i] = Empty]
        /\ new.count = AfterRelease(st.count, st.slots[i])
    BY <1>2 DEF RemovePass, RemoveState
  <2>2. Counted(new.slots, new.count)
    BY <1>1, <2>1, SlotDropped
  <2>3. \A j \in 0 .. size - 1 : Releasable(new.slots[j])
    <3>1. Releasable(Empty)
      BY DEF Releasable, Empty
    <3> QED  BY <1>1, <2>1, <3>1 DEF Array
  <2> QED  BY <2>2, <2>3 DEF RemoveCounts
<1>3. CASE st.slots[i].hash \notin M /\ i = st.dest
  <2>1. new.slots = st.slots /\ new.count = st.count
    BY <1>3 DEF RemovePass, RemoveState
  <2> QED  BY <1>1, <2>1 DEF RemoveCounts
<1>4. CASE st.slots[i].hash \notin M /\ i # st.dest
  <2>1. /\ new.slots = [st.slots EXCEPT ![st.dest] = st.slots[i], ![i] = MovedFrom(st.slots[i])]
        /\ new.count = AfterRelease(st.count, st.slots[st.dest])
    BY <1>4 DEF RemovePass, RemoveState
  <2>2. \A d \in 0 .. size - 1 : \A new1 :
          d # i /\ new1 = [st.slots EXCEPT ![d] = st.slots[i], ![i] = MovedFrom(st.slots[i])] =>
            /\ Counted(new1, AfterRelease(st.count, st.slots[d]))
            /\ \A j \in 0 .. size - 1 : Releasable(new1[j])
    BY <1>1, SlotMoved
  <2>3. Counted(new.slots, new.count) /\ \A j \in 0 .. size - 1 : Releasable(new.slots[j])
    <3> HIDE DEF new
    <3> QED  BY <1>1, <1>4, <2>1, <2>2
  <2> QED  BY <2>3 DEF RemoveCounts
<1> QED  BY <1>2, <1>3, <1>4

LEMMA RemovePassPlaces ==
  ASSUME NEW size \in Nat, NEW slots \in Array(size), NEW st \in RemoveState(size),
         NEW n \in 0 .. size - 1, NEW M, RemovePlaces(slots, size, M, st, n)
  PROVE  RemovePlaces(slots, size, M, RemovePass(M, st, n), n + 1)
<1> DEFINE new == RemovePass(M, st, n)
<1>1. /\ st.slots \in Array(size) /\ st.dest \in Nat /\ st.gone \in SUBSET Nat /\ n \in Nat
      /\ st.slots[n] = slots[n]
  BY DEF RemoveState, RemovePlaces
<1>2. DOMAIN st.slots = 0 .. size - 1
  BY <1>1 DEF Array
<1>3. CASE slots[n].hash \in M
  <2>1. /\ new.slots = [st.slots EXCEPT ![n] = Empty]
        /\ new.dest = st.dest
        /\ new.gone = st.gone \cup {n}
    BY <1>1, <1>3 DEF RemovePass, RemoveState
  <2> SUFFICES RemovePlaces(slots, size, M, new, n + 1)
    OBVIOUS
  <2> HIDE DEF new
  <2>2. new.dest <= n + 1
    BY <1>1, <2>1 DEF RemovePlaces
  <2>3. new.gone = {i \in 0 .. n + 1 - 1 : slots[i].hash \in M}
    <3>1. {i \in 0 .. n + 1 - 1 : slots[i].hash \in M} = {i \in 0 .. n - 1 : slots[i].hash \in M} \cup {n}
      BY <1>1, <1>3
    <3> QED  BY <2>1, <3>1 DEF RemovePlaces
  <2>4. \A i \in n + 1 .. size - 1 : new.slots[i] = slots[i]
    BY <1>1, <1>2, <2>1 DEF RemovePlaces
  <2>5. ASSUME NEW i \in 0 .. n + 1, \A p \in new.gone : i <= p
        PROVE  i <= new.dest /\ \A j \in 0 .. i - 1 : new.slots[j] = slots[j]
    <3>1. i \in 0 .. n /\ \A p \in st.gone : i <= p
      BY <1>1, <2>1, <2>5
    <3>2. i <= st.dest /\ \A j \in 0 .. i - 1 : st.slots[j] = slots[j]
      BY <3>1 DEF RemovePlaces
    <3> QED  BY <1>1, <1>2, <2>1, <3>1, <3>2
  <2>6. ASSUME NEW p \in new.gone, new.gone = {p}
        PROVE  new.dest = n /\ \A i \in p .. n - 1 : new.slots[i] = slots[i + 1]
    <3>1. p = n /\ st.gone \subseteq {n}
      BY <2>1, <2>6
    <3>2. st.gone = {}
      BY <1>1, <3>1 DEF RemovePlaces
    <3>3. n <= st.dest /\ st.dest <= n
      BY <1>1, <3>2 DEF RemovePlaces
    <3> QED  BY <1>1, <2>1, <3>1, <3>3
  <2> QED  BY <1>1, <2>2, <2>3, <2>4, <2>5, <2>6 DEF RemovePlaces
<1>4. CASE slots[n].hash \notin M
  <2>1. /\ new.slots = IF n = st.dest THEN st.slots
                       ELSE [st.slots EXCEPT ![st.dest] = st.slots[n], ![n] = MovedFrom(st.slots[n])]
        /\ new.dest = st.dest + 1
        /\ new.gone = st.gone
    BY <1>1, <1>4 DEF RemovePass, RemoveState
  <2> SUFFICES RemovePlaces(slots, size, M, new, n + 1)
    OBVIOUS
  <2> HIDE DEF new
  <2>2. st.dest \in 0 .. n
    BY <1>1 DEF RemovePlaces
  <2>3. /\ new.slots[st.dest] = slots[n]
        /\ \A j \in 0 .. size - 1 : j # st.dest /\ j # n => new.slots[j] = st.slots[j]
    BY <1>1, <1>2, <2>1, <2>2
  <2>4. new.gone = {i \in 0 .. n + 1 - 1 : slots[i].hash \in M}
    <3>1. {i \in 0 .. n + 1 - 1 : slots[i].hash \in M} = {i \in 0 .. n - 1 : slots[i].hash \in M}
      BY <1>1, <1>4
    <3> QED  BY <2>1, <3>1 DEF RemovePlaces
  <2>5. \A i \in n + 1 .. size - 1 : new.slots[i] = slots[i]
    BY <1>1, <2>2, <2>3 DEF RemovePlaces
  <2>6. ASSUME NEW i \in 0 .. n + 1, \A p \in new.gone : i <= p
        PROVE  i <= new.dest /\ \A j \in 0 .. i - 1 : new.slots[j] = slots[j]
    <3>1. CASE i <= n
      <4>1. i <= st.dest /\ \A j \in 0 .. i - 1 : st.slots[j] = slots[j]
        BY <2>1, <2>6, <3>1 DEF RemovePlaces
      <4> QED  BY <1>1, <2>1, <2>2, <2>3, <3>1, <4>1
    <3>2. CASE i = n + 1
      <4>1. \A p \in st.gone : n <= p
        BY <1>1, <2>1, <2>6, <3>2
      <4>2. n <= st.dest /\ \A j \in 0 .. n - 1 : st.slots[j] = slots[j]
        BY <1>1, <4>1 DEF RemovePlaces
      <4> QED  BY <1>1, <2>1, <2>2, <2>3, <3>2, <4>2
    <3> QED  BY <3>1, <3>2
  <2>7. ASSUME NEW p \in new.gone, new.gone = {p}
        PROVE  new.dest = n /\ \A i \in p .. n - 1 : new.slots[i] = slots[i + 1]
    <3>1. st.dest = n - 1 /\ \A i \in p .. n - 2 : st.slots[i] = slots[i + 1]
      BY <2>1, <2>7 DEF RemovePlaces
    <3>2. p \in 0 .. n - 1
      BY <2>1 DEF RemovePlaces
    <3> QED  BY <1>1, <2>1, <2>2, <2>3, <3>1, <3>2
  <2> QED  BY <1>1, <2>1, <2>2, <2>4, <2>5, <2>6, <2>7 DEF RemovePlaces
<1> QED  BY <1>3, <1>4

LEMMA RemovePassScopes ==
  ASSUME NEW size \in Nat, NEW st \in RemoveState(size), NEW n \in 0 .. size - 1, NEW M,
         NEW fs \in Seq(AScope), RemoveScopes(fs, st), \A p \in st.gone : p < n
  PROVE  RemoveScopes(fs, RemovePass(M, st, n))
<1> DEFINE new == RemovePass(M, st, n)
           top == Len(fs)
<1>1. /\ st.scopes \in Seq(AScope) /\ Len(st.scopes) = top /\ top \in Nat
      /\ DOMAIN fs = 1 .. top /\ DOMAIN st.scopes = 1 .. top
      /\ n \in Int /\ st.gone \in SUBSET Nat
      /\ \A k \in 1 .. top : fs[k] \in AScope
  BY DEF RemoveState, RemoveScopes
<1>2. CASE st.slots[n].hash \in M
  <2>1. new.scopes = Told(st.scopes, Descend, n) /\ new.gone = st.gone \cup {n}
    BY <1>2 DEF RemovePass, RemoveState
  <2>2. new.scopes \in Seq(AScope) /\ Len(new.scopes) = top
    BY <1>1, <2>1, ToldAreScopes
  <2>3. \A k \in 1 .. top : new.scopes[k] = IF k = top THEN Descend(st.scopes[k], n) ELSE st.scopes[k]
    BY <1>1, <2>1 DEF Told
  <2> SUFFICES RemoveScopes(fs, new)
    OBVIOUS
  <2> HIDE DEF new
  <2>4. \A k \in 1 .. top : k # top => new.scopes[k] = fs[k]
    BY <1>1, <2>3 DEF RemoveScopes
  <2>5. ASSUME \A p \in new.gone : fs # <<>> => p > fs[top].end
        PROVE  new.scopes = fs
    <3>1. st.scopes = fs
      BY <2>1, <2>5 DEF RemoveScopes
    <3>2. ASSUME top # 0 PROVE Descend(fs[top], n) = fs[top]
      <4>1. n > fs[top].end
        BY <1>1, <2>1, <2>5, <3>2
      <4> QED  BY <4>1 DEF Descend
    <3>3. ASSUME NEW k \in 1 .. top PROVE new.scopes[k] = fs[k]
      <4>1. CASE k = top
        <5>1. new.scopes[k] = Descend(fs[top], n)
          BY <2>3, <3>1, <4>1
        <5>2. Descend(fs[top], n) = fs[top]
          BY <1>1, <3>2, <4>1
        <5> QED  BY <4>1, <5>1, <5>2
      <4>2. CASE k # top
        BY <2>3, <3>1, <4>2
      <4> QED  BY <4>1, <4>2
    <3> QED  BY <1>1, <2>2, <3>3, SeqEqual
  <2>6. ASSUME NEW p \in new.gone, new.gone = {p}
        PROVE  new.scopes = Told(fs, Descend, p)
    <3>1. p = n /\ st.gone \subseteq {n}
      BY <2>1, <2>6
    <3>2. st.gone = {}
      BY <1>1, <3>1
    <3>3. st.scopes = fs
      BY <3>2 DEF RemoveScopes
    <3> QED  BY <2>1, <3>1, <3>3
  <2> QED  BY <2>2, <2>4, <2>5, <2>6 DEF RemoveScopes
<1>3. CASE st.slots[n].hash \notin M
  <2>1. new.scopes = st.scopes /\ new.gone = st.gone
    BY <1>3 DEF RemovePass, RemoveState
  <2> SUFFICES RemoveScopes(fs, new)
    OBVIOUS
  <2> HIDE DEF new
  <2> QED  BY <2>1 DEF RemoveScopes
<1> QED  BY <1>2, <1>3

(* What RemoveIf comes to.                                                 *)
LEMMA RemoveDone ==
  ASSUME NEW size \in Nat, NEW slots \in Array(size), NEW used \in 0 .. size,
         NEW M, Null \notin M, NEW count \in [Listeners -> Int], NEW fs \in Seq(AScope),
         Counted(slots, count), \A i \in 0 .. size - 1 : Releasable(slots[i]),
         NEW r, r = RemoveIf(slots, used, M, count, fs)
  PROVE  /\ r \in RemoveState(size)
         /\ RemoveCounts(size, r)
         /\ RemovePlaces(slots, size, M, r, used)
         /\ RemoveScopes(fs, r)
<1> DEFINE after == RemoveLoop(slots, used, M, count, fs)
           start == RemoveStart(slots, count, fs)
           T == {n \in 0 .. used : /\ RemoveCounts(size, after[n])
                                   /\ RemovePlaces(slots, size, M, after[n], n)
                                   /\ RemoveScopes(fs, after[n])}
<1>1. /\ after \in [0 .. used -> RemoveState(size)]
      /\ after[0] = start
      /\ \A n \in 0 .. used - 1 : after[n + 1] = RemovePass(M, after[n], n)
      /\ r = after[used]
  <2>1. RemoveRun(size, slots, used, M, count, fs, after)
    BY RemoveRuns
  <2> HIDE DEF after
  <2> QED  BY <2>1 DEF RemoveRun
<1>2. used \in Nat /\ \A n \in 0 .. used - 1 : n \in 0 .. size - 1 /\ n \in 0 .. used /\ n + 1 \in 0 .. used
  OBVIOUS
<1> HIDE DEF after
<1>3. 0 \in T
  <2>1. RemoveCounts(size, start)
    BY DEF RemoveCounts, RemoveStart
  <2>2. RemovePlaces(slots, size, M, start, 0)
    BY DEF RemovePlaces, RemoveStart
  <2>3. RemoveScopes(fs, start)
    BY DEF RemoveScopes, RemoveStart
  <2> HIDE DEF start
  <2> QED  BY <1>1, <1>2, <2>1, <2>2, <2>3
<1>4. ASSUME NEW n \in 0 .. used - 1, n \in T  PROVE n + 1 \in T
  <2>1. /\ after[n] \in RemoveState(size) /\ n \in 0 .. size - 1
        /\ after[n + 1] = RemovePass(M, after[n], n)
    BY <1>1, <1>2
  <2>2. /\ RemoveCounts(size, after[n])
        /\ RemovePlaces(slots, size, M, after[n], n)
        /\ RemoveScopes(fs, after[n])
    BY <1>4
  <2>3. after[n].dest <= n /\ \A p \in after[n].gone : p < n
    BY <2>2 DEF RemovePlaces
  <2>4. RemoveCounts(size, after[n + 1])
    BY <2>1, <2>2, <2>3, RemovePassCounts
  <2>5. RemovePlaces(slots, size, M, after[n + 1], n + 1)
    BY <2>1, <2>2, RemovePassPlaces
  <2>6. RemoveScopes(fs, after[n + 1])
    BY <2>1, <2>2, <2>3, RemovePassScopes
  <2> QED  BY <1>2, <2>4, <2>5, <2>6
<1> HIDE DEF T
<1>5. used \in T
  BY <1>2, <1>3, <1>4, Upwards
<1> QED  BY <1>1, <1>5 DEF T

-----------------------------------------------------------------------------
(* What an emission owes, when it is calm.                                 *)

Left(slots, itr, end) == [j \in 1 .. end - itr |-> slots[itr + j - 1]]

Owes(slots, used, f) ==
  f.calm => /\ ~ f.stale
            /\ 0 <= f.itr /\ f.itr <= f.end /\ f.end <= used
            /\ f.todo = Left(slots, f.itr, f.end)

(* A scope that a removal concerns in no place it has still to come to.    *)
LEMMA OwesBehind ==
  ASSUME NEW size \in Nat, NEW slots \in Array(size), NEW used \in 0 .. size,
         NEW M \in SUBSET Listeners, NEW r, RemovePlaces(slots, size, M, r, used),
         NEW f \in AScope, f.calm, Owes(slots, used, f), \A p \in r.gone : p >= f.end
  PROVE  Owes(r.slots, used, [f EXCEPT !.todo = Those(f.todo, Hashes \ M)])
<1>1. /\ ~ f.stale /\ f.itr \in Nat /\ f.end \in Nat /\ f.itr <= f.end /\ f.end <= used
      /\ f.todo \in Seq(Slot)
      /\ f.todo = Left(slots, f.itr, f.end)
  BY DEF AScope, Owes
<1>2. f.end \in 0 .. used /\ \A p \in r.gone : f.end <= p
  BY <1>1 DEF RemovePlaces
<1>3. \A i \in 0 .. f.end - 1 : r.slots[i] = slots[i] /\ slots[i] \in Slot /\ slots[i].hash \notin M
  <2>1. \A i \in 0 .. f.end - 1 : r.slots[i] = slots[i]
    BY <1>2 DEF RemovePlaces
  <2>2. \A i \in 0 .. f.end - 1 : i \notin r.gone /\ i \in 0 .. used - 1 /\ i \in 0 .. size - 1
    BY <1>1
  <2> QED  BY <2>1, <2>2 DEF RemovePlaces, Array
<1>4. Len(f.todo) = f.end - f.itr /\ \A j \in 1 .. Len(f.todo) : f.todo[j] = slots[f.itr + j - 1]
  BY <1>1 DEF Left
<1>5. \A j \in 1 .. Len(f.todo) : f.todo[j].hash \in Hashes \ M
  <2>1. \A j \in 1 .. Len(f.todo) : f.itr + j - 1 \in 0 .. f.end - 1
    BY <1>1, <1>4
  <2> QED  BY <1>3, <1>4, <2>1 DEF Slot
<1>6. Those(f.todo, Hashes \ M) = f.todo
  BY <1>1, <1>5, TakenAll
<1>7. [f EXCEPT !.todo = Those(f.todo, Hashes \ M)] = f
  BY <1>6 DEF AScope
<1>8. f.todo = Left(r.slots, f.itr, f.end)
  <2>1. \A j \in 1 .. f.end - f.itr : f.itr + j - 1 \in 0 .. f.end - 1
    BY <1>1
  <2>2. \A j \in 1 .. f.end - f.itr : r.slots[f.itr + j - 1] = slots[f.itr + j - 1]
    BY <1>3, <2>1
  <2> QED  BY <1>1, <2>2 DEF Left
<1> QED  BY <1>1, <1>7, <1>8 DEF Owes

(* What is left of the slots from i to e when the one at p goes and those  *)
(* behind it move down.                                                    *)
ClosedUp(slots, new, used, M, p) ==
  /\ \A k \in 0 .. used - 1 : slots[k] \in Slot /\ (slots[k].hash \in M <=> k = p)
  /\ \A k \in 0 .. p - 1 : new[k] = slots[k]
  /\ \A k \in p .. used - 2 : new[k] = slots[k + 1]

LEMMA TodoShifted ==
  ASSUME NEW used \in Nat, NEW slots, NEW new, NEW M,
         NEW i \in Nat, NEW e \in Nat, i <= e, e <= used,
         NEW p \in Nat, p < e, ClosedUp(slots, new, used, M, p),
         NEW itr, itr = IF p < i THEN i - 1 ELSE i
  PROVE  Those(Left(slots, i, e), Hashes \ M) = Left(new, itr, e - 1)
<1>0. /\ \A k \in 0 .. used - 1 : slots[k] \in Slot /\ (slots[k].hash \in M <=> k = p)
      /\ \A k \in 0 .. p - 1 : new[k] = slots[k]
      /\ \A k \in p .. used - 2 : new[k] = slots[k + 1]
  BY DEF ClosedUp
<1> DEFINE L == e - i
           K == Hashes \ M
           todo == [j \in 1 .. L |-> slots[i + j - 1]]
<1>1. L \in Nat /\ \A j \in 1 .. L : i + j - 1 \in 0 .. used - 1
  OBVIOUS
<1>2. \A j \in 1 .. L : todo[j] = slots[i + j - 1] /\ todo[j] \in Slot
  BY <1>0, <1>1
<1>3. todo \in Seq(Slot) /\ Len(todo) = L
  <2> HIDE DEF L
  <2>1. todo \in [1 .. L -> Slot]
    BY <1>2
  <2> HIDE DEF todo
  <2> QED  BY <1>1, <2>1
<1>4. \A j \in 1 .. L : todo[j].hash \in K <=> i + j - 1 # p
  BY <1>0, <1>1, <1>2 DEF Slot
<1>5. Left(slots, i, e) = todo
  BY DEF Left
<1> SUFFICES Those(todo, K) = Left(new, itr, e - 1)
  BY <1>5
<1> HIDE DEF todo, K
<1>6. CASE p < i
  <2>1. \A j \in 1 .. Len(todo) : todo[j].hash \in K
    <3>1. \A j \in 1 .. L : i + j - 1 # p
      BY <1>6
    <3> QED  BY <1>3, <1>4, <3>1
  <2>2. Those(todo, K) = todo
    BY <1>3, <2>1, TakenAll
  <2>3. (e - 1) - itr = L
    BY <1>6
  <2>4. \A j \in 1 .. L : new[itr + j - 1] = slots[i + j - 1]
    <3>1. \A j \in 1 .. L : itr + j - 1 \in p .. used - 2 /\ (itr + j - 1) + 1 = i + j - 1
      BY <1>6
    <3> QED  BY <1>0, <3>1
  <2> HIDE DEF L
  <2>5. Left(new, itr, e - 1) = [j \in 1 .. L |-> new[itr + j - 1]]
    BY <2>3 DEF Left
  <2> QED  BY <2>2, <2>4, <2>5 DEF todo
<1>7. CASE ~ (p < i)
  <2> DEFINE q == p - i + 1
  <2>1. q \in 1 .. L /\ \A j \in 1 .. L : i + j - 1 # p <=> j # q
    BY <1>7
  <2>2. Those(todo, K) = Without(todo, q)
    <3>1. q \in 1 .. Len(todo) /\ \A j \in 1 .. Len(todo) : todo[j].hash \in K <=> j # q
      BY <1>3, <1>4, <2>1
    <3> HIDE DEF q
    <3> QED  BY <1>3, <3>1, TakenButOne
  <2>3. (e - 1) - itr = L - 1 /\ itr = i
    BY <1>7
  <2>4. ASSUME NEW j \in 1 .. L - 1
        PROVE  new[itr + j - 1] = todo[IF j < q THEN j ELSE j + 1]
    <3>1. CASE j < q
      <4>1. itr + j - 1 \in 0 .. p - 1 /\ itr + j - 1 = i + j - 1 /\ j \in 1 .. L
        BY <1>7, <3>1
      <4> QED  BY <1>0, <1>2, <3>1, <4>1
    <3>2. CASE ~ (j < q)
      <4>1. itr + j - 1 \in p .. used - 2 /\ (itr + j - 1) + 1 = i + (j + 1) - 1 /\ j + 1 \in 1 .. L
        BY <1>7, <3>2
      <4> QED  BY <1>0, <1>2, <3>2, <4>1
    <3> QED  BY <3>1, <3>2
  <2>5. Without(todo, q) = [j \in 1 .. L - 1 |-> todo[IF j < q THEN j ELSE j + 1]]
    BY <1>3 DEF Without
  <2>6. Left(new, itr, e - 1) = [j \in 1 .. L - 1 |-> new[itr + j - 1]]
    BY <2>3 DEF Left
  <2> HIDE DEF q, L
  <2> QED  BY <2>2, <2>4, <2>5, <2>6
<1> QED  BY <1>6, <1>7

(* The innermost scope, when one slot in front of its end goes.            *)
LEMMA OwesBefore ==
  ASSUME NEW size \in Nat, NEW slots \in Array(size), NEW used \in 0 .. size,
         NEW M \in SUBSET Listeners, NEW r, RemovePlaces(slots, size, M, r, used),
         NEW f \in AScope, f.calm, Owes(slots, used, f),
         NEW p \in r.gone, r.gone = {p}, p < f.end
  PROVE  Owes(r.slots, used, [Descend(f, p) EXCEPT !.todo = Those(f.todo, Hashes \ M)])
<1> DEFINE left == Those(f.todo, Hashes \ M)
           itr == IF p < f.itr THEN f.itr - 1 ELSE f.itr
           end == f.end - 1
           g == [Descend(f, p) EXCEPT !.todo = left]
<1>1. /\ ~ f.stale /\ f.itr \in Nat /\ f.end \in Nat /\ f.itr <= f.end /\ f.end <= used
      /\ f.todo \in Seq(Slot) /\ used \in Nat
      /\ f.todo = Left(slots, f.itr, f.end)
  BY DEF AScope, Owes
<1>2. p \in 0 .. used - 1 /\ p \in Nat /\ slots[p].hash \in M
  BY DEF RemovePlaces
<1>3. \A i \in 0 .. used - 1 : slots[i] \in Slot /\ (slots[i].hash \in M <=> i = p)
  BY DEF RemovePlaces, Array
<1>4. /\ \A i \in 0 .. p - 1 : r.slots[i] = slots[i]
      /\ \A i \in p .. used - 2 : r.slots[i] = slots[i + 1]
  BY <1>2 DEF RemovePlaces
<1>5. g.calm /\ ~ g.stale /\ g.itr = itr /\ g.end = end /\ g.todo = left
  <2>1. Descend(f, p) = [f EXCEPT !.itr = itr, !.end = end]
    <3>1. ~ (f.stale \/ p > f.end) /\ ~ (f.itr > f.end)
      BY <1>1, <1>2
    <3>2. CASE p < f.itr
      BY <3>1, <3>2 DEF Descend
    <3>3. CASE ~ (p < f.itr)
      BY <3>1, <3>3 DEF Descend
    <3> QED  BY <3>2, <3>3
  <2> HIDE DEF left, itr, end
  <2> QED  BY <1>1, <2>1 DEF AScope
<1>6. 0 <= itr /\ itr <= end /\ end <= used
  BY <1>1, <1>2
<1>7. left = Left(r.slots, itr, end)
  <2> DEFINE i == f.itr
             e == f.end
             new == r.slots
  <2>1. /\ i \in Nat /\ e \in Nat /\ i <= e /\ e <= used /\ p < e /\ p \in Nat /\ used \in Nat
        /\ \A k \in 0 .. p - 1 : new[k] = slots[k]
        /\ \A k \in p .. used - 2 : new[k] = slots[k + 1]
    BY <1>1, <1>2, <1>4
  <2>2. itr = IF p < i THEN i - 1 ELSE i
    OBVIOUS
  <2>3. left = Those(Left(slots, i, e), Hashes \ M) /\ end = e - 1
    BY <1>1
  <2> HIDE DEF i, e, new, itr, left, end
  <2>4. \A k \in 0 .. used - 1 : slots[k] \in Slot /\ (slots[k].hash \in M <=> k = p)
    BY <1>3
  <2>5. ClosedUp(slots, new, used, M, p)
    BY <2>1, <2>4 DEF ClosedUp
  <2>6. i \in Nat /\ e \in Nat /\ i <= e /\ e <= used /\ p < e /\ p \in Nat /\ used \in Nat
    BY <2>1
  <2>7. Those(Left(slots, i, e), Hashes \ M) = Left(new, itr, e - 1)
    BY <2>2, <2>5, <2>6, TodoShifted
  <2> QED  BY <2>3, <2>7 DEF new
<1> HIDE DEF g, left, itr, end
<1>8. Owes(r.slots, used, g)
  BY <1>5, <1>6, <1>7 DEF Owes
<1> QED  BY <1>8 DEF g, left

-----------------------------------------------------------------------------
(* A signal between two operations: its references are counted, and what   *)
(* its slots hold can be given back, and its scopes go on with what they   *)
(* owe.                                                                    *)
Signals(size) ==
  [slots : Array(size), used : 0 .. size, size : {size}, refs : [Listeners -> Int],
   scopes : Seq(AScope)]

Sound(st) ==
  /\ st.size \in Nat \ {0}
  /\ st \in Signals(st.size)
  /\ Counted(st.slots, st.refs)
  /\ \A i \in 0 .. st.size - 1 : Releasable(st.slots[i])
  /\ \A k \in 1 .. Len(st.scopes) : Owes(st.slots, st.used, st.scopes[k])

LEMMA ThoseAreSlots ==
  ASSUME NEW s \in Seq(Slot), NEW M
  PROVE  Those(s, M) \in Seq(Slot)
<1>1. Len(s) \in 0 .. Len(s)
  OBVIOUS
<1>2. TakeLoop(s, M)[Len(s)] \in Seq(Slot)
  BY <1>1, TakeRuns
<1> QED  BY <1>2 DEF Those, TakeLoop

LEMMA SettledScope ==
  ASSUME NEW f \in AScope, NEW survives, NEW owed \in Seq(Slot)
  PROVE  /\ Settle(f, survives, owed) \in AScope
         /\ Settle(f, survives, owed).calm <=> f.calm /\ survives
         /\ f.calm /\ survives => Settle(f, survives, owed) = [f EXCEPT !.todo = owed]
<1>1. CASE f.calm /\ survives
  BY <1>1 DEF Settle, AScope
<1>2. CASE ~ (f.calm /\ survives)
  <2> DEFINE none == <<>>
  <2>1. none \in Seq(Slot)
    OBVIOUS
  <2>2. Settle(f, survives, owed) = [itr |-> f.itr, end |-> f.end, stale |-> f.stale,
                                     calm |-> FALSE, todo |-> none]
    BY <1>2 DEF Settle, AScope
  <2> HIDE DEF none
  <2> QED  BY <1>2, <2>1, <2>2 DEF AScope
<1> QED  BY <1>1, <1>2

(* What a removal leaves is sound.                                         *)
LEMMA EliminatedSound ==
  ASSUME NEW st, Sound(st), NEW M \in SUBSET Listeners
  PROVE  Sound(Eliminated(st, M)) /\ Eliminated(st, M).used = st.used
<1> DEFINE r   == RemoveIf(st.slots, st.used, M, st.refs, st.scopes)
           top == Len(st.scopes)
           Survives(k) ==
             LET f == st.scopes[k]
             IN  IF k = top
                   THEN \/ \A p \in r.gone : p > f.end
                        \/ \E p \in r.gone : p < f.end /\ r.gone = {p}
                   ELSE \A p \in r.gone : p >= f.end
           Owed(k) == Those(st.scopes[k].todo, Hashes \ M)
           fs  == [k \in 1 .. top |-> Settle(r.scopes[k], Survives(k), Owed(k))]
           new == Eliminated(st, M)
<1>1. /\ st.size \in Nat \ {0} /\ st.size \in Nat /\ st.slots \in Array(st.size)
      /\ st.used \in 0 .. st.size
      /\ st.refs \in [Listeners -> Int] /\ st.scopes \in Seq(AScope)
      /\ Counted(st.slots, st.refs)
      /\ \A i \in 0 .. st.size - 1 : Releasable(st.slots[i])
      /\ \A k \in 1 .. top : Owes(st.slots, st.used, st.scopes[k])
      /\ top \in Nat
  BY DEF Sound, Signals
<1>2. new = [st EXCEPT !.slots = r.slots, !.refs = r.count, !.scopes = fs]
  BY DEF Eliminated
<1>3. Null \notin M
  BY SignalAssumption
<1>4. /\ r \in RemoveState(st.size)
      /\ RemoveCounts(st.size, r)
      /\ RemovePlaces(st.slots, st.size, M, r, st.used)
      /\ RemoveScopes(st.scopes, r)
  BY <1>1, <1>3, RemoveDone
<1> SUFFICES Sound(new) /\ new.used = st.used
  OBVIOUS
<1> HIDE DEF new, r
<1>5. /\ r.slots \in Array(st.size) /\ r.count \in [Listeners -> Int]
      /\ r.scopes \in Seq(AScope) /\ r.gone \in SUBSET Nat /\ Len(r.scopes) = top
  BY <1>4 DEF RemoveState, RemoveScopes
<1>6. \A k \in 1 .. top : r.scopes[k] \in AScope /\ st.scopes[k] \in AScope
                          /\ st.scopes[k].todo \in Seq(Slot) /\ Owed(k) \in Seq(Slot)
  <2>1. \A k \in 1 .. top : r.scopes[k] \in AScope /\ st.scopes[k] \in AScope
    BY <1>1, <1>5
  <2>2. \A k \in 1 .. top : st.scopes[k].todo \in Seq(Slot)
    BY <2>1 DEF AScope
  <2> QED  BY <2>1, <2>2, ThoseAreSlots
<1>7. \A k \in 1 .. top : fs[k] = Settle(r.scopes[k], Survives(k), Owed(k))
  OBVIOUS
<1>8. ASSUME NEW k \in 1 .. top
      PROVE  fs[k] \in AScope /\ Owes(r.slots, st.used, fs[k])
  <2> DEFINE f == st.scopes[k]
             g == r.scopes[k]
  <2> HIDE DEF fs
  <2>1. /\ fs[k] \in AScope /\ (fs[k].calm <=> g.calm /\ Survives(k))
        /\ g.calm /\ Survives(k) => fs[k] = [g EXCEPT !.todo = Owed(k)]
    <3> HIDE DEF Survives, Owed
    <3> QED  BY <1>6, <1>7, SettledScope
  <2>2. ASSUME fs[k].calm  PROVE Owes(r.slots, st.used, fs[k])
    <3>1. g.calm /\ Survives(k) /\ fs[k] = [g EXCEPT !.todo = Those(f.todo, Hashes \ M)]
      BY <2>1, <2>2
    <3>2. f \in AScope /\ Owes(st.slots, st.used, f) /\ f.end \in Int
      BY <1>1, <1>6 DEF AScope
    <3>3. CASE g = f /\ \A p \in r.gone : p >= f.end
      <4>1. f.calm /\ fs[k] = [f EXCEPT !.todo = Those(f.todo, Hashes \ M)]
        BY <3>1, <3>3
      <4> HIDE DEF f
      <4>2. Owes(r.slots, st.used, [f EXCEPT !.todo = Those(f.todo, Hashes \ M)])
        BY <1>1, <1>4, <3>2, <3>3, <4>1, OwesBehind
      <4> QED  BY <4>1, <4>2
    <3>4. ASSUME NEW p \in r.gone, k = top, p < f.end, r.gone = {p}
          PROVE  Owes(r.slots, st.used, fs[k])
      <4>1. r.scopes = Told(st.scopes, Descend, p)
        BY <1>4, <3>4 DEF RemoveScopes
      <4>2. g = Descend(f, p)
        BY <1>1, <3>4, <4>1 DEF Told
      <4>3. g.calm = f.calm
        BY <3>2, <4>2 DEF Descend, AScope
      <4>4. f.calm
        BY <3>1, <4>3
      <4>5. Owes(r.slots, st.used, [Descend(f, p) EXCEPT !.todo = Those(f.todo, Hashes \ M)])
        BY ZenonT(40), <1>1, <1>4, <3>2, <3>4, <4>4, OwesBefore
      <4> QED  BY <3>1, <4>2, <4>5
    <3>5. CASE k = top /\ \A p \in r.gone : p > f.end
      <4>1. r.scopes = st.scopes
        BY <1>4, <3>5 DEF RemoveScopes
      <4>2. \A p \in r.gone : p >= f.end
        BY <1>5, <3>2, <3>5
      <4> QED  BY <4>1, <4>2, <3>3
    <3>6. CASE k # top
      <4>1. g = f
        BY <1>1, <1>4, <3>6 DEF RemoveScopes
      <4> QED  BY <3>1, <3>3, <3>6, <4>1
    <3> QED  BY <3>1, <3>4, <3>5, <3>6
  <2>3. ASSUME ~ fs[k].calm  PROVE Owes(r.slots, st.used, fs[k])
    BY <2>3 DEF Owes
  <2> QED  BY <2>1, <2>2, <2>3
<1>9. fs \in Seq(AScope) /\ Len(fs) = top
  <2>1. fs = [k \in 1 .. top |-> fs[k]]
    OBVIOUS
  <2> HIDE DEF fs
  <2>2. fs \in [1 .. top -> AScope]
    BY <1>8, <2>1
  <2> QED  BY <1>1, <2>2
<1>10. Counted(r.slots, r.count) /\ \A i \in 0 .. st.size - 1 : Releasable(r.slots[i])
  BY <1>4 DEF RemoveCounts
<1> HIDE DEF fs, top
<1>11. /\ new.slots = r.slots /\ new.used = st.used /\ new.size = st.size
       /\ new.refs = r.count /\ new.scopes = fs
       /\ new \in Signals(new.size)
  <2> DEFINE a == r.slots
             b == r.count
             size == st.size
  <2>1. st \in Signals(size) /\ st.size = size
    BY DEF Sound
  <2>2. /\ a \in Array(size) /\ b \in [Listeners -> Int] /\ fs \in Seq(AScope)
        /\ new = [st EXCEPT !.slots = a, !.refs = b, !.scopes = fs]
    BY <1>2, <1>5, <1>9
  <2> HIDE DEF a, b, size
  <2>3. /\ new.slots = a /\ new.used = st.used /\ new.size = st.size
        /\ new.refs = b /\ new.scopes = fs /\ new \in Signals(size)
    BY <2>1, <2>2 DEF Signals
  <2> QED  BY <2>1, <2>3 DEF a, b
<1> QED  BY <1>1, <1>8, <1>9, <1>10, <1>11 DEF Sound

-----------------------------------------------------------------------------
(* A connection.                                                           *)

(* What a scope owes does not change with the slots behind those in use.   *)
SameBelow(slots, new, used) == \A i \in 0 .. used - 1 : new[i] = slots[i]

LEMMA OwesSame ==
  ASSUME NEW slots, NEW used \in Nat, NEW new, NEW more \in Nat, used <= more,
         SameBelow(slots, new, used),
         NEW f \in AScope, Owes(slots, used, f)
  PROVE  Owes(new, more, f)
<1> SUFFICES ASSUME f.calm PROVE Owes(new, more, f)
  BY DEF Owes
<1>1. /\ ~ f.stale /\ f.itr \in Nat /\ f.end \in Nat /\ f.itr <= f.end /\ f.end <= used
      /\ f.todo = Left(slots, f.itr, f.end)
  BY DEF AScope, Owes
<1>2. Left(new, f.itr, f.end) = Left(slots, f.itr, f.end)
  <2>1. \A i, e \in Nat : e <= used => \A j \in 1 .. e - i : i + j - 1 \in 0 .. used - 1
    OBVIOUS
  <2>2. \A j \in 1 .. f.end - f.itr : new[f.itr + j - 1] = slots[f.itr + j - 1]
    BY <1>1, <2>1 DEF SameBelow
  <2> QED  BY <2>2 DEF Left
<1> QED  BY <1>1, <1>2 DEF Owes

(* A larger array.                                                         *)
LEMMA AdjustedSound ==
  ASSUME NEW st, Sound(st)
  PROVE  /\ Sound(AdjustSlots(st))
         /\ AdjustSlots(st).used = st.used
         /\ AdjustSlots(st).used < AdjustSlots(st).size
<1> DEFINE size  == st.size + (st.size + 1) \div 2
           top   == Len(st.scopes)
           slots == [i \in 0 .. size - 1 |-> IF i < st.used THEN st.slots[i] ELSE Empty]
           fs    == [k \in 1 .. top |->
                       IF k = top THEN st.scopes[k]
                       ELSE [Settle(st.scopes[k], FALSE, <<>>) EXCEPT !.stale = TRUE]]
           new   == AdjustSlots(st)
<1>1. /\ st.size \in Nat \ {0} /\ st.size \in Nat /\ st.slots \in Array(st.size)
      /\ st.used \in 0 .. st.size /\ st.used \in Nat
      /\ st.refs \in [Listeners -> Int] /\ st.scopes \in Seq(AScope)
      /\ Counted(st.slots, st.refs)
      /\ \A i \in 0 .. st.size - 1 : Releasable(st.slots[i])
      /\ \A k \in 1 .. top : Owes(st.slots, st.used, st.scopes[k])
      /\ top \in Nat /\ st \in Signals(st.size)
  BY DEF Sound, Signals
<1>2. CASE st.used < st.size
  BY <1>1, <1>2 DEF AdjustSlots
<1>3. CASE ~ (st.used < st.size)
  <2>1. st.used = st.size
    BY <1>1, <1>3
  <2>2. size \in Nat \ {0} /\ st.size < size
    BY <1>1
  <2>3. new = [st EXCEPT !.slots = slots, !.size = size, !.scopes = fs]
    BY <1>3 DEF AdjustSlots
  <2>4. slots \in Array(size) /\ DOMAIN slots = 0 .. size - 1
        /\ \A i \in 0 .. size - 1 : slots[i] = IF i < st.used THEN st.slots[i] ELSE Empty
    <3>1. Empty \in Slot
      BY DEF Empty, Slot, Hashes
    <3>2. \A i \in 0 .. size - 1 : i < st.used => st.slots[i] \in Slot
      BY <1>1, <2>1 DEF Array
    <3> HIDE DEF size
    <3> QED  BY <3>1, <3>2 DEF Array
  <2>5. \A k \in 1 .. top : fs[k] \in AScope /\ (k # top => ~ fs[k].calm)
                            /\ (k = top => fs[k] = st.scopes[k])
    <3> SUFFICES ASSUME NEW k \in 1 .. top
                 PROVE  fs[k] \in AScope /\ (k # top => ~ fs[k].calm)
                        /\ (k = top => fs[k] = st.scopes[k])
      OBVIOUS
    <3>1. st.scopes[k] \in AScope /\ <<>> \in Seq(Slot)
      BY <1>1
    <3>2. Settle(st.scopes[k], FALSE, <<>>) \in AScope /\ ~ Settle(st.scopes[k], FALSE, <<>>).calm
      BY <3>1, SettledScope
    <3>3. CASE k = top
      BY <3>1, <3>3
    <3>4. CASE k # top
      <4> DEFINE f == Settle(st.scopes[k], FALSE, <<>>)
      <4>1. fs[k] = [f EXCEPT !.stale = TRUE]
        BY <3>4
      <4> HIDE DEF f, fs
      <4>2. f \in AScope /\ ~ f.calm
        BY <3>2 DEF f
      <4>3. [f EXCEPT !.stale = TRUE] \in AScope /\ [f EXCEPT !.stale = TRUE].calm = f.calm
        BY <4>2 DEF AScope
      <4> QED  BY <3>4, <4>1, <4>2, <4>3
    <3> QED  BY <3>3, <3>4
  <2>6. fs \in Seq(AScope) /\ Len(fs) = top
    <3>1. fs = [k \in 1 .. top |-> fs[k]]
      OBVIOUS
    <3> HIDE DEF fs
    <3>2. fs \in [1 .. top -> AScope]
      BY <2>5, <3>1
    <3> QED  BY <1>1, <3>2
  <2>7. Counted(slots, st.refs)
    <3>1. \A l \in Listeners : Holding(slots, l) = Holding(st.slots, l)
      <4>1. \A l \in Listeners : Empty.ref # l
        BY SignalAssumption DEF Empty
      <4>2. DOMAIN st.slots = 0 .. st.used - 1 /\ \A i \in 0 .. st.used - 1 : i \in 0 .. size - 1 /\ i < st.used
        BY <1>1, <2>1, <2>2 DEF Array
      <4>3. \A i \in 0 .. size - 1 : i < st.used => i \in 0 .. st.used - 1
        BY <1>1, <2>2
      <4> HIDE DEF slots, size
      <4> QED  BY <2>4, <4>1, <4>2, <4>3 DEF Holding
    <3> HIDE DEF slots
    <3> QED  BY <1>1, <3>1 DEF Counted
  <2>8. \A i \in 0 .. size - 1 : Releasable(slots[i])
    <3>1. Releasable(Empty)
      BY DEF Releasable, Empty
    <3>2. \A i \in 0 .. size - 1 : i < st.used => i \in 0 .. st.size - 1
      BY <1>1, <2>1
    <3> HIDE DEF slots, size
    <3> QED  BY <1>1, <2>4, <3>1, <3>2
  <2>9. \A k \in 1 .. top : Owes(slots, st.used, fs[k])
    <3>1. SameBelow(st.slots, slots, st.used)
      BY <1>1, <2>1, <2>2, <2>4 DEF SameBelow
    <3> HIDE DEF slots, fs
    <3>2. ASSUME NEW k \in 1 .. top PROVE Owes(slots, st.used, fs[k])
      <4>1. CASE k # top
        BY <2>5, <4>1 DEF Owes
      <4>2. CASE k = top
        <5> DEFINE f == fs[k]
        <5>1. f \in AScope /\ Owes(st.slots, st.used, f)
          BY <1>1, <2>5, <4>2
        <5> HIDE DEF f
        <5>2. Owes(slots, st.used, f)
          BY <1>1, <3>1, <5>1, OwesSame
        <5> QED  BY <5>2 DEF f
      <4> QED  BY <4>1, <4>2
    <3> QED  BY <3>2
  <2>10. /\ new.slots = slots /\ new.used = st.used /\ new.size = size /\ new.refs = st.refs
         /\ new.scopes = fs /\ new \in Signals(size)
    <3> HIDE DEF new, slots, fs, size
    <3>1. /\ new.slots = slots /\ new.used = st.used /\ new.size = size /\ new.refs = st.refs
          /\ new.scopes = fs
      BY <1>1, <2>3 DEF Signals
    <3>2. st.used \in 0 .. size
      BY <1>1, <2>2
    <3> QED  BY <1>1, <2>3, <2>4, <2>6, <3>2 DEF Signals
  <2>11. new.used < new.size
    BY <2>1, <2>2, <2>10
  <2> SUFFICES Sound(new) /\ new.used = st.used /\ new.used < new.size
    OBVIOUS
  <2> HIDE DEF new, slots, fs, size, top
  <2> QED  BY <1>1, <2>2, <2>6, <2>7, <2>8, <2>9, <2>10, <2>11 DEF Sound
<1> QED  BY <1>2, <1>3

(* What a connection leaves is sound.                                      *)
LEMMA ConnectedSound ==
  ASSUME NEW st, Sound(st), NEW l \in Listeners
  PROVE  Sound(Connected(st, l)) /\ Connected(st, l).used = st.used + 1
<1> DEFINE room  == AdjustSlots(st)
           u     == st.used
           slots == [room.slots EXCEPT ![u] = Filled(l)]
           count == [room.refs EXCEPT ![l] = @ + 1]
           refs1 == AfterRelease(count, room.slots[u])
           new   == Connected(st, l)
<1>1. Sound(room) /\ room.used = u /\ u < room.size
  BY AdjustedSound
<1>2. new = [room EXCEPT !.slots = slots, !.used = u + 1, !.refs = refs1]
  <2>1. new = [room EXCEPT !.slots[u] = Filled(l), !.used = @ + 1, !.refs = refs1]
    BY DEF Connected
  <2> HIDE DEF room, refs1, new
  <2> QED  BY <1>1, <2>1 DEF Sound, Signals
<1> SUFFICES Sound(new) /\ new.used = u + 1
  OBVIOUS
<1> HIDE DEF room, new, u
<1>3. /\ room.size \in Nat \ {0} /\ room.size \in Nat /\ room.slots \in Array(room.size)
      /\ u \in Nat /\ u \in 0 .. room.size - 1 /\ u + 1 \in 0 .. room.size
      /\ room.refs \in [Listeners -> Int] /\ room.scopes \in Seq(AScope)
      /\ Counted(room.slots, room.refs)
      /\ \A i \in 0 .. room.size - 1 : Releasable(room.slots[i])
      /\ \A k \in 1 .. Len(room.scopes) : Owes(room.slots, u, room.scopes[k])
      /\ room \in Signals(room.size)
  BY <1>1 DEF Sound, Signals
<1>4. Filled(l) \in Slot /\ Filled(l).ref = l /\ Releasable(Filled(l))
  BY SignalAssumption DEF Filled, Slot, Hashes, Releasable
<1>5. room.slots[u] \in Slot /\ Releasable(room.slots[u])
  BY <1>3 DEF Array
<1>6. count \in [Listeners -> Int] /\ \A m \in Listeners : count[m] = room.refs[m] + One(Filled(l), m)
  BY <1>3, <1>4 DEF One
<1> HIDE DEF count
<1>7. refs1 \in [Listeners -> Int]
        /\ \A m \in Listeners : refs1[m] = count[m] - One(room.slots[u], m)
  BY <1>5, <1>6, ReleaseCounts, ReleasedOne
<1> HIDE DEF refs1
<1>8. slots \in Array(room.size)
        /\ \A m : Cardinality(Holding(slots, m))
                    = Cardinality(Holding(room.slots, m)) - One(room.slots[u], m) + One(Filled(l), m)
  <2> DEFINE a == room.slots
             size == room.size
             s == Filled(l)
  <2>1. size \in Nat /\ a \in Array(size) /\ u \in 0 .. size - 1 /\ s \in Slot
    BY <1>3, <1>4
  <2> HIDE DEF a, size, s
  <2>2. /\ [a EXCEPT ![u] = s] \in Array(size)
        /\ \A m : Cardinality(Holding([a EXCEPT ![u] = s], m))
                    = Cardinality(Holding(a, m)) - One(a[u], m) + One(s, m)
    BY <2>1, SlotReplaced
  <2> QED  BY <2>2 DEF a, size, s
<1>9. Counted(slots, refs1)
  <2> SUFFICES ASSUME NEW m \in Listeners PROVE refs1[m] = Cardinality(Holding(slots, m))
    BY DEF Counted
  <2>1. One(room.slots[u], m) \in Int /\ One(Filled(l), m) \in Int
    BY DEF One
  <2>2. room.refs[m] \in Int /\ room.refs[m] = Cardinality(Holding(room.slots, m))
    BY <1>3 DEF Counted
  <2> HIDE DEF slots
  <2> QED  BY <1>6, <1>7, <1>8, <2>1, <2>2
<1>10. \A i \in 0 .. room.size - 1 : slots[i] = IF i = u THEN Filled(l) ELSE room.slots[i]
  BY <1>3 DEF Array
<1> HIDE DEF slots
<1>11. \A i \in 0 .. room.size - 1 : Releasable(slots[i])
  BY <1>3, <1>4, <1>10
<1>12. \A k \in 1 .. Len(room.scopes) : Owes(slots, u + 1, room.scopes[k])
  <2>1. SameBelow(room.slots, slots, u) /\ u + 1 \in Nat /\ u <= u + 1
    BY <1>3, <1>10 DEF SameBelow
  <2>2. ASSUME NEW k \in 1 .. Len(room.scopes) PROVE Owes(slots, u + 1, room.scopes[k])
    <3>1. room.scopes[k] \in AScope /\ Owes(room.slots, u, room.scopes[k])
      BY <1>3
    <3> QED  BY <1>3, <2>1, <3>1, OwesSame
  <2> QED  BY <2>2
<1>13. /\ new.slots = slots /\ new.used = u + 1 /\ new.size = room.size /\ new.refs = refs1
       /\ new.scopes = room.scopes /\ new \in Signals(new.size)
  BY <1>2, <1>3, <1>7, <1>8 DEF Signals
<1> QED  BY <1>3, <1>9, <1>11, <1>12, <1>13 DEF Sound

-----------------------------------------------------------------------------
(* The slots of an array in another order.                                 *)

(* b has the slots of a, each once: the one at i is a's at g[i].           *)
Reordered(size, a, b) ==
  /\ b \in Array(size)
  /\ \E g, h \in [0 .. size - 1 -> 0 .. size - 1] :
       \A i \in 0 .. size - 1 : b[i] = a[g[i]] /\ h[g[i]] = i /\ g[h[i]] = i

LEMMA ReorderedCounts ==
  ASSUME NEW size \in Nat, NEW a \in Array(size), NEW b, Reordered(size, a, b)
  PROVE  \A l : Cardinality(Holding(b, l)) = Cardinality(Holding(a, l))
<1> SUFFICES ASSUME NEW l
             PROVE  Cardinality(Holding(b, l)) = Cardinality(Holding(a, l))
  OBVIOUS
<1> DEFINE D == 0 .. size - 1
           A == Holding(a, l)
           B == Holding(b, l)
<1>1. b \in Array(size) /\ DOMAIN b = D /\ DOMAIN a = D
  BY DEF Reordered, Array
<1>2. PICK g, h \in [D -> D] : \A i \in D : b[i] = a[g[i]] /\ h[g[i]] = i /\ g[h[i]] = i
  BY DEF Reordered
<1> HIDE DEF D
<1> DEFINE m == [i \in B |-> g[i]]
<1>3. (\A i \in B : i \in D /\ g[i] \in A) /\ (\A i \in A : i \in D /\ h[i] \in B)
  BY <1>1, <1>2 DEF Holding
<1> HIDE DEF A, B
<1>4. m \in Bijection(B, A)
  <2>1. m \in [B -> A]
    BY <1>3
  <2>2. \A i, j \in B : m[i] = m[j] => i = j
    BY <1>2, <1>3
  <2>3. \A t \in A : \E s \in B : m[s] = t
    BY <1>2, <1>3
  <2> HIDE DEF m
  <2> QED  BY <2>1, <2>2, <2>3, Fun_IsBij
<1>5. ExistsBijection(B, A)
  BY <1>4 DEF ExistsBijection
<1>6. IsFiniteSet(B) /\ IsFiniteSet(A)
  BY <1>1, HoldingFinite DEF A, B
<1>7. Cardinality(A) = Cardinality(B)
  BY <1>5, <1>6, FS_Bijection
<1> QED  BY <1>7 DEF A, B

LEMMA ReorderedSlots ==
  ASSUME NEW size \in Nat, NEW a \in Array(size), NEW b, Reordered(size, a, b),
         \A i \in 0 .. size - 1 : Releasable(a[i])
  PROVE  \A i \in 0 .. size - 1 : Releasable(b[i])
BY DEF Reordered

LEMMA RotatedDown ==
  ASSUME NEW size \in Nat, NEW slots \in Array(size),
         NEW i \in 0 .. size - 1, NEW front \in 0 .. i
  PROVE  Reordered(size, slots, RotateDown(slots, front, i))
<1> DEFINE D == 0 .. size - 1
           g == [j \in D |-> IF j = front THEN i ELSE IF j \in front + 1 .. i THEN j - 1 ELSE j]
           h == [j \in D |-> IF j = i THEN front ELSE IF j \in front .. i - 1 THEN j + 1 ELSE j]
           b == RotateDown(slots, front, i)
<1>1. DOMAIN slots = D /\ \A j \in D : slots[j] \in Slot
  BY DEF Array
<1>2. g \in [D -> D] /\ h \in [D -> D]
  OBVIOUS
<1>3. \A j \in D : h[g[j]] = j /\ g[h[j]] = j
  OBVIOUS
<1>4. \A j \in D : b[j] = slots[g[j]]
  BY <1>1 DEF RotateDown
<1>5. b = [j \in D |-> b[j]]
  BY <1>1 DEF RotateDown
<1> HIDE DEF g, h, b, D
<1>6. b \in [D -> Slot]
  BY <1>1, <1>2, <1>4, <1>5
<1>7. b \in Array(size)
  BY <1>6 DEF Array, D
<1>8. /\ g \in [0 .. size - 1 -> 0 .. size - 1] /\ h \in [0 .. size - 1 -> 0 .. size - 1]
      /\ \A j \in 0 .. size - 1 : b[j] = slots[g[j]] /\ h[g[j]] = j /\ g[h[j]] = j
  BY <1>2, <1>3, <1>4 DEF D
<1>9. Reordered(size, slots, b)
  BY <1>7, <1>8, Zenon DEF Reordered
<1> QED  BY <1>9 DEF b

LEMMA RotatedUp ==
  ASSUME NEW size \in Nat, NEW slots \in Array(size),
         NEW back \in 0 .. size - 1, NEW i \in 0 .. back
  PROVE  Reordered(size, slots, RotateUp(slots, i, back))
<1> DEFINE D == 0 .. size - 1
           g == [j \in D |-> IF j = back THEN i ELSE IF j \in i .. back - 1 THEN j + 1 ELSE j]
           h == [j \in D |-> IF j = i THEN back ELSE IF j \in i + 1 .. back THEN j - 1 ELSE j]
           b == RotateUp(slots, i, back)
<1>1. DOMAIN slots = D /\ \A j \in D : slots[j] \in Slot
  BY DEF Array
<1>2. g \in [D -> D] /\ h \in [D -> D]
  OBVIOUS
<1>3. \A j \in D : h[g[j]] = j /\ g[h[j]] = j
  OBVIOUS
<1>4. \A j \in D : b[j] = slots[g[j]]
  BY <1>1 DEF RotateUp
<1>5. b = [j \in D |-> b[j]]
  BY <1>1 DEF RotateUp
<1> HIDE DEF g, h, b, D
<1>6. b \in [D -> Slot]
  BY <1>1, <1>2, <1>4, <1>5
<1>7. b \in Array(size)
  BY <1>6 DEF Array, D
<1>8. /\ g \in [0 .. size - 1 -> 0 .. size - 1] /\ h \in [0 .. size - 1 -> 0 .. size - 1]
      /\ \A j \in 0 .. size - 1 : b[j] = slots[g[j]] /\ h[g[j]] = j /\ g[h[j]] = j
  BY <1>2, <1>3, <1>4 DEF D
<1>9. Reordered(size, slots, b)
  BY <1>7, <1>8, Zenon DEF Reordered
<1> QED  BY <1>9 DEF b

LEMMA Exchanged ==
  ASSUME NEW size \in Nat, NEW slots \in Array(size),
         NEW i \in 0 .. size - 1, NEW k \in 0 .. size - 1
  PROVE  Reordered(size, slots, [slots EXCEPT ![i] = slots[k], ![k] = slots[i]])
<1> DEFINE D == 0 .. size - 1
           g == [j \in D |-> IF j = k THEN i ELSE IF j = i THEN k ELSE j]
           b == [slots EXCEPT ![i] = slots[k], ![k] = slots[i]]
<1>1. DOMAIN slots = D /\ \A j \in D : slots[j] \in Slot
  BY DEF Array
<1>2. g \in [D -> D] /\ \A j \in D : g[g[j]] = j
  OBVIOUS
<1>3. \A j \in D : b[j] = slots[g[j]]
  BY <1>1
<1>4. b = [j \in D |-> b[j]]
  BY <1>1
<1> HIDE DEF g, b, D
<1>5. b \in [D -> Slot]
  BY <1>1, <1>2, <1>3, <1>4
<1>6. b \in Array(size)
  BY <1>5 DEF Array, D
<1>7. /\ g \in [0 .. size - 1 -> 0 .. size - 1]
      /\ \A j \in 0 .. size - 1 : b[j] = slots[g[j]] /\ g[g[j]] = j /\ g[g[j]] = j
  BY <1>2, <1>3 DEF D
<1>8. Reordered(size, slots, b)
  BY <1>6, <1>7, Zenon DEF Reordered
<1> QED  BY <1>8 DEF b

-----------------------------------------------------------------------------
(* LeadIf.                                                                 *)

LeadState(size) ==
  [slots : Array(size), scopes : Seq(AScope), moved : SUBSET Nat, front : Nat, done : BOOLEAN]

LeadStart(slots, fs) ==
  [slots |-> slots, scopes |-> fs, moved |-> {}, front |-> 0, done |-> FALSE]

LeadLoop(slots, used, M, one, append, fs) ==
  Loop(LAMBDA st, i : LeadPass(M, one, append, st, i), LeadStart(slots, fs), used)

(* A pass that has something to move: where to, and what comes of it.      *)
LeadHit(one, append, st, i, new) ==
  /\ new.slots = RotateDown(st.slots, st.front, i)
  /\ IF i = st.front
       THEN new.scopes = st.scopes /\ new.moved = st.moved
       ELSE new.scopes = Told(st.scopes, ScopeLead, i) /\ new.moved = st.moved \cup {i}
  /\ new.front = IF append THEN st.front + 1 ELSE st.front
  /\ new.done = one

LEMMA LeadPassHit ==
  ASSUME NEW st, NEW i, NEW M, NEW one, NEW append, ~ st.done, st.slots[i].hash \in M
  PROVE  LeadHit(one, append, st, i, LeadPass(M, one, append, st, i))
BY DEF LeadPass, LeadHit

LEMMA LeadPassState ==
  ASSUME NEW size \in Nat, NEW st \in LeadState(size), NEW i \in 0 .. size - 1, NEW M,
         NEW one \in BOOLEAN, NEW append \in BOOLEAN, st.front <= i
  PROVE  LeadPass(M, one, append, st, i) \in LeadState(size)
<1> DEFINE new == LeadPass(M, one, append, st, i)
<1>1. /\ st.slots \in Array(size) /\ st.scopes \in Seq(AScope) /\ st.moved \in SUBSET Nat
      /\ st.front \in Nat /\ st.front \in 0 .. i /\ i \in Nat /\ i \in Int
  BY DEF LeadState
<1>2. CASE st.done \/ st.slots[i].hash \notin M
  BY <1>2 DEF LeadPass
<1>3. CASE ~ (st.done \/ st.slots[i].hash \notin M)
  <2> DEFINE slots  == RotateDown(st.slots, st.front, i)
             scopes1 == IF i = st.front THEN st.scopes ELSE Told(st.scopes, ScopeLead, i)
             moved  == IF i = st.front THEN st.moved ELSE st.moved \cup {i}
             front  == IF append THEN st.front + 1 ELSE st.front
  <2>1. slots \in Array(size)
    BY <1>1, RotatedDown DEF Reordered
  <2>2. scopes1 \in Seq(AScope)
    BY <1>1, ToldAreScopes
  <2>3. moved \in SUBSET Nat /\ front \in Nat
    BY <1>1
  <2>4. new = [slots |-> slots, scopes |-> scopes1, moved |-> moved, front |-> front, done |-> one]
    BY <1>3 DEF LeadPass
  <2> HIDE DEF slots, scopes1, moved, front
  <2> QED  BY <2>1, <2>2, <2>3, <2>4 DEF LeadState
<1> QED  BY <1>2, <1>3

LEMMA LeadPassFront ==
  ASSUME NEW size \in Nat, NEW st \in LeadState(size), NEW i \in Nat, NEW M,
         NEW one \in BOOLEAN, NEW append \in BOOLEAN, st.front <= i
  PROVE  LeadPass(M, one, append, st, i).front <= i + 1
<1>1. st.front \in Nat
  BY DEF LeadState
<1>2. LeadPass(M, one, append, st, i).front \in {st.front, st.front + 1}
  BY DEF LeadPass
<1> QED  BY <1>1, <1>2

LeadRun(size, slots, used, M, one, append, fs, after) ==
  /\ after \in [0 .. used -> LeadState(size)]
  /\ after[0] = LeadStart(slots, fs)
  /\ \A n \in 0 .. used - 1 : after[n + 1] = LeadPass(M, one, append, after[n], n)
  /\ \A n \in 0 .. used : after[n].front <= n
  /\ LeadIf(slots, used, M, one, append, fs) = after[used]

LEMMA LeadRuns ==
  ASSUME NEW size \in Nat, NEW slots \in Array(size), NEW used \in 0 .. size, NEW M,
         NEW one \in BOOLEAN, NEW append \in BOOLEAN, NEW fs \in Seq(AScope)
  PROVE  LeadRun(size, slots, used, M, one, append, fs, LeadLoop(slots, used, M, one, append, fs))
<1> DEFINE N == used
           S == LeadState(size)
           start == LeadStart(slots, fs)
           P(st, i) == LeadPass(M, one, append, st, i)
           Q(st, i) == IF st.front <= i THEN P(st, i) ELSE st
           F == [p \in S \X (0 .. N - 1) |-> Q(p[1], p[2])]
           Eq(g) == g = [n \in 0 .. N |-> IF n = 0 THEN start ELSE P(g[n - 1], n - 1)]
           h == LeadLoop(slots, used, M, one, append, fs)
<1>1. N \in Nat /\ start \in S /\ start.front = 0
  BY DEF LeadStart, LeadState
<1>2. \A st \in S, i \in 0 .. N - 1 : st.front <= i => P(st, i) \in S /\ P(st, i).front <= i + 1
  <2>1. \A i \in 0 .. N - 1 : i \in 0 .. size - 1 /\ i \in Nat
    OBVIOUS
  <2> HIDE DEF N
  <2> QED  BY <2>1, LeadPassState, LeadPassFront
<1>3. h = CHOOSE g : Eq(g)
  BY DEF LeadLoop, Loop
<1> HIDE DEF P
<1>4. F \in [S \X (0 .. N - 1) -> S] /\ \A st \in S, i \in 0 .. N - 1 : F[<<st, i>>] = Q(st, i)
  BY <1>2
<1> HIDE DEF F, N, S, start, h
<1>5. PICK g \in [0 .. N -> S] :
        g[0] = start /\ \A n \in 1 .. N : g[n] = F[<<g[n - 1], n - 1>>]
  <2>1. HasRun(N, S, start, F)
    BY <1>1, <1>4, LoopExists
  <2> QED  BY <2>1 DEF HasRun
<1>6. \A n \in 0 .. N - 1 : n \in 0 .. N /\ n + 1 \in 1 .. N /\ n + 1 \in 0 .. N /\ n + 1 \in Nat
                            /\ g[n] \in S /\ g[n + 1] = Q(g[n], n)
  <2>1. \A n \in 0 .. N - 1 : n \in 0 .. N /\ n + 1 \in 1 .. N /\ n + 1 \in 0 .. N /\ n + 1 \in Nat
                              /\ (n + 1) - 1 = n
    BY <1>1
  <2>2. \A n \in 0 .. N - 1 : g[n] \in S /\ g[n + 1] = F[<<g[n], n>>]
    <3> SUFFICES ASSUME NEW n \in 0 .. N - 1
                 PROVE  g[n] \in S /\ g[n + 1] = F[<<g[n], n>>]
      OBVIOUS
    <3> DEFINE m == n + 1
    <3>1. m \in 1 .. N /\ m - 1 = n /\ n \in 0 .. N
      BY <2>1
    <3> HIDE DEF m
    <3>2. g[m] = F[<<g[m - 1], m - 1>>]
      BY <1>5, <3>1
    <3> QED  BY <3>1, <3>2 DEF m
  <2> HIDE DEF Q
  <2> QED  BY <1>4, <2>1, <2>2
<1>7. \A n \in 0 .. N : g[n].front <= n
  <2> DEFINE T == {n \in Nat : g[n].front <= n}
  <2>1. 0 \in T
    BY <1>1, <1>5
  <2>2. \A n \in 0 .. N - 1 : n \in T => n + 1 \in T
    BY <1>2, <1>6
  <2> HIDE DEF T
  <2>3. \A n \in 0 .. N : n \in T
    BY <1>1, <2>1, <2>2, Upwards
  <2> QED  BY <2>3 DEF T
<1>8. Eq(g)
  <2>1. \A n \in 1 .. N : n - 1 \in 0 .. N - 1 /\ n - 1 \in 0 .. N /\ (n - 1) + 1 = n
    BY <1>1
  <2>2. \A n \in 1 .. N : g[n] = P(g[n - 1], n - 1)
    BY <1>6, <1>7, <2>1
  <2> QED  BY <1>5, <2>2
<1>9. Eq(h)
  <2> HIDE DEF Eq
  <2> QED  BY <1>3, <1>8
<1>10. h[0] = start /\ \A n \in 0 .. N - 1 : h[n + 1] = P(h[n], n)
  BY <1>1, <1>9
<1>11. \A n \in 0 .. N : h[n] \in S /\ h[n].front <= n
  <2> DEFINE T == {n \in Nat : h[n] \in S /\ h[n].front <= n}
  <2>1. 0 \in T
    BY <1>1, <1>10
  <2>2. \A n \in 0 .. N - 1 : n \in T => n + 1 \in T
    BY <1>2, <1>6, <1>10
  <2> HIDE DEF T
  <2>3. \A n \in 0 .. N : n \in T
    BY <1>1, <2>1, <2>2, Upwards
  <2> QED  BY <2>3 DEF T
<1>12. h \in [0 .. N -> S]
  BY <1>9, <1>11
<1>13. LeadIf(slots, used, M, one, append, fs) = h[used]
  BY DEF LeadIf, h, LeadLoop, LeadStart
<1>14. LeadRun(size, slots, used, M, one, append, fs, h)
  BY <1>10, <1>11, <1>12, <1>13 DEF LeadRun, N, S, P, start
<1> QED  BY <1>14 DEF h

(* The slot at p went in front of others, behind some that match.          *)
Opened(slots, size, M, p, new) ==
  \E front \in 0 .. p : /\ \A i \in 0 .. front - 1 : slots[i].hash \in M
                        /\ SameBelow(RotateDown(slots, front, p), new, size)

(* What is known of LeadIf's loop after n passes: where its slots are,     *)
LeadPlaces(slots, size, M, st, n) ==
  /\ st.moved \subseteq 0 .. n - 1
  /\ st.moved # {} => st.front < n
  /\ \A i \in 0 .. size - 1 : (\A p \in st.moved : p < i) => st.slots[i] = slots[i]
  /\ st.moved = {} => /\ SameBelow(slots, st.slots, size)
                      /\ \A i \in 0 .. st.front - 1 : slots[i].hash \in M
  /\ \A p \in st.moved : st.moved = {p} =>
       Opened(slots, size, M, p, st.slots)

(* and what its scopes were told.                                          *)
LeadScopes(fs, st) ==
  /\ Len(st.scopes) = Len(fs)
  /\ \A k \in 1 .. Len(fs) : st.scopes[k].calm = fs[k].calm
  /\ \A k \in 1 .. Len(fs) : k # Len(fs) => st.scopes[k] = fs[k]
  /\ (\A p \in st.moved : fs # <<>> => p < fs[Len(fs)].itr /\ p <= fs[Len(fs)].end) =>
       st.scopes = fs
  /\ \A p \in st.moved : st.moved = {p} => st.scopes = Told(fs, ScopeLead, p)

LEMMA LeadPassPlaces ==
  ASSUME NEW size \in Nat, NEW slots \in Array(size), NEW st \in LeadState(size),
         NEW n \in 0 .. size - 1, NEW M, NEW one \in BOOLEAN, NEW append \in BOOLEAN,
         st.front <= n, LeadPlaces(slots, size, M, st, n)
  PROVE  LeadPlaces(slots, size, M, LeadPass(M, one, append, st, n), n + 1)
<1> DEFINE new == LeadPass(M, one, append, st, n)
<1>1. /\ st.slots \in Array(size) /\ st.moved \in SUBSET Nat /\ n \in Nat
      /\ st.front \in Nat /\ st.front \in 0 .. n
      /\ DOMAIN st.slots = 0 .. size - 1 /\ DOMAIN slots = 0 .. size - 1
  BY DEF LeadState, Array
<1>2. \A p \in st.moved : p < n
  BY <1>1 DEF LeadPlaces
<1>3. st.slots[n] = slots[n]
  BY <1>2 DEF LeadPlaces
<1>4. CASE st.done \/ st.slots[n].hash \notin M
  <2>1. new = st
    BY <1>4 DEF LeadPass
  <2>2. st.moved \subseteq 0 .. n + 1 - 1
    BY <1>1, <1>2
  <2>3. st.moved # {} => st.front < n + 1
    BY <1>1
  <2> HIDE DEF new
  <2> QED  BY <2>1, <2>2, <2>3 DEF LeadPlaces, new
<1>5. CASE ~ st.done /\ st.slots[n].hash \in M
  <2>1. LeadHit(one, append, st, n, new)
    BY <1>5, LeadPassHit
  <2> SUFFICES LeadPlaces(slots, size, M, new, n + 1)
    OBVIOUS
  <2> HIDE DEF new
  <2>2. \A i \in 0 .. size - 1 :
          new.slots[i] = IF i = st.front THEN st.slots[n]
                         ELSE IF i \in st.front + 1 .. n THEN st.slots[i - 1] ELSE st.slots[i]
    BY <1>1, <2>1 DEF LeadHit, RotateDown
  <2>3. \A i \in 0 .. size - 1 : i > n => new.slots[i] = st.slots[i]
    BY <1>1, <2>2
  <2>4. new.front \in Nat /\ new.front <= st.front + 1
    BY <1>1, <2>1 DEF LeadHit
  <2>5. CASE n = st.front
    <3>1. new.moved = st.moved
      BY <2>1, <2>5 DEF LeadHit
    <3>2. st.moved = {}
      BY <1>1, <2>5 DEF LeadPlaces
    <3>3. \A i \in 0 .. size - 1 : new.slots[i] = st.slots[i]
      BY <1>1, <2>2, <2>5
    <3>4. SameBelow(slots, new.slots, size)
      BY <3>2, <3>3 DEF SameBelow, LeadPlaces
    <3>5. \A i \in 0 .. new.front - 1 : slots[i].hash \in M
      <4>1. \A i \in 0 .. new.front - 1 : i \in 0 .. st.front - 1 \/ i = n
        BY <1>1, <2>4, <2>5
      <4> QED  BY <1>3, <1>5, <3>2, <4>1 DEF LeadPlaces
    <3>6. \A i \in 0 .. size - 1 : new.slots[i] = slots[i]
      BY <3>4 DEF SameBelow
    <3> QED  BY <3>1, <3>2, <3>4, <3>5, <3>6 DEF LeadPlaces
  <2>6. CASE n # st.front
    <3>1. new.moved = st.moved \cup {n}
      BY <2>1, <2>6 DEF LeadHit
    <3>2. new.moved \subseteq 0 .. n + 1 - 1 /\ new.moved # {}
      BY <1>1, <1>2, <3>1
    <3>3. new.front < n + 1
      BY <1>1, <2>4, <2>6
    <3>4. ASSUME NEW i \in 0 .. size - 1, \A p \in new.moved : p < i
          PROVE  new.slots[i] = slots[i]
      <4>1. n < i /\ \A p \in st.moved : p < i
        BY <3>1, <3>4
      <4>2. new.slots[i] = st.slots[i]
        BY <2>3, <4>1
      <4>3. st.slots[i] = slots[i]
        BY <4>1 DEF LeadPlaces
      <4> QED  BY <4>2, <4>3
    <3>5. ASSUME NEW p \in new.moved, new.moved = {p}
          PROVE  Opened(slots, size, M, p, new.slots)
      <4>1. p = n /\ st.moved \subseteq {n}
        BY <3>1, <3>5
      <4>2. st.moved = {}
        BY <1>1, <1>2, <4>1
      <4>3. \A i \in 0 .. size - 1 : st.slots[i] = slots[i]
        BY <4>2 DEF LeadPlaces, SameBelow
      <4>4. \A i \in 0 .. size - 1 : new.slots[i] = RotateDown(slots, st.front, n)[i]
        <5>1. \A i \in 0 .. size - 1 : i \in st.front + 1 .. n => i - 1 \in 0 .. size - 1
          BY <1>1
        <5> QED  BY <1>1, <2>2, <4>3, <5>1 DEF RotateDown
      <4>5. \A i \in 0 .. st.front - 1 : slots[i].hash \in M
        BY <4>2 DEF LeadPlaces
      <4>6. SameBelow(RotateDown(slots, st.front, n), new.slots, size)
        BY <4>4 DEF SameBelow
      <4> QED  BY <1>1, <4>1, <4>5, <4>6 DEF Opened
    <3> QED  BY <3>2, <3>3, <3>4, <3>5 DEF LeadPlaces
  <2> QED  BY <2>5, <2>6
<1> QED  BY <1>4, <1>5

LEMMA LeadCalm ==
  ASSUME NEW f \in AScope, NEW p \in Int
  PROVE  ScopeLead(f, p).calm = f.calm
<1> DEFINE next == [f EXCEPT !.itr = @ + 1]
           up   == [f EXCEPT !.itr = @ + 1, !.end = @ + 1]
<1>1. f.end \in Int /\ f.itr \in Int /\ f.stale \in BOOLEAN
      /\ next.calm = f.calm /\ up.calm = f.calm
  BY DEF AScope
<1>2. CASE f.stale
  BY <1>2 DEF ScopeLead
<1>3. CASE ~ f.stale /\ p <= f.end
  <2>1. ScopeLead(f, p) = IF p >= f.itr /\ f.itr # f.end THEN next ELSE f
    BY <1>1, <1>3 DEF ScopeLead
  <2> HIDE DEF next
  <2> QED  BY <1>1, <2>1
<1>4. CASE ~ f.stale /\ p > f.end
  <2>1. ScopeLead(f, p) = up
    BY <1>1, <1>4 DEF ScopeLead
  <2> HIDE DEF up
  <2> QED  BY <1>1, <2>1
<1> QED  BY <1>1, <1>2, <1>3, <1>4

LEMMA LeadPassScopes ==
  ASSUME NEW size \in Nat, NEW st \in LeadState(size), NEW n \in 0 .. size - 1, NEW M,
         NEW one \in BOOLEAN, NEW append \in BOOLEAN,
         NEW fs \in Seq(AScope), LeadScopes(fs, st), \A p \in st.moved : p < n
  PROVE  LeadScopes(fs, LeadPass(M, one, append, st, n))
<1> DEFINE new == LeadPass(M, one, append, st, n)
           top == Len(fs)
<1>1. /\ st.scopes \in Seq(AScope) /\ Len(st.scopes) = top /\ top \in Nat
      /\ DOMAIN fs = 1 .. top /\ DOMAIN st.scopes = 1 .. top
      /\ n \in Int /\ st.moved \in SUBSET Nat
      /\ \A k \in 1 .. top : fs[k] \in AScope
  BY DEF LeadState, LeadScopes
<1>2. CASE ~ st.done /\ st.slots[n].hash \in M /\ n # st.front
  <2>1. new.scopes = Told(st.scopes, ScopeLead, n) /\ new.moved = st.moved \cup {n}
    BY <1>2, LeadPassHit DEF LeadHit
  <2>2. new.scopes \in Seq(AScope) /\ Len(new.scopes) = top
    BY <1>1, <2>1, ToldAreScopes
  <2>3. \A k \in 1 .. top : new.scopes[k] = IF k = top THEN ScopeLead(st.scopes[k], n) ELSE st.scopes[k]
    BY <1>1, <2>1 DEF Told
  <2> SUFFICES LeadScopes(fs, new)
    OBVIOUS
  <2> HIDE DEF new
  <2>4. \A k \in 1 .. top : k # top => new.scopes[k] = fs[k]
    BY <1>1, <2>3 DEF LeadScopes
  <2>a. \A k \in 1 .. top : new.scopes[k].calm = fs[k].calm
    <3>1. \A k \in 1 .. top : st.scopes[k] \in AScope
      BY <1>1
    <3>2. \A k \in 1 .. top : st.scopes[k].calm = fs[k].calm
      BY DEF LeadScopes
    <3> QED  BY ZenonT(40), <1>1, <2>3, <3>1, <3>2, LeadCalm
  <2>5. ASSUME \A p \in new.moved : fs # <<>> => p < fs[top].itr /\ p <= fs[top].end
        PROVE  new.scopes = fs
    <3>1. st.scopes = fs
      BY <2>1, <2>5 DEF LeadScopes
    <3>2. ASSUME top # 0 PROVE ScopeLead(fs[top], n) = fs[top]
      <4>1. n < fs[top].itr /\ n <= fs[top].end
        BY <1>1, <2>1, <2>5, <3>2
      <4>2. fs[top].itr \in Int /\ fs[top].end \in Int /\ fs[top].stale \in BOOLEAN
        <5>1. top \in 1 .. top
          BY <1>1, <3>2
        <5>2. fs[top] \in AScope
          BY <1>1, <5>1
        <5> QED  BY <5>2 DEF AScope
      <4> QED  BY <1>1, <4>1, <4>2 DEF ScopeLead
    <3>3. ASSUME NEW k \in 1 .. top PROVE new.scopes[k] = fs[k]
      <4>1. CASE k = top
        <5>1. new.scopes[k] = ScopeLead(fs[top], n)
          BY <2>3, <3>1, <4>1
        <5>2. ScopeLead(fs[top], n) = fs[top]
          BY <1>1, <3>2, <4>1
        <5> QED  BY <4>1, <5>1, <5>2
      <4>2. CASE k # top
        BY <2>3, <3>1, <4>2
      <4> QED  BY <4>1, <4>2
    <3> QED  BY <1>1, <2>2, <3>3, SeqEqual
  <2>6. ASSUME NEW p \in new.moved, new.moved = {p}
        PROVE  new.scopes = Told(fs, ScopeLead, p)
    <3>1. p = n /\ st.moved \subseteq {n}
      BY <2>1, <2>6
    <3>2. st.moved = {}
      BY <1>1, <3>1
    <3>3. st.scopes = fs
      BY <3>2 DEF LeadScopes
    <3> QED  BY <2>1, <3>1, <3>3
  <2> QED  BY <2>2, <2>4, <2>a, <2>5, <2>6 DEF LeadScopes
<1>3. CASE ~ (~ st.done /\ st.slots[n].hash \in M /\ n # st.front)
  <2>1. new.scopes = st.scopes /\ new.moved = st.moved
    <3>1. CASE ~ st.done /\ st.slots[n].hash \in M
      BY <1>3, <3>1, LeadPassHit DEF LeadHit
    <3>2. CASE ~ (~ st.done /\ st.slots[n].hash \in M)
      BY <3>2 DEF LeadPass
    <3> QED  BY <3>1, <3>2
  <2> SUFFICES LeadScopes(fs, new)
    OBVIOUS
  <2> HIDE DEF new
  <2> QED  BY <2>1 DEF LeadScopes
<1> QED  BY <1>2, <1>3

(* The references are where they were, in another order.                   *)
SameReferences(size, a, b) ==
  /\ \A l : Cardinality(Holding(b, l)) = Cardinality(Holding(a, l))
  /\ \A i \in 0 .. size - 1 : Releasable(b[i])

LEMMA LeadPassReferences ==
  ASSUME NEW size \in Nat, NEW slots \in Array(size), NEW st \in LeadState(size),
         NEW n \in 0 .. size - 1, NEW M, NEW one \in BOOLEAN, NEW append \in BOOLEAN,
         st.front <= n, SameReferences(size, slots, st.slots)
  PROVE  SameReferences(size, slots, LeadPass(M, one, append, st, n).slots)
<1> DEFINE new == LeadPass(M, one, append, st, n)
<1>1. st.slots \in Array(size) /\ st.front \in 0 .. n
  BY DEF LeadState
<1>2. CASE st.done \/ st.slots[n].hash \notin M
  BY <1>2 DEF LeadPass
<1>3. CASE ~ st.done /\ st.slots[n].hash \in M
  <2>1. new.slots = RotateDown(st.slots, st.front, n)
    BY <1>3, LeadPassHit DEF LeadHit
  <2>2. Reordered(size, st.slots, new.slots)
    BY <1>1, <2>1, RotatedDown
  <2> HIDE DEF new
  <2>3. \A l : Cardinality(Holding(new.slots, l)) = Cardinality(Holding(st.slots, l))
    BY <1>1, <2>2, ReorderedCounts
  <2>4. \A i \in 0 .. size - 1 : Releasable(new.slots[i])
    BY <1>1, <2>2, ReorderedSlots DEF SameReferences
  <2> QED  BY <2>3, <2>4 DEF SameReferences, new
<1> QED  BY <1>2, <1>3

(* What LeadIf comes to.                                                   *)
LEMMA LeadDone ==
  ASSUME NEW size \in Nat, NEW slots \in Array(size), NEW used \in 0 .. size, NEW M,
         NEW one \in BOOLEAN, NEW append \in BOOLEAN, NEW fs \in Seq(AScope),
         \A i \in 0 .. size - 1 : Releasable(slots[i]),
         NEW r, r = LeadIf(slots, used, M, one, append, fs)
  PROVE  /\ r \in LeadState(size)
         /\ SameReferences(size, slots, r.slots)
         /\ LeadPlaces(slots, size, M, r, used)
         /\ LeadScopes(fs, r)
<1> DEFINE after == LeadLoop(slots, used, M, one, append, fs)
           start == LeadStart(slots, fs)
           Good(n) == /\ SameReferences(size, slots, after[n].slots)
                      /\ LeadPlaces(slots, size, M, after[n], n)
                      /\ LeadScopes(fs, after[n])
           T == {n \in 0 .. used : Good(n)}
<1>1. /\ after \in [0 .. used -> LeadState(size)]
      /\ after[0] = start
      /\ \A n \in 0 .. used - 1 : after[n + 1] = LeadPass(M, one, append, after[n], n)
      /\ \A n \in 0 .. used : after[n].front <= n
      /\ r = after[used]
  <2>1. LeadRun(size, slots, used, M, one, append, fs, after)
    BY LeadRuns
  <2> HIDE DEF after
  <2> QED  BY <2>1 DEF LeadRun
<1>2. used \in Nat /\ \A n \in 0 .. used - 1 : n \in 0 .. size - 1 /\ n \in 0 .. used /\ n + 1 \in 0 .. used
  OBVIOUS
<1> HIDE DEF after
<1>3. 0 \in T
  <2>1. SameReferences(size, slots, start.slots)
    BY DEF SameReferences, LeadStart
  <2>2. LeadPlaces(slots, size, M, start, 0)
    BY DEF LeadPlaces, LeadStart, SameBelow
  <2>3. LeadScopes(fs, start)
    BY DEF LeadScopes, LeadStart
  <2> HIDE DEF start
  <2> QED  BY <1>1, <1>2, <2>1, <2>2, <2>3
<1>4. ASSUME NEW n \in 0 .. used - 1, n \in T  PROVE n + 1 \in T
  <2>1. /\ after[n] \in LeadState(size) /\ n \in 0 .. size - 1 /\ after[n].front <= n
        /\ after[n + 1] = LeadPass(M, one, append, after[n], n)
    BY <1>1, <1>2
  <2>2. Good(n)
    BY <1>4
  <2>3. \A p \in after[n].moved : p < n
    BY <2>2 DEF LeadPlaces
  <2>4. SameReferences(size, slots, after[n + 1].slots)
    BY <2>1, <2>2, LeadPassReferences
  <2>5. LeadPlaces(slots, size, M, after[n + 1], n + 1)
    BY <2>1, <2>2, LeadPassPlaces
  <2>6. LeadScopes(fs, after[n + 1])
    BY <2>1, <2>2, <2>3, LeadPassScopes
  <2> QED  BY <1>2, <2>4, <2>5, <2>6
<1> HIDE DEF T
<1>5. used \in T
  BY <1>2, <1>3, <1>4, Upwards
<1> QED  BY <1>1, <1>5 DEF T

(* What a scope owes after a move to the front, when it survives it: slots *)
(* it has called were moved,                                               *)
LEMMA OwesLed ==
  ASSUME NEW size \in Nat, NEW slots \in Array(size), NEW used \in 0 .. size,
         NEW M, NEW r, LeadPlaces(slots, size, M, r, used),
         NEW f \in AScope, f.calm, Owes(slots, used, f), \A p \in r.moved : p < f.itr
  PROVE  Owes(r.slots, used, [f EXCEPT !.todo = f.todo])
<1>1. /\ ~ f.stale /\ f.itr \in Nat /\ f.end \in Nat /\ f.itr <= f.end /\ f.end <= used
      /\ f.todo = Left(slots, f.itr, f.end)
  BY DEF AScope, Owes
<1>2. [f EXCEPT !.todo = f.todo] = f
  BY DEF AScope
<1>3. \A i \in f.itr .. size - 1 : i \in 0 .. size - 1 /\ \A p \in r.moved : p < i
  BY <1>1 DEF LeadPlaces
<1>4. \A i \in f.itr .. size - 1 : r.slots[i] = slots[i]
  BY <1>3 DEF LeadPlaces
<1>5. Left(r.slots, f.itr, f.end) = Left(slots, f.itr, f.end)
  <2>1. \A i, e \in Nat : e <= used => \A j \in 1 .. e - i : i + j - 1 \in i .. size - 1
    OBVIOUS
  <2>2. \A j \in 1 .. f.end - f.itr : r.slots[f.itr + j - 1] = slots[f.itr + j - 1]
    BY <1>1, <1>4, <2>1
  <2> QED  BY <2>2 DEF Left
<1> QED  BY <1>1, <1>2, <1>5 DEF Owes

(* or the innermost one made room for a slot from behind its end.          *)
NoneIn(slots, i, e, M) == \A k \in i .. e - 1 : slots[k].hash \notin M

LEMMA TodoUp ==
  ASSUME NEW size \in Nat, NEW slots \in Array(size), NEW new, NEW M,
         NEW i \in Nat, NEW e \in Nat, i <= e,
         NEW p \in 0 .. size - 1, e < p, Opened(slots, size, M, p, new),
         NoneIn(slots, i, e, M)
  PROVE  Left(new, i + 1, e + 1) = Left(slots, i, e)
<1>0. PICK front \in 0 .. p : /\ \A k \in 0 .. front - 1 : slots[k].hash \in M
                              /\ SameBelow(RotateDown(slots, front, p), new, size)
  BY DEF Opened
<1>1. (e + 1) - (i + 1) = e - i
  OBVIOUS
<1>2. ASSUME NEW j \in 1 .. e - i
      PROVE  new[(i + 1) + j - 1] = slots[i + j - 1]
  <2> DEFINE k == i + j - 1
  <2>1. k \in i .. e - 1 /\ k \in Nat /\ (i + 1) + j - 1 = k + 1 /\ k + 1 \in 0 .. size - 1 /\ k + 1 <= p
    OBVIOUS
  <2>2. front <= i
    <3>1. CASE front <= i
      BY <3>1
    <3>2. CASE ~ (front <= i)
      <4>1. i \in 0 .. front - 1 /\ i \in i .. e - 1
        BY <3>2
      <4> QED  BY <1>0, <4>1 DEF NoneIn
    <3> QED  BY <3>1, <3>2
  <2> HIDE DEF k
  <2>3. k + 1 \in front + 1 .. p /\ k + 1 # front
    BY <2>1, <2>2
  <2>4. RotateDown(slots, front, p)[k + 1] = slots[k]
    <3>1. k + 1 \in DOMAIN slots /\ (k + 1) - 1 = k
      BY <2>1 DEF Array
    <3> QED  BY <2>3, <3>1 DEF RotateDown
  <2>5. new[k + 1] = slots[k]
    BY <1>0, <2>1, <2>4 DEF SameBelow
  <2> QED  BY <2>1, <2>5 DEF k
<1> QED  BY <1>1, <1>2 DEF Left

LEMMA OwesPushed ==
  ASSUME NEW size \in Nat, NEW slots \in Array(size), NEW used \in 0 .. size,
         NEW M, NEW r, LeadPlaces(slots, size, M, r, used),
         NEW f \in AScope, f.calm, Owes(slots, used, f),
         NEW p \in r.moved, r.moved = {p}, p > f.end,
         \A j \in DOMAIN f.todo : f.todo[j].hash \notin M
  PROVE  Owes(r.slots, used, [ScopeLead(f, p) EXCEPT !.todo = f.todo])
<1> DEFINE i == f.itr
           e == f.end
           itr == i + 1
           end == e + 1
           todo == f.todo
           g == [ScopeLead(f, p) EXCEPT !.todo = todo]
<1>1. /\ ~ f.stale /\ i \in Nat /\ e \in Nat /\ i <= e /\ e <= used
      /\ f.todo = Left(slots, i, e)
  BY DEF AScope, Owes
<1>2. p \in 0 .. used - 1 /\ p \in 0 .. size - 1 /\ e < p
  BY <1>1 DEF LeadPlaces
<1>3. Opened(slots, size, M, p, r.slots)
  BY DEF LeadPlaces
<1>4. NoneIn(slots, i, e, M)
  <2>1. \A k \in i .. e - 1 : k - i + 1 \in 1 .. e - i /\ i + (k - i + 1) - 1 = k
    BY <1>1
  <2>2. \A j \in 1 .. e - i : slots[i + j - 1].hash \notin M
    <3> HIDE DEF i, e
    <3>1. DOMAIN f.todo = 1 .. e - i /\ \A j \in 1 .. e - i : f.todo[j] = slots[i + j - 1]
      BY <1>1 DEF Left
    <3> QED  BY <3>1
  <2> HIDE DEF i, e
  <2> QED  BY <2>1, <2>2 DEF NoneIn
<1>5. Left(r.slots, itr, end) = Left(slots, i, e)
  <2> HIDE DEF i, e
  <2> QED  BY <1>1, <1>2, <1>3, <1>4, TodoUp
<1>6. g.calm /\ ~ g.stale /\ g.itr = itr /\ g.end = end /\ g.todo = todo
  <2>1. ScopeLead(f, p) = [f EXCEPT !.itr = itr, !.end = end]
    BY <1>1, <1>2 DEF ScopeLead
  <2> HIDE DEF itr, end, todo
  <2> QED  BY <1>1, <2>1 DEF AScope
<1>7. 0 <= itr /\ itr <= end /\ end <= used
  BY <1>1, <1>2
<1> HIDE DEF g, itr, end, i, e
<1>8. Owes(r.slots, used, g)
  BY <1>1, <1>5, <1>6, <1>7 DEF Owes
<1> QED  BY <1>8 DEF g

-----------------------------------------------------------------------------
(* TailIf.                                                                 *)

TailState(size) ==
  [slots : Array(size), scopes : Seq(AScope), moved : SUBSET Nat, back : Int,
   done : BOOLEAN, wild : BOOLEAN]

TailStart(slots, used, fs) ==
  [slots |-> slots, scopes |-> fs, moved |-> {}, back |-> used, done |-> FALSE, wild |-> FALSE]

TailLoop(slots, used, M, one, append, guess, fs) ==
  Loop(LAMBDA st, n : TailPass(M, one, append, guess, st, used - n),
       TailStart(slots, used, fs), used + 1)

(* What is known of the slots and scopes after any pass.                   *)
TailSafe(slots, size, fs, st) ==
  /\ st \in TailState(size)
  /\ SameReferences(size, slots, st.slots)
  /\ Len(st.scopes) = Len(fs)
  /\ st.moved = {} => SameBelow(slots, st.slots, size) /\ st.scopes = fs

LEMMA TailMoved ==
  ASSUME NEW size \in Nat, NEW st \in TailState(size), NEW i \in Nat,
         i <= st.back, st.back <= size
  PROVE  /\ TailMove(st, i) = st.slots \/ Reordered(size, st.slots, TailMove(st, i))
         /\ i = st.back => TailMove(st, i) = st.slots
<1>1. st.slots \in Array(size) /\ st.back \in Int /\ DOMAIN st.slots = 0 .. size - 1
  BY DEF TailState, Array
<1>2. CASE st.back = i
  <2>1. st.back - i = 0
    BY <1>1, <1>2
  <2> QED  BY <2>1 DEF TailMove
<1>3. CASE st.back = i + 1
  <2>1. i \in 0 .. size - 1 /\ 0 \in 0 .. size - 1 /\ st.back - i = 1 /\ i # st.back
    BY <1>1, <1>3
  <2>2. TailMove(st, i) = [st.slots EXCEPT ![i] = st.slots[0], ![0] = st.slots[i]]
    BY <2>1 DEF TailMove
  <2>3. Reordered(size, st.slots, [st.slots EXCEPT ![i] = st.slots[0], ![0] = st.slots[i]])
    BY <1>1, <2>1, Exchanged
  <2> QED  BY <2>1, <2>2, <2>3
<1>4. CASE st.back > i + 1
  <2>1. st.back - i > 1 /\ st.back - i # 0 /\ st.back - i # 1 /\ i # st.back
    BY <1>1, <1>4
  <2>2. CASE st.back \in 0 .. size - 1
    <3>1. TailMove(st, i) = RotateUp(st.slots, i, st.back)
      BY <1>1, <2>1, <2>2 DEF TailMove
    <3>2. i \in 0 .. st.back
      OBVIOUS
    <3>3. Reordered(size, st.slots, RotateUp(st.slots, i, st.back))
      BY <1>1, <2>2, <3>2, RotatedUp
    <3> QED  BY <2>1, <3>1, <3>3
  <2>3. CASE st.back \notin 0 .. size - 1
    <3>1. TailMove(st, i) = st.slots
      BY <1>1, <2>1, <2>3 DEF TailMove
    <3> QED  BY <2>1, <3>1
  <2> QED  BY <2>2, <2>3
<1> QED  BY <1>1, <1>2, <1>3, <1>4

LEMMA TailPassSafe ==
  ASSUME NEW size \in Nat, NEW slots \in Array(size), NEW fs \in Seq(AScope), NEW st,
         TailSafe(slots, size, fs, st), NEW i \in Nat, i <= st.back, st.back <= size,
         NEW M, NEW one \in BOOLEAN, NEW append \in BOOLEAN, NEW guess
  PROVE  LET new == TailPass(M, one, append, guess, st, i)
         IN  TailSafe(slots, size, fs, new) /\ i - 1 <= new.back /\ new.back <= size
<1> DEFINE new == TailPass(M, one, append, guess, st, i)
           hit == IF i \in DOMAIN st.slots THEN st.slots[i].hash \in M ELSE guess
<1>1. /\ st \in TailState(size)
      /\ st.slots \in Array(size) /\ st.scopes \in Seq(AScope) /\ st.moved \in SUBSET Nat
      /\ st.back \in Int /\ st.wild \in BOOLEAN /\ i \in Int
      /\ Len(st.scopes) = Len(fs)
  BY DEF TailSafe, TailState
<1> SUFFICES TailSafe(slots, size, fs, new) /\ i - 1 <= new.back /\ new.back <= size
  BY Zenon
<1>2. CASE st.done \/ ~ hit
  <2>1. new = st
    BY <1>2 DEF TailPass
  <2> HIDE DEF new
  <2> QED  BY <1>1, <2>1
<1>3. CASE ~ (st.done \/ ~ hit)
  <2> DEFINE moved1 == TailMove(st, i)
             fs1    == IF i = st.back THEN st.scopes ELSE Told(st.scopes, ScopeTail, i)
             moved2 == IF i = st.back THEN st.moved ELSE st.moved \cup {i}
             back   == IF append THEN st.back - 1 ELSE st.back
             wild   == st.wild \/ (st.back - i > 1 /\ st.back \notin DOMAIN st.slots)
  <2>1. new = [slots |-> moved1, scopes |-> fs1, moved |-> moved2, back |-> back,
               done |-> one, wild |-> wild]
    BY <1>3 DEF TailPass
  <2>2. /\ moved1 = st.slots \/ Reordered(size, st.slots, moved1)
        /\ i = st.back => moved1 = st.slots
    BY <1>1, TailMoved
  <2>3. fs1 \in Seq(AScope) /\ Len(fs1) = Len(fs) /\ (i = st.back => fs1 = st.scopes)
    BY <1>1, ToldAreScopes
  <2>4. moved2 \in SUBSET Nat /\ (moved2 = {} => i = st.back /\ st.moved = {})
    BY <1>1
  <2>5. back \in Int /\ i - 1 <= back /\ back <= size
    BY <1>1
  <2>6. wild \in BOOLEAN
    BY <1>1
  <2> HIDE DEF new, moved1, fs1, moved2, back, wild
  <2>7. moved1 \in Array(size)
    BY <1>1, <2>2 DEF Reordered
  <2>8. new \in TailState(size)
    BY <2>1, <2>3, <2>4, <2>5, <2>6, <2>7 DEF TailState
  <2>9. SameReferences(size, slots, moved1)
    <3>1. SameReferences(size, slots, st.slots)
      BY DEF TailSafe
    <3>2. CASE moved1 = st.slots
      BY <3>1, <3>2
    <3>3. CASE Reordered(size, st.slots, moved1)
      <4>1. \A l : Cardinality(Holding(moved1, l)) = Cardinality(Holding(st.slots, l))
        BY <1>1, <3>3, ReorderedCounts
      <4>2. \A j \in 0 .. size - 1 : Releasable(moved1[j])
        BY <1>1, <3>1, <3>3, ReorderedSlots DEF SameReferences
      <4> QED  BY <3>1, <4>1, <4>2 DEF SameReferences
    <3> QED  BY <2>2, <3>2, <3>3
  <2>10. new.moved = {} => SameBelow(slots, new.slots, size) /\ new.scopes = fs
    BY <2>1, <2>2, <2>3, <2>4 DEF TailSafe
  <2> QED  BY <2>1, <2>3, <2>5, <2>8, <2>9, <2>10 DEF TailSafe
<1> QED  BY <1>2, <1>3

TailRun(slots, used, M, one, append, guess, fs, size, after) ==
  /\ \A n \in 0 .. used + 1 : /\ TailSafe(slots, size, fs, after[n])
                              /\ used - n <= after[n].back /\ after[n].back <= size
  /\ TailIf(slots, used, M, one, append, guess, fs) = after[used + 1]

LEMMA TailRuns ==
  ASSUME NEW size \in Nat, NEW slots \in Array(size), NEW used \in 0 .. size, NEW M,
         NEW one \in BOOLEAN, NEW append \in BOOLEAN, NEW guess, NEW fs \in Seq(AScope),
         \A i \in 0 .. size - 1 : Releasable(slots[i])
  PROVE  TailRun(slots, used, M, one, append, guess, fs, size,
                 TailLoop(slots, used, M, one, append, guess, fs))
<1> DEFINE N == used + 1
           start == TailStart(slots, used, fs)
           Good(st, n) == TailSafe(slots, size, fs, st) /\ used - n <= st.back /\ st.back <= size
           S == {st \in TailState(size) : TailSafe(slots, size, fs, st) /\ st.back <= size}
           P(st, n) == TailPass(M, one, append, guess, st, used - n)
           Q(st, n) == IF used - n <= st.back THEN P(st, n) ELSE st
           F == [p \in S \X (0 .. N - 1) |-> Q(p[1], p[2])]
           Eq(g) == g = [n \in 0 .. N |-> IF n = 0 THEN start ELSE P(g[n - 1], n - 1)]
           h == TailLoop(slots, used, M, one, append, guess, fs)
<1>1. N \in Nat /\ start \in S /\ Good(start, 0)
  <2>1. start \in TailState(size) /\ start.back = used /\ used \in Int /\ used <= size
        /\ start.slots = slots /\ start.scopes = fs
    BY DEF TailStart, TailState
  <2>2. TailSafe(slots, size, fs, start)
    BY <2>1 DEF TailSafe, SameReferences, SameBelow
  <2> HIDE DEF start
  <2> QED  BY <2>1, <2>2
<1>2. \A st \in S, n \in 0 .. N - 1 : used - n <= st.back => P(st, n) \in S /\ Good(P(st, n), n + 1)
  <2> SUFFICES ASSUME NEW st \in S, NEW n \in 0 .. N - 1, used - n <= st.back
               PROVE  P(st, n) \in S /\ Good(P(st, n), n + 1)
    OBVIOUS
  <2> DEFINE i == used - n
             new == TailPass(M, one, append, guess, st, i)
  <2>1. i \in Nat /\ i <= st.back /\ st.back <= size /\ TailSafe(slots, size, fs, st)
        /\ i - 1 = used - (n + 1)
    OBVIOUS
  <2>2. TailSafe(slots, size, fs, new) /\ i - 1 <= new.back /\ new.back <= size
    <3> HIDE DEF i
    <3> QED  BY <2>1, TailPassSafe
  <2>3. new = P(st, n)
    OBVIOUS
  <2> HIDE DEF new, i, P
  <2> QED  BY <2>1, <2>2, <2>3 DEF TailSafe
<1>3. h = CHOOSE g : Eq(g)
  BY DEF TailLoop, Loop
<1> HIDE DEF P
<1>4. F \in [S \X (0 .. N - 1) -> S] /\ \A st \in S, n \in 0 .. N - 1 : F[<<st, n>>] = Q(st, n)
  BY <1>2
<1>a. \A st \in S : st.back \in Int
  BY DEF TailState
<1>b. \A st, n : Good(st, n) => used - n <= st.back /\ st.back <= size
  OBVIOUS
<1> HIDE DEF F, N, S, start, h, Good
<1>5. PICK g \in [0 .. N -> S] :
        g[0] = start /\ \A n \in 1 .. N : g[n] = F[<<g[n - 1], n - 1>>]
  <2>1. HasRun(N, S, start, F)
    BY <1>1, <1>4, LoopExists
  <2> QED  BY <2>1 DEF HasRun
<1>6. \A n \in 0 .. N - 1 : n \in 0 .. N /\ n + 1 \in 1 .. N /\ n + 1 \in 0 .. N /\ n + 1 \in Nat
                            /\ g[n] \in S /\ g[n + 1] = Q(g[n], n)
  <2>1. \A n \in 0 .. N - 1 : n \in 0 .. N /\ n + 1 \in 1 .. N /\ n + 1 \in 0 .. N /\ n + 1 \in Nat
    BY <1>1
  <2>2. \A n \in 0 .. N - 1 : g[n] \in S /\ g[n + 1] = F[<<g[n], n>>]
    <3> SUFFICES ASSUME NEW n \in 0 .. N - 1
                 PROVE  g[n] \in S /\ g[n + 1] = F[<<g[n], n>>]
      OBVIOUS
    <3> DEFINE m == n + 1
    <3>1. m \in 1 .. N /\ m - 1 = n /\ n \in 0 .. N
      BY <2>1
    <3> HIDE DEF m
    <3>2. g[m] = F[<<g[m - 1], m - 1>>]
      BY <1>5, <3>1
    <3> QED  BY <3>1, <3>2 DEF m
  <2> HIDE DEF Q
  <2> QED  BY <1>4, <2>1, <2>2
<1>7. \A n \in 0 .. N : Good(g[n], n)
  <2> DEFINE T == {n \in Nat : Good(g[n], n)}
  <2>1. 0 \in T
    BY <1>1, <1>5
  <2>2. ASSUME NEW n \in 0 .. N - 1, n \in T PROVE n + 1 \in T
    <3>1. g[n] \in S /\ g[n + 1] = Q(g[n], n) /\ used - n <= g[n].back /\ n + 1 \in Nat
      BY <1>6, <1>b, <2>2
    <3>2. g[n + 1] = P(g[n], n)
      BY <3>1
    <3> QED  BY <1>2, <3>1, <3>2
  <2> HIDE DEF T
  <2>3. \A n \in 0 .. N : n \in T
    BY <1>1, <2>1, <2>2, Upwards
  <2> QED  BY <2>3 DEF T
<1>8. Eq(g)
  <2>1. \A n \in 1 .. N : n - 1 \in 0 .. N - 1 /\ n - 1 \in 0 .. N /\ (n - 1) + 1 = n
    BY <1>1
  <2>2. \A n \in 1 .. N : g[n] = P(g[n - 1], n - 1)
    BY <1>6, <1>7, <1>b, <2>1
  <2> QED  BY <1>5, <2>2
<1>9. Eq(h)
  <2> HIDE DEF Eq
  <2> QED  BY <1>3, <1>8
<1>10. h[0] = start /\ \A n \in 0 .. N - 1 : h[n + 1] = P(h[n], n)
  BY <1>1, <1>9
<1>11. \A n \in 0 .. N : h[n] \in S /\ Good(h[n], n)
  <2> DEFINE T == {n \in Nat : h[n] \in S /\ Good(h[n], n)}
  <2>1. 0 \in T
    BY <1>1, <1>10
  <2>2. ASSUME NEW n \in 0 .. N - 1, n \in T PROVE n + 1 \in T
    BY <1>2, <1>6, <1>10, <1>b, <2>2
  <2> HIDE DEF T
  <2>3. \A n \in 0 .. N : n \in T
    BY <1>1, <2>1, <2>2, Upwards
  <2> QED  BY <2>3 DEF T
<1>12. TailIf(slots, used, M, one, append, guess, fs) = h[used + 1]
  BY DEF TailIf, h, TailLoop, TailStart
<1>13. TailRun(slots, used, M, one, append, guess, fs, size, h)
  BY <1>11, <1>12 DEF TailRun, N, Good
<1> QED  BY <1>13 DEF h

(* What TailIf comes to.                                                   *)
LEMMA TailDone ==
  ASSUME NEW size \in Nat, NEW slots \in Array(size), NEW used \in 0 .. size, NEW M,
         NEW one \in BOOLEAN, NEW append \in BOOLEAN, NEW guess, NEW fs \in Seq(AScope),
         \A i \in 0 .. size - 1 : Releasable(slots[i])
  PROVE  TailSafe(slots, size, fs, TailIf(slots, used, M, one, append, guess, fs))
<1> DEFINE after == TailLoop(slots, used, M, one, append, guess, fs)
<1>1. TailRun(slots, used, M, one, append, guess, fs, size, after)
  BY TailRuns
<1>2. used + 1 \in 0 .. used + 1
  OBVIOUS
<1> HIDE DEF after
<1> QED  BY <1>1, <1>2 DEF TailRun

-----------------------------------------------------------------------------
(* The parts of a sound signal.                                            *)
Parts(slots, used, size, count, fs) ==
  /\ size \in Nat \ {0}
  /\ slots \in Array(size)
  /\ used \in 0 .. size
  /\ count \in [Listeners -> Int]
  /\ fs \in Seq(AScope)
  /\ Counted(slots, count)
  /\ \A i \in 0 .. size - 1 : Releasable(slots[i])
  /\ \A k \in 1 .. Len(fs) : Owes(slots, used, fs[k])

LEMMA PartsOf ==
  ASSUME NEW st, Sound(st)
  PROVE  Parts(st.slots, st.used, st.size, st.refs, st.scopes)
BY DEF Sound, Signals, Parts

LEMMA OfParts ==
  ASSUME NEW slots, NEW used, NEW size, NEW count, NEW fs, Parts(slots, used, size, count, fs)
  PROVE  Sound([slots |-> slots, used |-> used, size |-> size, refs |-> count, scopes |-> fs])
BY DEF Sound, Signals, Parts

(* Another order of the slots, and scopes that are settled.                *)
LEMMA Resettled ==
  ASSUME NEW slots, NEW used, NEW size, NEW count, NEW fs, Parts(slots, used, size, count, fs),
         NEW new \in Array(size), SameReferences(size, slots, new),
         NEW told \in Seq(AScope),
         \A k \in 1 .. Len(told) : Owes(new, used, told[k])
  PROVE  Parts(new, used, size, count, told)
BY DEF Parts, Counted, SameReferences

(* What a move to the front leaves is sound: the scopes of which survives  *)
(* says so may be ones that survive it, the others are given up.           *)
MaySurvive(r, fs, M, survives) ==
  \A k \in 1 .. Len(fs) : survives[k] =>
    \/ \A p \in r.moved : p < fs[k].itr
    \/ /\ k = Len(fs)
       /\ \E p \in r.moved : p > fs[k].end /\ r.moved = {p}
       /\ \A j \in DOMAIN fs[k].todo : fs[k].todo[j].hash \notin M

Settled(r, fs, survives) ==
  [k \in 1 .. Len(fs) |-> Settle(r.scopes[k], survives[k], fs[k].todo)]

LEMMA LeadSound ==
  ASSUME NEW slots, NEW used, NEW size, NEW count, NEW fs, Parts(slots, used, size, count, fs),
         NEW M, NEW one \in BOOLEAN, NEW append \in BOOLEAN,
         NEW r, r = LeadIf(slots, used, M, one, append, fs),
         NEW survives, MaySurvive(r, fs, M, survives)
  PROVE  Parts(r.slots, used, size, count, Settled(r, fs, survives))
<1> DEFINE told == Settled(r, fs, survives)
           top  == Len(fs)
<1>0. \A k \in 1 .. top : survives[k] =>
        \/ \A p \in r.moved : p < fs[k].itr
        \/ /\ k = top
           /\ \E p \in r.moved : p > fs[k].end /\ r.moved = {p}
           /\ \A j \in DOMAIN fs[k].todo : fs[k].todo[j].hash \notin M
  BY DEF MaySurvive
<1>1. /\ size \in Nat /\ slots \in Array(size) /\ used \in 0 .. size /\ fs \in Seq(AScope)
      /\ \A i \in 0 .. size - 1 : Releasable(slots[i])
      /\ \A k \in 1 .. top : Owes(slots, used, fs[k])
      /\ top \in Nat /\ DOMAIN fs = 1 .. top
  BY DEF Parts
<1>2. /\ r \in LeadState(size)
      /\ SameReferences(size, slots, r.slots)
      /\ LeadPlaces(slots, size, M, r, used)
      /\ LeadScopes(fs, r)
  BY <1>1, LeadDone
<1>3. r.slots \in Array(size) /\ r.scopes \in Seq(AScope) /\ Len(r.scopes) = top
      /\ r.moved \in SUBSET Nat
  BY <1>2 DEF LeadState, LeadScopes
<1>4. \A k \in 1 .. top : r.scopes[k] \in AScope /\ fs[k] \in AScope /\ fs[k].todo \in Seq(Slot)
  <2>1. \A k \in 1 .. top : r.scopes[k] \in AScope /\ fs[k] \in AScope
    BY <1>1, <1>3
  <2> QED  BY <2>1 DEF AScope
<1>5. ASSUME NEW k \in 1 .. top
      PROVE  told[k] \in AScope /\ Owes(r.slots, used, told[k])
  <2> DEFINE f == fs[k]
             g == r.scopes[k]
  <2>0. told[k] = Settle(g, survives[k], f.todo)
    BY DEF Settled
  <2> HIDE DEF told
  <2>1. /\ told[k] \in AScope /\ (told[k].calm <=> g.calm /\ survives[k])
        /\ g.calm /\ survives[k] => told[k] = [g EXCEPT !.todo = f.todo]
    BY <1>4, <2>0, SettledScope
  <2>2. f \in AScope /\ Owes(slots, used, f) /\ f.itr \in Int /\ f.end \in Int
    BY <1>1, <1>4 DEF AScope
  <2>3. ASSUME told[k].calm  PROVE Owes(r.slots, used, told[k])
    <3>1. g.calm /\ survives[k] /\ told[k] = [g EXCEPT !.todo = f.todo]
      BY <2>1, <2>3
    <3>2. CASE \A p \in r.moved : p < f.itr
      <4>1. g = f
        <5>1. CASE k # top
          BY <1>1, <1>2, <5>1 DEF LeadScopes
        <5>2. CASE k = top
          <6>1. ASSUME f.calm PROVE r.scopes = fs
            <7>1. f.itr <= f.end
              BY <2>2, <6>1 DEF Owes
            <7>2. \A p \in r.moved : p < f.itr /\ p <= f.end
              BY <1>3, <2>2, <3>2, <7>1
            <7> QED  BY <1>2, <5>2, <7>2 DEF LeadScopes
          <6>2. f.calm
            BY <1>1, <1>2, <3>1 DEF LeadScopes
          <6> QED  BY <6>1, <6>2
        <5> QED  BY <5>1, <5>2
      <4>2. f.calm /\ told[k] = [f EXCEPT !.todo = f.todo]
        BY <3>1, <4>1
      <4> HIDE DEF f
      <4>3. Owes(r.slots, used, [f EXCEPT !.todo = f.todo])
        BY <1>1, <1>2, <2>2, <3>2, <4>2, OwesLed
      <4> QED  BY <4>2, <4>3
    <3>3. ASSUME k = top, NEW p \in r.moved, p > f.end, r.moved = {p},
                 \A j \in DOMAIN f.todo : f.todo[j].hash \notin M
          PROVE  Owes(r.slots, used, told[k])
      <4>1. r.scopes = Told(fs, ScopeLead, p)
        BY <1>2, <3>3 DEF LeadScopes
      <4>2. g = ScopeLead(f, p)
        BY <1>1, <3>3, <4>1 DEF Told
      <4>3. f.calm
        BY <1>1, <1>2, <3>1 DEF LeadScopes
      <4> HIDE DEF f
      <4>4. Owes(r.slots, used, [ScopeLead(f, p) EXCEPT !.todo = f.todo])
        BY <1>1, <1>2, <2>2, <3>3, <4>3, OwesPushed
      <4> QED  BY <3>1, <4>2, <4>4
    <3> QED  BY <1>0, <3>1, <3>2, <3>3
  <2>4. ASSUME ~ told[k].calm  PROVE Owes(r.slots, used, told[k])
    BY <2>4 DEF Owes
  <2> QED  BY <2>1, <2>3, <2>4
<1>6. told \in Seq(AScope) /\ Len(told) = top
  <2>1. told = [k \in 1 .. top |-> told[k]]
    BY DEF Settled
  <2> HIDE DEF told
  <2>2. told \in [1 .. top -> AScope]
    BY <1>5, <2>1
  <2> QED  BY <1>1, <2>2
<1> HIDE DEF told
<1>7. Parts(r.slots, used, size, count, told)
  BY <1>2, <1>3, <1>5, <1>6, Resettled
<1> QED  BY <1>7 DEF told

(* What a move to the back leaves is sound.                                *)
LEMMA TailSound ==
  ASSUME NEW slots, NEW used, NEW size, NEW count, NEW fs, Parts(slots, used, size, count, fs),
         NEW M, NEW one \in BOOLEAN, NEW append \in BOOLEAN, NEW guess,
         NEW r, r = TailIf(slots, used, M, one, append, guess, fs)
  PROVE  /\ Parts(r.slots, used, size, count,
                  [k \in DOMAIN fs |-> Settle(r.scopes[k], r.moved = {}, fs[k].todo)])
         /\ r.wild \in BOOLEAN
<1> DEFINE told == [k \in DOMAIN fs |-> Settle(r.scopes[k], r.moved = {}, fs[k].todo)]
           top  == Len(fs)
<1>1. /\ size \in Nat /\ slots \in Array(size) /\ used \in 0 .. size /\ fs \in Seq(AScope)
      /\ \A i \in 0 .. size - 1 : Releasable(slots[i])
      /\ \A k \in 1 .. top : Owes(slots, used, fs[k])
      /\ top \in Nat /\ DOMAIN fs = 1 .. top
  BY DEF Parts
<1>2. TailSafe(slots, size, fs, r)
  BY <1>1, TailDone
<1>3. /\ r.slots \in Array(size) /\ r.scopes \in Seq(AScope) /\ Len(r.scopes) = top
      /\ SameReferences(size, slots, r.slots) /\ r.wild \in BOOLEAN
      /\ r.moved = {} => SameBelow(slots, r.slots, size) /\ r.scopes = fs
  BY <1>2 DEF TailSafe, TailState
<1>4. ASSUME NEW k \in 1 .. top
      PROVE  told[k] \in AScope /\ Owes(r.slots, used, told[k])
  <2> DEFINE f == fs[k]
             g == r.scopes[k]
             survives == r.moved = {}
  <2>1. told[k] = Settle(g, survives, f.todo)
    BY <1>1
  <2>2. f \in AScope /\ g \in AScope /\ f.todo \in Seq(Slot) /\ Owes(slots, used, f)
    <3>1. f \in AScope /\ g \in AScope
      BY <1>1, <1>3
    <3> QED  BY <1>1, <3>1 DEF AScope
  <2> HIDE DEF told, f, g, survives
  <2>3. /\ told[k] \in AScope /\ (told[k].calm <=> g.calm /\ survives)
        /\ g.calm /\ survives => told[k] = [g EXCEPT !.todo = f.todo]
    BY <2>1, <2>2, SettledScope
  <2>4. ASSUME told[k].calm  PROVE Owes(r.slots, used, told[k])
    <3>1. g = f /\ SameBelow(slots, r.slots, size)
      BY <1>3, <2>3, <2>4 DEF survives, f, g
    <3>2. told[k] = [f EXCEPT !.todo = f.todo]
      BY <2>3, <2>4, <3>1
    <3>3. told[k] = f
      BY <2>2, <3>2 DEF AScope
    <3>4. SameBelow(slots, r.slots, used) /\ used \in Nat /\ used <= used
      BY <1>1, <3>1 DEF SameBelow
    <3>5. Owes(r.slots, used, f)
      BY <2>2, <3>4, OwesSame
    <3> QED  BY <3>3, <3>5
  <2>5. ASSUME ~ told[k].calm  PROVE Owes(r.slots, used, told[k])
    BY <2>5 DEF Owes
  <2> QED  BY <2>3, <2>4, <2>5
<1>5. told \in Seq(AScope) /\ Len(told) = top
  <2>1. told = [k \in 1 .. top |-> told[k]]
    BY <1>1
  <2> HIDE DEF told
  <2>2. told \in [1 .. top -> AScope]
    BY <1>4, <2>1
  <2> QED  BY <1>1, <2>2
<1> HIDE DEF told
<1>6. Parts(r.slots, used, size, count, told)
  BY <1>3, <1>4, <1>5, Resettled
<1> QED  BY <1>3, <1>6 DEF told

(* The slots in use are emptied, and what they held is given back.         *)
Cleared(slots, used) == [i \in DOMAIN slots |-> IF i < used THEN Empty ELSE slots[i]]

LEMMA ClearedCounts ==
  ASSUME NEW size \in Nat, NEW slots \in Array(size), NEW used \in 0 .. size,
         NEW count \in [Listeners -> Int], Counted(slots, count),
         \A i \in 0 .. size - 1 : Releasable(slots[i])
  PROVE  /\ Cleared(slots, used) \in Array(size)
         /\ AfterReleases(count, slots, 0 .. used - 1) \in [Listeners -> Int]
         /\ Counted(Cleared(slots, used), AfterReleases(count, slots, 0 .. used - 1))
         /\ \A i \in 0 .. size - 1 : Releasable(Cleared(slots, used)[i])
<1> DEFINE new == Cleared(slots, used)
           I == 0 .. used - 1
           Gone(l) == {i \in I : slots[i].hash # Null /\ slots[i].ref = l}
<1>1. DOMAIN slots = 0 .. size - 1 /\ \A i \in 0 .. size - 1 : slots[i] \in Slot
  BY DEF Array
<1>2. Empty \in Slot /\ Empty.ref = Null /\ Releasable(Empty)
  BY DEF Empty, Slot, Hashes, Releasable
<1>3. DOMAIN new = 0 .. size - 1
      /\ \A i \in 0 .. size - 1 : new[i] = IF i < used THEN Empty ELSE slots[i]
  BY <1>1 DEF Cleared
<1>4. new \in Array(size)
  BY <1>1, <1>2 DEF Cleared, Array
<1> HIDE DEF new
<1>5. \A i \in 0 .. size - 1 : Releasable(new[i])
  BY <1>2, <1>3
<1>6. ASSUME NEW l \in Listeners
      PROVE  /\ Cardinality(Gone(l)) \in Nat
             /\ count[l] - Cardinality(Gone(l)) = Cardinality(Holding(new, l))
  <2> DEFINE H == Holding(slots, l)
             K == Holding(new, l)
             G == Gone(l)
  <2>1. l # Null
    BY SignalAssumption
  <2>2. G = {i \in I : slots[i].ref = l}
    <3>1. \A i \in I : i \in 0 .. size - 1
      OBVIOUS
    <3> HIDE DEF I
    <3> QED  BY <2>1, <3>1 DEF Releasable
  <2>3. H = G \cup K /\ G \cap K = {}
    <3>1. \A i : i \in H <=> i \in 0 .. size - 1 /\ slots[i].ref = l
      BY <1>1 DEF Holding
    <3>2. \A i : i \in K <=> i \in 0 .. size - 1 /\ ~ (i < used) /\ slots[i].ref = l
      BY <1>2, <1>3, <2>1 DEF Holding
    <3>3. \A i : i \in G <=> i \in 0 .. size - 1 /\ i < used /\ slots[i].ref = l
      BY <2>2
    <3> HIDE DEF H, K, G
    <3> QED  BY <3>1, <3>2, <3>3
  <2>4. IsFiniteSet(H) /\ IsFiniteSet(K) /\ Cardinality(K) \in Nat
    BY <1>4, HoldingFinite
  <2> HIDE DEF H, K, G
  <2>5. IsFiniteSet(G)
    BY <2>3, <2>4, FS_Subset
  <2>6. Cardinality(G) \in Nat
    BY <2>5, FS_CardinalityType
  <2>7. Cardinality(G \cup K) = Cardinality(G) + Cardinality(K) - Cardinality(G \cap K)
    BY <2>4, <2>5, FS_Union
  <2>8. Cardinality(H) = Cardinality(G) + Cardinality(K)
    <3>1. Cardinality(H) = Cardinality(G \cup K) /\ Cardinality(G \cap K) = Cardinality({})
      BY <2>3, Zenon
    <3>2. Cardinality({}) = 0
      BY FS_EmptySet
    <3> QED  BY <2>4, <2>6, <2>7, <3>1, <3>2
  <2>9. count[l] = Cardinality(H)
    BY DEF Counted, H
  <2> QED  BY <2>4, <2>6, <2>8, <2>9 DEF G, K
<1>7. \A l \in Listeners : AfterReleases(count, slots, I)[l] = count[l] - Cardinality(Gone(l))
  BY DEF AfterReleases
<1>8. AfterReleases(count, slots, I) \in [Listeners -> Int]
  <2>1. \A l \in Listeners : count[l] - Cardinality(Gone(l)) \in Int
    BY <1>6
  <2> QED  BY <2>1 DEF AfterReleases
<1> HIDE DEF I, Gone
<1>9. Counted(new, AfterReleases(count, slots, I))
  BY <1>6, <1>7 DEF Counted
<1> QED  BY <1>4, <1>5, <1>8, <1>9 DEF new, I

LEMMA LeftNone ==
  ASSUME NEW slots, NEW e \in Int
  PROVE  Left(slots, e, e) = <<>>
<1>1. e - e = 0
  OBVIOUS
<1> QED  BY <1>1 DEF Left

(* The scopes that have no slot left to call.                              *)
LEMMA ClearedScope ==
  ASSUME NEW slots, NEW new, NEW used \in Nat, NEW f \in AScope, Owes(slots, used, f)
  PROVE  /\ Settle(Finish(f), TRUE, <<>>) \in AScope
         /\ Owes(new, used, Settle(Finish(f), TRUE, <<>>))
         /\ Settle(f, f.itr = f.end, <<>>) \in AScope
         /\ Owes(new, used, Settle(f, f.itr = f.end, <<>>))
<1> DEFINE none == <<>>
           all  == f.itr = f.end
           g == Finish(f)
           a == Settle(g, TRUE, none)
           b == Settle(f, all, none)
<1>1. f.itr \in Int /\ f.end \in Int /\ none \in Seq(Slot)
  BY DEF AScope
<1>2. g \in AScope /\ g.itr = f.end /\ g.end = f.end /\ g.calm = f.calm /\ g.stale = f.stale
  BY <1>1 DEF Finish, AScope
<1>3. f.calm => ~ f.stale /\ 0 <= f.end /\ f.end <= f.end /\ f.end <= used
  BY <1>1 DEF Owes
<1>4. \A x \in AScope : [x EXCEPT !.todo = none].itr = x.itr /\ [x EXCEPT !.todo = none].end = x.end
                        /\ [x EXCEPT !.todo = none].stale = x.stale /\ [x EXCEPT !.todo = none].todo = none
  BY DEF AScope
<1>5. Left(new, f.end, f.end) = none
  BY <1>1, LeftNone
<1> HIDE DEF none, g, all
<1>6. a \in AScope /\ Owes(new, used, a)
  <2>1. a \in AScope /\ (a.calm => g.calm /\ a = [g EXCEPT !.todo = none])
    BY <1>1, <1>2, SettledScope
  <2> HIDE DEF a
  <2>2. a.calm => f.calm /\ ~ a.stale /\ a.itr = f.end /\ a.end = f.end /\ a.todo = none
    BY <1>2, <1>3, <1>4, <2>1
  <2> QED  BY <1>3, <1>5, <2>1, <2>2 DEF Owes
<1>7. b \in AScope /\ Owes(new, used, b)
  <2>1. b \in AScope /\ (b.calm => f.calm /\ all /\ b = [f EXCEPT !.todo = none])
    BY <1>1, SettledScope
  <2> HIDE DEF b
  <2>2. b.calm => f.calm /\ ~ b.stale /\ b.itr = f.end /\ b.end = f.end /\ b.todo = none
    BY <1>3, <1>4, <2>1 DEF all
  <2> QED  BY <1>3, <1>5, <2>1, <2>2 DEF Owes
<1> QED  BY <1>6, <1>7 DEF none, g, all

-----------------------------------------------------------------------------
(* The inductive invariant.                                                *)
SlotsInv ==
  /\ Parts(m_Slots, m_Used, m_Size, refs, scopes)
  /\ calling \in BOOLEAN
  /\ undefined \in BOOLEAN

LEMMA InitSlots == Init => SlotsInv
<1> SUFFICES ASSUME Init PROVE SlotsInv
  OBVIOUS
<1>1. SmbSize \in Nat \ {0}
  BY SignalAssumption
<1>2. Empty \in Slot /\ Releasable(Empty) /\ \A l \in Listeners : Empty.ref # l
  BY SignalAssumption DEF Empty, Slot, Hashes, Releasable
<1>3. m_Slots \in Array(m_Size) /\ \A i \in 0 .. m_Size - 1 : m_Slots[i] = Empty
  BY <1>1, <1>2 DEF Init, Array
<1>4. Counted(m_Slots, refs)
  <2> SUFFICES ASSUME NEW l \in Listeners PROVE refs[l] = Cardinality(Holding(m_Slots, l))
    BY DEF Counted
  <2>1. Holding(m_Slots, l) = {}
    BY <1>2, <1>3 DEF Holding, Array
  <2>2. Cardinality({}) = 0
    BY FS_EmptySet
  <2> QED  BY <2>1, <2>2 DEF Init
<1> QED  BY <1>1, <1>2, <1>3, <1>4 DEF Init, SlotsInv, Parts

(* The operations, on the signal as it is now.                             *)
LEMMA NowSound ==
  ASSUME SlotsInv
  PROVE  Sound(Now)
BY OfParts DEF SlotsInv, Now

LEMMA BecomesSound ==
  ASSUME NEW st, Sound(st), Becomes(st), UNCHANGED <<calling, undefined>>, SlotsInv
  PROVE  SlotsInv'
<1>1. Parts(st.slots, st.used, st.size, st.refs, st.scopes)
  BY PartsOf
<1> QED  BY <1>1 DEF Becomes, SlotsInv

LEMMA ConnectStep ==
  ASSUME SlotsInv, NEW l \in Listeners, Connect(l)
  PROVE  SlotsInv'
<1>1. Sound(Connected(Now, l))
  BY NowSound, ConnectedSound
<1> QED  BY <1>1, BecomesSound DEF Connect

LEMMA EliminateStep ==
  ASSUME SlotsInv, NEW M \in Matchers, Eliminate(M)
  PROVE  SlotsInv'
<1>1. M \in SUBSET Listeners
  BY SignalAssumption
<1>2. Sound(Eliminated(Now, M))
  BY <1>1, NowSound, EliminatedSound
<1> QED  BY <1>2, BecomesSound DEF Eliminate

LEMMA ConnectOnceStep ==
  ASSUME SlotsInv, NEW l \in Listeners, ConnectOnce(l)
  PROVE  SlotsInv'
<1>1. {l} \in SUBSET Listeners
  OBVIOUS
<1>2. Sound(Eliminated(Now, {l}))
  BY <1>1, NowSound, EliminatedSound
<1>3. Sound(Connected(Eliminated(Now, {l}), l))
  BY <1>2, ConnectedSound
<1> QED  BY <1>3, BecomesSound DEF ConnectOnce

LEMMA LeadStep ==
  ASSUME SlotsInv, NEW M \in Matchers, NEW one \in BOOLEAN, NEW append \in BOOLEAN,
         Lead(M, one, append)
  PROVE  SlotsInv'
<1> DEFINE r   == LeadIf(m_Slots, m_Used, M, one, append, scopes)
           top == Len(scopes)
           Survives(k) ==
             LET f == scopes[k]
             IN  \/ \A p \in r.moved : p < f.itr
                 \/ /\ k = top
                    /\ \E p \in r.moved : p > f.end /\ r.moved = {p}
                    /\ \A j \in DOMAIN f.todo : f.todo[j].hash \notin M
           survives == [k \in 1 .. top |-> Survives(k)]
<1>1. /\ m_Slots' = r.slots
      /\ scopes' = [k \in 1 .. top |-> Settle(r.scopes[k], Survives(k), scopes[k].todo)]
      /\ UNCHANGED <<m_Used, m_Size, refs, calling, undefined>>
  BY DEF Lead
<1>2. scopes' = Settled(r, scopes, survives)
  <2>1. \A k \in 1 .. top : survives[k] = Survives(k)
    OBVIOUS
  <2> HIDE DEF survives, Survives, r
  <2> QED  BY <1>1, <2>1 DEF Settled
<1>3. MaySurvive(r, scopes, M, survives)
  <2> HIDE DEF r
  <2> QED  BY DEF MaySurvive
<1>4. Parts(m_Slots, m_Used, m_Size, refs, scopes)
  BY DEF SlotsInv
<1>5. r = LeadIf(m_Slots, m_Used, M, one, append, scopes)
  OBVIOUS
<1> HIDE DEF r, survives
<1>6. Parts(r.slots, m_Used, m_Size, refs, Settled(r, scopes, survives))
  BY <1>3, <1>4, <1>5, LeadSound
<1> QED  BY <1>1, <1>2, <1>6 DEF SlotsInv

LEMMA TailStep ==
  ASSUME SlotsInv, NEW M \in Matchers, NEW one \in BOOLEAN, NEW append \in BOOLEAN,
         NEW guess \in BOOLEAN, Tailing(M, one, append, guess)
  PROVE  SlotsInv'
<1> DEFINE r == TailIf(m_Slots, m_Used, M, one, append, guess, scopes)
<1>1. /\ m_Slots' = r.slots
      /\ scopes' = [k \in DOMAIN scopes |-> Settle(r.scopes[k], r.moved = {}, scopes[k].todo)]
      /\ undefined' = r.wild
      /\ UNCHANGED <<m_Used, m_Size, refs, calling>>
  BY DEF Tailing
<1>2. Parts(m_Slots, m_Used, m_Size, refs, scopes)
  BY DEF SlotsInv
<1>3. /\ Parts(r.slots, m_Used, m_Size, refs,
               [k \in DOMAIN scopes |-> Settle(r.scopes[k], r.moved = {}, scopes[k].todo)])
      /\ r.wild \in BOOLEAN
  BY <1>2, TailSound
<1> HIDE DEF r
<1> QED  BY <1>1, <1>3 DEF SlotsInv

LEMMA ClearStep ==
  ASSUME SlotsInv, ClearSlots
  PROVE  SlotsInv'
<1> DEFINE top  == Len(scopes)
           new  == Cleared(m_Slots, m_Used)
           gone == AfterReleases(refs, m_Slots, 0 .. m_Used - 1)
<1>1. /\ m_Size \in Nat \ {0} /\ m_Size \in Nat /\ m_Slots \in Array(m_Size)
      /\ m_Used \in 0 .. m_Size /\ m_Used \in Nat
      /\ refs \in [Listeners -> Int] /\ scopes \in Seq(AScope)
      /\ Counted(m_Slots, refs)
      /\ \A i \in 0 .. m_Size - 1 : Releasable(m_Slots[i])
      /\ \A k \in 1 .. top : Owes(m_Slots, m_Used, scopes[k])
      /\ top \in Nat /\ DOMAIN scopes = 1 .. top /\ \A k \in 1 .. top : scopes[k] \in AScope
  BY DEF SlotsInv, Parts
<1>2. /\ m_Slots' = new /\ refs' = gone
      /\ scopes' = [k \in 1 .. top |->
                      IF k = top THEN Settle(Finish(scopes[k]), TRUE, <<>>)
                      ELSE Settle(scopes[k], scopes[k].itr = scopes[k].end, <<>>)]
      /\ UNCHANGED <<m_Used, m_Size, calling, undefined>>
  BY <1>1 DEF ClearSlots, Cleared
<1>3. /\ new \in Array(m_Size) /\ gone \in [Listeners -> Int] /\ Counted(new, gone)
      /\ \A i \in 0 .. m_Size - 1 : Releasable(new[i])
  BY <1>1, ClearedCounts
<1> HIDE DEF new, gone
<1>4. \A k \in 1 .. top : scopes'[k] \in AScope /\ Owes(new, m_Used, scopes'[k])
  <2> SUFFICES ASSUME NEW k \in 1 .. top
               PROVE  scopes'[k] \in AScope /\ Owes(new, m_Used, scopes'[k])
    OBVIOUS
  <2>1. /\ Settle(Finish(scopes[k]), TRUE, <<>>) \in AScope
        /\ Owes(new, m_Used, Settle(Finish(scopes[k]), TRUE, <<>>))
        /\ Settle(scopes[k], scopes[k].itr = scopes[k].end, <<>>) \in AScope
        /\ Owes(new, m_Used, Settle(scopes[k], scopes[k].itr = scopes[k].end, <<>>))
    BY <1>1, ClearedScope
  <2> QED  BY <1>2, <2>1
<1>5. scopes' \in Seq(AScope) /\ Len(scopes') = top
  <2>1. scopes' = [k \in 1 .. top |-> scopes'[k]]
    BY <1>2
  <2>2. scopes' \in [1 .. top -> AScope]
    BY <1>4, <2>1
  <2> QED  BY <1>1, <2>2
<1> QED  BY <1>1, <1>2, <1>3, <1>4, <1>5 DEF SlotsInv, Parts

(* The innermost scope goes.                                               *)
LEMMA LeaveStep ==
  ASSUME SlotsInv, LeaveScope
  PROVE  SlotsInv'
<1>1. /\ scopes \in Seq(AScope)
      /\ \A k \in 1 .. Len(scopes) : Owes(m_Slots, m_Used, scopes[k])
      /\ Len(scopes) \in Nat
  BY DEF SlotsInv, Parts
<1> DEFINE fs == SubSeq(scopes, 1, Len(scopes) - 1)
<1>2. fs \in Seq(AScope) /\ \A k \in 1 .. Len(fs) : k \in 1 .. Len(scopes) /\ fs[k] = scopes[k]
  <2>1. CASE Len(scopes) = 0
    <3>1. fs = <<>>
      BY <1>1, <2>1
    <3> QED  BY <3>1
  <2>2. CASE Len(scopes) # 0
    <3>1. Len(scopes) - 1 \in 0 .. Len(scopes)
      BY <1>1, <2>2
    <3> QED  BY <1>1, <3>1
  <2> QED  BY <2>1, <2>2
<1>3. scopes' = fs /\ calling' \in BOOLEAN /\ UNCHANGED <<m_Slots, m_Used, m_Size, refs, undefined>>
  BY DEF LeaveScope, Front
<1> HIDE DEF fs
<1> QED  BY <1>1, <1>2, <1>3 DEF SlotsInv, Parts

LEMMA EmitStep ==
  ASSUME SlotsInv, Emit
  PROVE  SlotsInv'
<1> DEFINE todo == [i \in 1 .. m_Used |-> m_Slots[i - 1]]
           f    == [itr |-> 0, end |-> m_Used, stale |-> FALSE, calm |-> TRUE, todo |-> todo]
<1>1. /\ m_Size \in Nat /\ m_Slots \in Array(m_Size) /\ m_Used \in 0 .. m_Size /\ m_Used \in Nat
      /\ scopes \in Seq(AScope) /\ Len(scopes) \in Nat
      /\ \A k \in 1 .. Len(scopes) : Owes(m_Slots, m_Used, scopes[k])
  BY DEF SlotsInv, Parts
<1>2. /\ scopes' = Append(scopes, f) /\ calling' = FALSE
      /\ UNCHANGED <<m_Slots, m_Used, m_Size, refs, undefined>>
  BY DEF Emit, ScopeOf
<1>3. todo \in Seq(Slot) /\ todo = Left(m_Slots, 0, m_Used)
  <2>1. \A i \in 1 .. m_Used : i - 1 \in 0 .. m_Size - 1 /\ 0 + i - 1 = i - 1
    BY <1>1
  <2>2. todo \in [1 .. m_Used -> Slot]
    BY <1>1, <2>1 DEF Array
  <2>3. m_Used - 0 = m_Used
    BY <1>1
  <2>4. todo = Left(m_Slots, 0, m_Used)
    BY <2>1, <2>3 DEF Left
  <2> QED  BY <1>1, <2>2, <2>4
<1> HIDE DEF todo
<1>4. f \in AScope /\ Owes(m_Slots, m_Used, f)
  BY <1>1, <1>3 DEF AScope, Owes
<1> HIDE DEF f
<1>5. scopes' \in Seq(AScope) /\ \A k \in 1 .. Len(scopes') : Owes(m_Slots, m_Used, scopes'[k])
  <2>1. scopes' \in Seq(AScope) /\ Len(scopes') = Len(scopes) + 1
    BY <1>1, <1>2, <1>4
  <2>2. \A k \in 1 .. Len(scopes) + 1 : scopes'[k] = IF k = Len(scopes) + 1 THEN f ELSE scopes[k]
    BY <1>1, <1>2
  <2>3. \A k \in 1 .. Len(scopes) + 1 : k = Len(scopes) + 1 \/ k \in 1 .. Len(scopes)
    BY <1>1
  <2> QED  BY <1>1, <1>4, <2>1, <2>2, <2>3
<1> QED  BY <1>2, <1>5 DEF SlotsInv, Parts

(* A slot is called: the scope owes one call less.                         *)
LEMMA OwesCalled ==
  ASSUME NEW slots, NEW used \in Nat, NEW f \in AScope, Owes(slots, used, f), f.itr # f.end,
         NEW g, g = [f EXCEPT !.itr = @ + 1, !.todo = IF @ = <<>> THEN @ ELSE Tail(@)]
  PROVE  g \in AScope /\ Owes(slots, used, g)
<1> DEFINE itr  == f.itr + 1
           todo == IF f.todo = <<>> THEN f.todo ELSE Tail(f.todo)
           i == f.itr
           e == f.end
<1>1. /\ f.itr \in Int /\ f.end \in Int /\ f.todo \in Seq(Slot) /\ itr \in Int
      /\ f.stale \in BOOLEAN /\ f.calm \in BOOLEAN
  BY DEF AScope
<1>2. todo \in Seq(Slot)
  BY <1>1
<1>3. g = [f EXCEPT !.itr = itr, !.todo = todo]
  OBVIOUS
<1>4. f.calm => /\ ~ f.stale /\ 0 <= itr /\ itr <= e /\ e <= used
                /\ f.todo = Left(slots, i, e) /\ i < e
  BY <1>1 DEF Owes
<1>5. f.calm => todo = Left(slots, itr, e)
  <2> SUFFICES ASSUME f.calm PROVE todo = Left(slots, itr, e)
    OBVIOUS
  <2>1. Len(f.todo) = e - i /\ \A j \in 1 .. e - i : f.todo[j] = slots[i + j - 1]
    <3> DEFINE L == e - i
               t == f.todo
    <3>1. L \in Nat /\ t = [j \in 1 .. L |-> slots[i + j - 1]]
      BY <1>1, <1>4 DEF Left
    <3> HIDE DEF L, t, i, e
    <3>2. Len(t) = L /\ \A j \in 1 .. L : t[j] = slots[i + j - 1]
      BY <3>1
    <3> QED  BY <3>2 DEF L, t
  <2>2. f.todo # <<>>
    BY <1>1, <1>4, <2>1
  <2>3. todo = Tail(f.todo) /\ Len(todo) = e - i - 1
        /\ \A j \in 1 .. e - i - 1 : todo[j] = f.todo[j + 1]
    BY <1>1, <2>1, <2>2
  <2> DEFINE n == e - itr
  <2>4. n \in Nat /\ Len(todo) = n /\ \A j \in 1 .. n : j + 1 \in 1 .. e - i /\ itr + j - 1 = i + (j + 1) - 1
    BY SMTT(30), <1>1, <1>4, <2>3
  <2>5. \A j \in 1 .. n : todo[j] = slots[itr + j - 1]
    BY <1>1, <2>1, <2>3, <2>4
  <2>6. Left(slots, itr, e) = [j \in 1 .. n |-> slots[itr + j - 1]]
    BY DEF Left
  <2> HIDE DEF todo, n, itr, e, i
  <2>7. todo = [j \in 1 .. n |-> todo[j]]
    BY <1>2, <2>4
  <2> QED  BY <2>5, <2>6, <2>7
<1> HIDE DEF itr, todo, e
<1>6. g \in AScope /\ g.itr = itr /\ g.end = f.end /\ g.stale = f.stale /\ g.calm = f.calm
      /\ g.todo = todo
  BY <1>1, <1>2, <1>3 DEF AScope
<1> HIDE DEF i
<1> QED  BY <1>4, <1>5, <1>6 DEF Owes, e

LEMMA CallStep ==
  ASSUME SlotsInv, CallSlot
  PROVE  SlotsInv'
<1> DEFINE top == Len(scopes)
           f == scopes[top]
           g == [f EXCEPT !.itr = @ + 1, !.todo = IF @ = <<>> THEN @ ELSE Tail(@)]
<1>1. /\ m_Used \in Nat /\ scopes \in Seq(AScope) /\ top \in Nat
      /\ \A k \in 1 .. top : Owes(m_Slots, m_Used, scopes[k])
  BY DEF SlotsInv, Parts
<1>2. /\ scopes' = [scopes EXCEPT ![top] = g]
      /\ f.itr # f.end /\ scopes # <<>> /\ calling' = TRUE
      /\ UNCHANGED <<m_Slots, m_Used, m_Size, refs, undefined>>
  BY DEF CallSlot, AtSlot, Emitting, Scope, Last
<1>3. top \in 1 .. top /\ f \in AScope /\ Owes(m_Slots, m_Used, f)
  BY <1>1, <1>2
<1>4. g \in AScope /\ Owes(m_Slots, m_Used, g)
  <2> HIDE DEF f
  <2>1. \A h : h = g => h \in AScope /\ Owes(m_Slots, m_Used, h)
    BY <1>1, <1>2, <1>3, OwesCalled
  <2> QED  BY <2>1
<1> HIDE DEF g, f
<1>5. scopes' \in Seq(AScope) /\ Len(scopes') = top
      /\ \A k \in 1 .. top : scopes'[k] = IF k = top THEN g ELSE scopes[k]
  BY <1>1, <1>2, <1>3, <1>4
<1> QED  BY <1>1, <1>2, <1>4, <1>5 DEF SlotsInv, Parts

LEMMA StutterStep ==
  ASSUME SlotsInv, UNCHANGED <<m_Slots, m_Used, m_Size, refs, scopes>>,
         calling' \in BOOLEAN, undefined' \in BOOLEAN
  PROVE  SlotsInv'
BY DEF SlotsInv

LEMMA SlotsStep == SlotsInv /\ [Next]_vars => SlotsInv'
<1> SUFFICES ASSUME SlotsInv, [Next]_vars PROVE SlotsInv'
  OBVIOUS
<1>0. calling \in BOOLEAN /\ undefined \in BOOLEAN
  BY DEF SlotsInv
<1>1. ASSUME NEW l \in Listeners, Connect(l) PROVE SlotsInv'
  BY <1>1, ConnectStep
<1>2. ASSUME NEW l \in Listeners, ConnectOnce(l) PROVE SlotsInv'
  BY <1>2, ConnectOnceStep
<1>3. ASSUME NEW M \in Matchers, Eliminate(M) PROVE SlotsInv'
  BY <1>3, EliminateStep
<1>4. ASSUME NEW M \in Matchers, NEW one \in BOOLEAN, NEW append \in BOOLEAN,
             Lead(M, one, append)
      PROVE  SlotsInv'
  BY <1>4, LeadStep
<1>5. ASSUME NEW M \in Matchers, NEW one \in BOOLEAN, NEW append \in BOOLEAN,
             NEW guess \in BOOLEAN, Tailing(M, one, append, guess)
      PROVE  SlotsInv'
  BY <1>5, TailStep
<1>6. CASE ClearSlots
  BY <1>6, ClearStep
<1>7. CASE Emit
  BY <1>7, EmitStep
<1>8. CASE EmitEnd
  BY <1>8, LeaveStep DEF EmitEnd
<1>9. CASE EmitUndefined
  BY <1>0, <1>9, StutterStep DEF EmitUndefined
<1>10. CASE CallNull
  BY <1>10, LeaveStep DEF CallNull
<1>11. CASE CallSlot
  BY <1>11, CallStep
<1>12. ASSUME NEW stop \in BOOLEAN, CallReturn(stop) PROVE SlotsInv'
  <2>1. CASE stop
    BY <1>12, <2>1, LeaveStep DEF CallReturn
  <2>2. CASE ~ stop
    BY <1>0, <1>12, <2>2, StutterStep DEF CallReturn
  <2> QED  BY <2>1, <2>2
<1>13. CASE UNCHANGED vars
  BY <1>0, <1>13, StutterStep DEF vars
<1> QED
  BY <1>1, <1>2, <1>3, <1>4, <1>5, <1>6, <1>7, <1>8, <1>9, <1>10, <1>11, <1>12, <1>13 DEF Next

(* The inductive invariant holds in every state: the array, its references *)
(* and its scopes are sound after every operation of source/Signal.cpp.    *)
THEOREM SlotsAlways == Spec => []SlotsInv
<1> QED  BY InitSlots, SlotsStep, PTL DEF Spec

-----------------------------------------------------------------------------
(* The references of a slot are counted by naturals.                       *)
LEMMA CountsAreNatural ==
  ASSUME SlotsInv
  PROVE  refs \in [Listeners -> Nat]
<1>1. m_Size \in Nat /\ m_Slots \in Array(m_Size) /\ refs \in [Listeners -> Int]
      /\ \A l \in Listeners : refs[l] = Cardinality(Holding(m_Slots, l))
  BY DEF SlotsInv, Parts, Counted
<1>2. \A l \in Listeners : refs[l] \in Nat
  BY <1>1, HoldingFinite
<1> QED  BY <1>1, <1>2

(* The types of the signal's state, for any number of listeners, slots and *)
(* nested emissions: m_Used never passes m_Size.                           *)
THEOREM SlotsTyped == Spec => []TypeOK
<1>1. SlotsInv => TypeOK
  BY CountsAreNatural DEF SlotsInv, Parts, TypeOK, Array, AScope
<1> QED  BY <1>1, SlotsAlways, PTL

(* The references a signal holds are those of its slots, through every     *)
(* connection, removal, move, growth and clearing (Slot::Release).         *)
THEOREM ReferencesKept == Spec => []RefsAreSlots
<1>1. SlotsInv => RefsAreSlots
  BY DEF SlotsInv, Parts, RefsAreSlots, Counted, Holding
<1> QED  BY <1>1, SlotsAlways, PTL

(* An emission goes on with the slots it owes a call (Signal::Scope), for  *)
(* any depth of emissions and any operations of the listeners it calls.    *)
THEOREM EmissionsOwed == Spec => []EmitsWhatIsOwed
<1>1. SlotsInv => EmitsWhatIsOwed
  BY DEF SlotsInv, Parts, EmitsWhatIsOwed, Owes, Left
<1> QED  BY <1>1, SlotsAlways, PTL

-----------------------------------------------------------------------------
(* The order a move to the front gives.                                    *)

(* The array after some passes: those that matched, hs, in front, in their *)
(* order or reversed, the others, os, behind them, and the rest as it was. *)
Sorted(slots, size, append, hs, os, st) ==
  /\ ~ st.done
  /\ st.front = IF append THEN Len(hs) ELSE 0
  /\ \A i \in 0 .. size - 1 :
       st.slots[i] = IF i < Len(hs) THEN hs[IF append THEN i + 1 ELSE Len(hs) - i]
                     ELSE IF i < Len(hs) + Len(os) THEN os[i - Len(hs) + 1]
                     ELSE slots[i]

LEMMA Appended ==
  ASSUME NEW s \in Seq(Slot), NEW e \in Slot
  PROVE  /\ Append(s, e) \in Seq(Slot) /\ Len(Append(s, e)) = Len(s) + 1
         /\ \A i \in 1 .. Len(s) : Append(s, e)[i] = s[i]
         /\ Append(s, e)[Len(s) + 1] = e
BY AppendProperties

LEMMA SortedHit ==
  ASSUME NEW size \in Nat, NEW slots \in Array(size), NEW append \in BOOLEAN,
         NEW hs \in Seq(Slot), NEW os \in Seq(Slot), NEW st \in LeadState(size),
         Sorted(slots, size, append, hs, os, st),
         NEW n \in 0 .. size - 1, n = Len(hs) + Len(os), NEW M, slots[n].hash \in M
  PROVE  Sorted(slots, size, append, Append(hs, slots[n]), os,
                LeadPass(M, FALSE, append, st, n))
<1> DEFINE new == LeadPass(M, FALSE, append, st, n)
           h   == Len(hs)
           k   == Len(os)
           gs  == Append(hs, slots[n])
           g   == Len(gs)
           At(i) == IF i < g THEN gs[IF append THEN i + 1 ELSE g - i]
                    ELSE IF i < g + k THEN os[i - g + 1] ELSE slots[i]
           Was(i) == IF i < h THEN hs[IF append THEN i + 1 ELSE h - i]
                     ELSE IF i < h + k THEN os[i - h + 1] ELSE slots[i]
<1>1. /\ slots[n] \in Slot /\ st.slots \in Array(size) /\ DOMAIN st.slots = 0 .. size - 1
      /\ n \in Nat /\ h \in Nat /\ k \in Nat
      /\ ~ st.done /\ st.front = IF append THEN h ELSE 0
      /\ \A i \in 0 .. size - 1 : st.slots[i] = Was(i)
  BY DEF Array, LeadState, Sorted
<1>2. /\ g = h + 1 /\ gs[h + 1] = slots[n] /\ \A i \in 1 .. h : gs[i] = hs[i]
  BY <1>1, Appended
<1>3. st.slots[n] = slots[n]
  BY <1>1
<1>4. LeadHit(FALSE, append, st, n, new)
  BY <1>1, <1>3, LeadPassHit
<1> SUFFICES Sorted(slots, size, append, gs, os, new)
  OBVIOUS
<1> HIDE DEF new, gs, g, h, k
<1>5. ~ new.done /\ new.front = IF append THEN g ELSE 0
  BY <1>1, <1>2, <1>4 DEF LeadHit
<1>6. \A i \in 0 .. size - 1 :
        new.slots[i] = IF i = st.front THEN slots[n]
                       ELSE IF i \in st.front + 1 .. n THEN st.slots[i - 1] ELSE st.slots[i]
  BY <1>1, <1>3, <1>4 DEF LeadHit, RotateDown
<1>7. n = h + k
  BY DEF h, k
<1>8. ASSUME NEW i \in 0 .. size - 1 PROVE new.slots[i] = At(i)
  <2>1. i > 0 => i - 1 \in 0 .. size - 1
    OBVIOUS
  <2> HIDE DEF At, Was
  <2>2. CASE append
    <3>1. CASE i < h
      <4>0. i # st.front /\ i \notin st.front + 1 .. n
        BY <1>1, <2>2, <3>1
      <4>1. new.slots[i] = Was(i)
        BY <1>1, <1>6, <4>0
      <4>2. i + 1 \in 1 .. h /\ i < g
        BY <1>1, <1>2, <3>1
      <4> QED  BY <1>2, <2>2, <3>1, <4>1, <4>2 DEF At, Was
    <3>2. CASE i = h
      <4>1. new.slots[i] = slots[n]
        BY <1>1, <1>6, <2>2, <3>2
      <4> QED  BY <1>1, <1>2, <2>2, <3>2, <4>1 DEF At
    <3>3. CASE i > h /\ i <= n
      <4>0. i > 0 /\ i - 1 \in 0 .. size - 1 /\ i # st.front /\ i \in st.front + 1 .. n
        BY <1>1, <2>1, <2>2, <3>3
      <4>1. new.slots[i] = Was(i - 1)
        BY <1>1, <1>6, <4>0
      <4>2. ~ (i - 1 < h) /\ i - 1 < h + k /\ ~ (i < g) /\ i < g + k /\ (i - 1) - h + 1 = i - g + 1
        BY <1>1, <1>2, <1>7, <3>3
      <4> QED  BY <4>1, <4>2 DEF At, Was
    <3>4. CASE i > n
      <4>1. new.slots[i] = Was(i)
        BY SMTT(30), <1>1, <1>6, <1>7, <2>2, <3>4
      <4>2. ~ (i < h) /\ ~ (i < h + k) /\ ~ (i < g) /\ ~ (i < g + k)
        BY <1>1, <1>2, <1>7, <3>4
      <4> QED  BY <4>1, <4>2 DEF At, Was
    <3> QED  BY <1>1, <3>1, <3>2, <3>3, <3>4
  <2>3. CASE ~ append
    <3>1. CASE i = 0
      <4>1. new.slots[i] = slots[n]
        BY <1>1, <1>6, <2>3, <3>1
      <4> QED  BY <1>1, <1>2, <2>3, <3>1, <4>1 DEF At
    <3>2. CASE i > 0 /\ i <= h
      <4>0. i > 0 /\ i - 1 \in 0 .. size - 1 /\ i # st.front /\ i \in st.front + 1 .. n
        BY <1>1, <1>7, <2>1, <2>3, <3>2
      <4>1. new.slots[i] = Was(i - 1)
        BY <1>1, <1>6, <4>0
      <4>2. i - 1 < h /\ i < g /\ h - (i - 1) = g - i /\ g - i \in 1 .. h
        BY <1>1, <1>2, <3>2
      <4> QED  BY <1>2, <2>3, <4>1, <4>2 DEF At, Was
    <3>3. CASE i > h /\ i <= n
      <4>0. i > 0 /\ i - 1 \in 0 .. size - 1 /\ i # st.front /\ i \in st.front + 1 .. n
        BY <1>1, <2>1, <2>3, <3>3
      <4>1. new.slots[i] = Was(i - 1)
        BY <1>1, <1>6, <4>0
      <4>2. ~ (i - 1 < h) /\ i - 1 < h + k /\ ~ (i < g) /\ i < g + k /\ (i - 1) - h + 1 = i - g + 1
        BY <1>1, <1>2, <1>7, <3>3
      <4> QED  BY <4>1, <4>2 DEF At, Was
    <3>4. CASE i > n
      <4>1. new.slots[i] = Was(i)
        BY <1>1, <1>6, <1>7, <2>3, <3>4
      <4>2. ~ (i < h) /\ ~ (i < h + k) /\ ~ (i < g) /\ ~ (i < g + k)
        BY <1>1, <1>2, <1>7, <3>4
      <4> QED  BY <4>1, <4>2 DEF At, Was
    <3> QED  BY <1>1, <3>1, <3>2, <3>3, <3>4
  <2> QED  BY <2>2, <2>3
<1> QED  BY <1>5, <1>8 DEF Sorted, g, k

LEMMA SortedMiss ==
  ASSUME NEW size \in Nat, NEW slots \in Array(size), NEW append \in BOOLEAN,
         NEW hs \in Seq(Slot), NEW os \in Seq(Slot), NEW st \in LeadState(size),
         Sorted(slots, size, append, hs, os, st),
         NEW n \in 0 .. size - 1, n = Len(hs) + Len(os), NEW M, slots[n].hash \notin M
  PROVE  Sorted(slots, size, append, hs, Append(os, slots[n]),
                LeadPass(M, FALSE, append, st, n))
<1> DEFINE h  == Len(hs)
           k  == Len(os)
           gs == Append(os, slots[n])
           g  == Len(gs)
<1>1. /\ slots[n] \in Slot /\ n \in Nat /\ h \in Nat /\ k \in Nat
      /\ ~ st.done /\ st.front = IF append THEN h ELSE 0
      /\ \A i \in 0 .. size - 1 :
           st.slots[i] = IF i < h THEN hs[IF append THEN i + 1 ELSE h - i]
                         ELSE IF i < h + k THEN os[i - h + 1] ELSE slots[i]
  BY DEF Array, Sorted
<1>2. g = k + 1 /\ gs[k + 1] = slots[n] /\ \A i \in 1 .. k : gs[i] = os[i]
  BY <1>1, Appended
<1>3. st.slots[n] = slots[n]
  BY <1>1
<1>4. LeadPass(M, FALSE, append, st, n) = st
  BY <1>3 DEF LeadPass
<1> HIDE DEF gs, g, h, k
<1>5. n = h + k
  BY DEF h, k
<1>6. ASSUME NEW i \in 0 .. size - 1
      PROVE  st.slots[i] = IF i < h THEN hs[IF append THEN i + 1 ELSE h - i]
                           ELSE IF i < h + g THEN gs[i - h + 1] ELSE slots[i]
  <2>1. CASE i < h
    BY <1>1, <2>1
  <2>2. CASE ~ (i < h) /\ i < h + k
    <3>1. i - h + 1 \in 1 .. k /\ i < h + g
      BY <1>1, <1>2, <2>2
    <3> QED  BY <1>1, <1>2, <2>2, <3>1
  <2>3. CASE i = n
    <3>1. i - h + 1 = k + 1 /\ ~ (i < h) /\ i < h + g
      BY <1>1, <1>2, <1>5, <2>3
    <3> QED  BY <1>2, <1>3, <2>3, <3>1
  <2>4. CASE i > n
    <3>1. ~ (i < h) /\ ~ (i < h + k) /\ ~ (i < h + g)
      BY <1>1, <1>2, <1>5, <2>4
    <3> QED  BY <1>1, <3>1
  <2> QED  BY <1>1, <1>5, <2>1, <2>2, <2>3, <2>4
<1>7. Sorted(slots, size, append, hs, gs, st)
  BY <1>1, <1>6 DEF Sorted, h, g
<1> QED  BY <1>4, <1>7 DEF gs


-----------------------------------------------------------------------------
(* The slots in use, as a sequence.                                        *)
InUse(slots, used) == [i \in 1 .. used |-> slots[i - 1]]

LEMMA InUseAreSlots ==
  ASSUME NEW size \in Nat, NEW slots \in Array(size), NEW used \in 0 .. size
  PROVE  /\ InUse(slots, used) \in Seq(Slot) /\ Len(InUse(slots, used)) = used
         /\ \A n \in 0 .. used - 1 : InUse(slots, used)[n + 1] = slots[n]
<1> DEFINE all == InUse(slots, used)
<1>1. \A i \in 1 .. used : i - 1 \in 0 .. size - 1
  OBVIOUS
<1>2. all \in [1 .. used -> Slot]
  BY <1>1 DEF InUse, Array
<1>3. used \in Nat
  OBVIOUS
<1>4. \A n \in 0 .. used - 1 : n + 1 \in 1 .. used /\ (n + 1) - 1 = n
  OBVIOUS
<1>5. \A n \in 0 .. used - 1 : all[n + 1] = slots[n]
  BY <1>4 DEF InUse
<1> HIDE DEF all
<1> QED  BY <1>2, <1>3, <1>5 DEF all

(* The slots that match, the others, and the array after n passes.         *)
SplitAt(slots, size, append, hs, os, st, n) ==
  /\ hs \in Seq(Slot) /\ os \in Seq(Slot)
  /\ Len(hs) + Len(os) = n
  /\ Sorted(slots, size, append, hs, os, st)

LEMMA SplitPass ==
  ASSUME NEW size \in Nat, NEW slots \in Array(size), NEW append \in BOOLEAN, NEW M,
         NEW hs, NEW os, NEW st \in LeadState(size), NEW n \in 0 .. size - 1,
         SplitAt(slots, size, append, hs, os, st, n)
  PROVE  SplitAt(slots, size, append,
                 IF slots[n].hash \in M THEN Append(hs, slots[n]) ELSE hs,
                 IF slots[n].hash \in M THEN os ELSE Append(os, slots[n]),
                 LeadPass(M, FALSE, append, st, n), n + 1)
<1>1. slots[n] \in Slot /\ hs \in Seq(Slot) /\ os \in Seq(Slot) /\ n = Len(hs) + Len(os)
      /\ Len(hs) \in Nat /\ Len(os) \in Nat
      /\ Sorted(slots, size, append, hs, os, st)
  BY DEF Array, SplitAt
<1>2. CASE slots[n].hash \in M
  <2>1. Sorted(slots, size, append, Append(hs, slots[n]), os, LeadPass(M, FALSE, append, st, n))
    BY <1>1, <1>2, SortedHit
  <2>2. Append(hs, slots[n]) \in Seq(Slot) /\ Len(Append(hs, slots[n])) + Len(os) = n + 1
    BY <1>1
  <2> QED  BY <1>1, <1>2, <2>1, <2>2 DEF SplitAt
<1>3. CASE slots[n].hash \notin M
  <2>1. Sorted(slots, size, append, hs, Append(os, slots[n]), LeadPass(M, FALSE, append, st, n))
    BY <1>1, <1>3, SortedMiss
  <2>2. Append(os, slots[n]) \in Seq(Slot) /\ Len(hs) + Len(Append(os, slots[n])) = n + 1
    BY <1>1
  <2> QED  BY <1>1, <1>3, <2>1, <2>2 DEF SplitAt
<1> QED  BY <1>2, <1>3

LEMMA SplitDone ==
  ASSUME NEW size \in Nat, NEW slots \in Array(size), NEW used \in 0 .. size, NEW M,
         NEW append \in BOOLEAN, NEW fs \in Seq(AScope)
  PROVE  SplitAt(slots, size, append, Those(InUse(slots, used), M),
                 Those(InUse(slots, used), Hashes \ M),
                 LeadIf(slots, used, M, FALSE, append, fs), used)
<1> DEFINE after == LeadLoop(slots, used, M, FALSE, append, fs)
           all == InUse(slots, used)
           K   == Hashes \ M
           H   == TakeLoop(all, M)
           O   == TakeLoop(all, K)
           r   == LeadIf(slots, used, M, FALSE, append, fs)
           T   == {n \in 0 .. used : SplitAt(slots, size, append, H[n], O[n], after[n], n)}
<1>1. /\ after \in [0 .. used -> LeadState(size)]
      /\ after[0] = LeadStart(slots, fs)
      /\ \A n \in 0 .. used - 1 : after[n + 1] = LeadPass(M, FALSE, append, after[n], n)
      /\ r = after[used]
  <2>1. LeadRun(size, slots, used, M, FALSE, append, fs, after)
    BY LeadRuns
  <2> HIDE DEF after, r
  <2> QED  BY <2>1 DEF LeadRun, r
<1>2. all \in Seq(Slot) /\ Len(all) = used /\ \A n \in 0 .. used - 1 : all[n + 1] = slots[n]
  BY InUseAreSlots
<1>3. used \in Nat /\ \A n \in 0 .. used - 1 : n \in 0 .. size - 1 /\ n \in 0 .. used /\ n + 1 \in 0 .. used
  OBVIOUS
<1>4. \A n \in 0 .. used - 1 : slots[n].hash \in K <=> slots[n].hash \notin M
  BY <1>3 DEF Array, Slot
<1> HIDE DEF after, all, K, r
<1>5. H[0] = <<>> /\ \A n \in 0 .. used - 1 : H[n + 1] = TakePass(all, M, H[n], n)
  BY <1>2, TakeRuns
<1>6. O[0] = <<>> /\ \A n \in 0 .. used - 1 : O[n + 1] = TakePass(all, K, O[n], n)
  BY <1>2, TakeRuns
<1>7. H[used] = Those(all, M) /\ O[used] = Those(all, K)
  BY <1>2 DEF Those, TakeLoop
<1> HIDE DEF H, O
<1>8. 0 \in T
  <2>1. Sorted(slots, size, append, <<>>, <<>>, LeadStart(slots, fs))
    BY DEF Sorted, LeadStart
  <2>2. SplitAt(slots, size, append, <<>>, <<>>, LeadStart(slots, fs), 0)
    BY <2>1 DEF SplitAt
  <2> QED  BY <1>1, <1>3, <1>5, <1>6, <2>2
<1>9. ASSUME NEW n \in 0 .. used - 1, n \in T  PROVE n + 1 \in T
  <2>1. /\ n \in 0 .. size - 1 /\ after[n] \in LeadState(size)
        /\ SplitAt(slots, size, append, H[n], O[n], after[n], n)
    BY <1>1, <1>3, <1>9
  <2>2. SplitAt(slots, size, append,
                IF slots[n].hash \in M THEN Append(H[n], slots[n]) ELSE H[n],
                IF slots[n].hash \in M THEN O[n] ELSE Append(O[n], slots[n]),
                LeadPass(M, FALSE, append, after[n], n), n + 1)
    BY ZenonT(40), <2>1, SplitPass
  <2>3. H[n + 1] = IF slots[n].hash \in M THEN Append(H[n], slots[n]) ELSE H[n]
    BY <1>2, <1>5 DEF TakePass
  <2>4. O[n + 1] = IF slots[n].hash \in M THEN O[n] ELSE Append(O[n], slots[n])
    BY <1>2, <1>4, <1>6 DEF TakePass
  <2>5. SplitAt(slots, size, append, H[n + 1], O[n + 1], after[n + 1], n + 1)
    BY <1>1, <2>2, <2>3, <2>4
  <2> QED  BY <1>3, <2>5
<1> HIDE DEF T
<1>10. used \in T
  BY <1>3, <1>8, <1>9, Upwards
<1>11. SplitAt(slots, size, append, Those(all, M), Those(all, K), r, used)
  BY <1>1, <1>7, <1>10 DEF T
<1> QED  BY <1>11 DEF all, K, r


(* The order of the slots in use, when every match is moved.               *)
LEMMA AllMoved ==
  ASSUME NEW size \in Nat, NEW slots \in Array(size), NEW used \in 0 .. size,
         NEW append \in BOOLEAN, NEW hs, NEW os, NEW st \in LeadState(size),
         SplitAt(slots, size, append, hs, os, st, used)
  PROVE  InUse(st.slots, used) = (IF append THEN hs ELSE Reverse(hs)) \o os
<1> DEFINE led == IF append THEN hs ELSE Reverse(hs)
           h   == Len(hs)
           k   == Len(os)
<1>1. /\ hs \in Seq(Slot) /\ os \in Seq(Slot) /\ h \in Nat /\ k \in Nat /\ h + k = used
      /\ \A i \in 0 .. size - 1 :
           st.slots[i] = IF i < h THEN hs[IF append THEN i + 1 ELSE h - i]
                         ELSE IF i < h + k THEN os[i - h + 1] ELSE slots[i]
  BY DEF SplitAt, Sorted
<1>2. led \in Seq(Slot) /\ Len(led) = h
      /\ \A i \in 1 .. h : led[i] = hs[IF append THEN i ELSE (h - i) + 1]
  <2>1. CASE append
    BY <1>1, <2>1
  <2>2. CASE ~ append
    <3>1. Reverse(hs) = [i \in 1 .. h |-> hs[(h - i) + 1]]
      BY DEF Reverse
    <3>2. \A i \in 1 .. h : (h - i) + 1 \in 1 .. h
      BY <1>1
    <3>3. [i \in 1 .. h |-> hs[(h - i) + 1]] \in [1 .. h -> Slot]
      BY <1>1, <3>2
    <3> HIDE DEF h
    <3>4. led \in [1 .. h -> Slot]
      BY <2>2, <3>1, <3>3
    <3>5. led \in Seq(Slot) /\ Len(led) = h
      <4> HIDE DEF led
      <4> QED  BY <1>1, <3>4
    <3>6. \A i \in 1 .. h : led[i] = hs[(h - i) + 1]
      BY <2>2, <3>1
    <3> QED  BY <2>2, <3>5, <3>6
  <2> QED  BY <2>1, <2>2
<1> HIDE DEF led, h, k
<1>3. /\ Len(led \o os) = used /\ led \o os \in Seq(Slot)
      /\ \A i \in 1 .. used : (led \o os)[i] = IF i <= h THEN led[i] ELSE os[i - h]
  <2>1. h = Len(led) /\ k = Len(os) /\ led \in Seq(Slot) /\ os \in Seq(Slot)
    BY <1>1, <1>2 DEF k
  <2>2. /\ led \o os \in Seq(Slot) /\ Len(led \o os) = Len(led) + Len(os)
        /\ \A i \in 1 .. Len(led) + Len(os) :
             (led \o os)[i] = IF i <= Len(led) THEN led[i] ELSE os[i - Len(led)]
    BY <2>1, ConcatProperties
  <2> QED  BY <1>1, <2>1, <2>2
<1>4. ASSUME NEW i \in 1 .. used PROVE st.slots[i - 1] = (led \o os)[i]
  <2>1. i - 1 \in 0 .. size - 1 /\ i \in Nat
    OBVIOUS
  <2>2. CASE i <= h
    <3>1. i - 1 < h /\ (i - 1) + 1 = i /\ h - (i - 1) = (h - i) + 1 /\ i \in 1 .. h
      BY <1>1, <2>2
    <3>2. st.slots[i - 1] = hs[IF append THEN i ELSE (h - i) + 1]
      BY <1>1, <2>1, <3>1
    <3> QED  BY <1>2, <1>3, <2>2, <3>1, <3>2
  <2>3. CASE ~ (i <= h)
    <3>1. ~ (i - 1 < h) /\ i - 1 < h + k /\ (i - 1) - h + 1 = i - h
      BY <1>1, <2>3
    <3>2. st.slots[i - 1] = os[i - h]
      BY <1>1, <2>1, <3>1
    <3> QED  BY <1>3, <2>3, <3>2
  <2> QED  BY <2>2, <2>3
<1>5. InUse(st.slots, used) = led \o os
  <2> DEFINE c == led \o os
  <2>1. c \in Seq(Slot) /\ Len(c) = used /\ \A i \in 1 .. used : st.slots[i - 1] = c[i]
    BY <1>3, <1>4
  <2> HIDE DEF c
  <2>2. c = [i \in 1 .. used |-> c[i]]
    BY <2>1
  <2> QED  BY <2>1, <2>2 DEF InUse, c
<1> QED  BY <1>5 DEF led

LEMMA TakenNone ==
  ASSUME NEW s \in Seq(Slot), NEW M, \A i \in 1 .. Len(s) : s[i].hash \notin M
  PROVE  Those(s, M) = <<>>
<1> DEFINE t == TakeLoop(s, M)
           N == Len(s)
           T == {n \in Nat : t[n] = <<>>}
<1>1. /\ N \in Nat
      /\ t[0] = <<>>
      /\ \A n \in 0 .. N - 1 : t[n + 1] = TakePass(s, M, t[n], n)
  BY TakeRuns
<1> HIDE DEF t
<1>2. \A n \in 0 .. N - 1 : n + 1 \in 1 .. N /\ n + 1 \in Nat
  BY <1>1
<1>3. 0 \in T
  BY <1>1
<1>4. ASSUME NEW n \in 0 .. N - 1, n \in T  PROVE n + 1 \in T
  BY <1>1, <1>2, <1>4 DEF TakePass
<1> HIDE DEF T, N
<1>5. N \in T
  BY <1>1, <1>3, <1>4, Upwards
<1> QED  BY <1>5 DEF T, N, Those, t, TakeLoop

(* With one, nothing has moved before the first match, and nothing moves   *)
(* after it.                                                               *)
LEMMA OneMoved ==
  ASSUME NEW size \in Nat, NEW slots \in Array(size), NEW used \in 0 .. size, NEW M,
         NEW append \in BOOLEAN, NEW fs \in Seq(AScope), NEW p \in 0 .. used,
         \A i \in 0 .. p - 1 : slots[i].hash \notin M,
         p < used => slots[p].hash \in M,
         NEW r, r = LeadIf(slots, used, M, TRUE, append, fs)
  PROVE  SameBelow(IF p < used THEN RotateDown(slots, 0, p) ELSE slots, r.slots, size)
<1> DEFINE after == LeadLoop(slots, used, M, TRUE, append, fs)
           moved == RotateDown(slots, 0, p)
           Good(n) == IF n <= p
                        THEN ~ after[n].done /\ after[n].front = 0 /\ after[n].slots = slots
                        ELSE after[n].done /\ after[n].slots = moved
           T == {n \in 0 .. used : Good(n)}
<1>1. /\ after[0] = LeadStart(slots, fs)
      /\ \A n \in 0 .. used - 1 : after[n + 1] = LeadPass(M, TRUE, append, after[n], n)
      /\ r = after[used]
  <2>1. LeadRun(size, slots, used, M, TRUE, append, fs, after)
    BY LeadRuns
  <2> HIDE DEF after
  <2> QED  BY <2>1 DEF LeadRun
<1>2. used \in Nat /\ p \in Nat
      /\ \A n \in 0 .. used - 1 : n \in Nat /\ n \in 0 .. used /\ n + 1 \in 0 .. used
  OBVIOUS
<1> HIDE DEF after, moved
<1>3. 0 \in T
  BY <1>1, <1>2 DEF LeadStart
<1>4. ASSUME NEW n \in 0 .. used - 1, n \in T  PROVE n + 1 \in T
  <2> DEFINE st  == after[n]
             new == LeadPass(M, TRUE, append, st, n)
  <2>1. Good(n) /\ after[n + 1] = new /\ n + 1 \in 0 .. used /\ n \in Nat
    BY <1>1, <1>2, <1>4
  <2>2. CASE n < p
    <3>1. ~ st.done /\ st.front = 0 /\ st.slots = slots
      BY <1>2, <2>1, <2>2
    <3>2. slots[n].hash \notin M
      BY <1>2, <2>1, <2>2
    <3>3. new = st
      BY <3>1, <3>2 DEF LeadPass
    <3>4. n + 1 <= p
      BY <1>2, <2>1, <2>2
    <3> HIDE DEF new, st
    <3>5. after[n + 1] = after[n]
      BY <2>1, <3>3 DEF st
    <3> QED  BY <2>1, <3>1, <3>4, <3>5 DEF st
  <2>3. CASE n = p
    <3>1. ~ st.done /\ st.front = 0 /\ st.slots = slots /\ slots[n].hash \in M
      BY <1>2, <2>1, <2>3
    <3>2. LeadHit(TRUE, append, st, n, new)
      BY <3>1, LeadPassHit
    <3> HIDE DEF new, st
    <3>3. new.slots = moved /\ new.done
      BY <2>3, <3>1, <3>2 DEF LeadHit, moved
    <3>4. ~ (n + 1 <= p)
      BY <1>2, <2>3
    <3> QED  BY <2>1, <3>3, <3>4
  <2>4. CASE n > p
    <3>1. st.done /\ st.slots = moved
      BY <1>2, <2>1, <2>4
    <3>2. new = st
      BY <3>1 DEF LeadPass
    <3>3. ~ (n + 1 <= p)
      BY <1>2, <2>1, <2>4
    <3> HIDE DEF new, st
    <3>4. after[n + 1] = after[n]
      BY <2>1, <3>2 DEF st
    <3> QED  BY <2>1, <3>1, <3>3, <3>4 DEF st
  <2> QED  BY <1>2, <2>1, <2>2, <2>3, <2>4
<1> HIDE DEF T
<1>5. used \in T
  BY <1>2, <1>3, <1>4, Upwards
<1>6. Good(used)
  BY <1>5 DEF T
<1>7. r.slots = IF p < used THEN moved ELSE slots
  <2>1. CASE p < used
    <3>1. ~ (used <= p)
      BY <1>2, <2>1
    <3> QED  BY <1>1, <1>6, <2>1, <3>1
  <2>2. CASE ~ (p < used)
    <3>1. used <= p
      BY <1>2, <2>2
    <3> QED  BY <1>1, <1>6, <2>2, <3>1
  <2> QED  BY <2>1, <2>2
<1> HIDE DEF Good
<1> QED  BY <1>7 DEF moved, SameBelow


LEMMA SameInUse ==
  ASSUME NEW size \in Nat, NEW a, NEW b, SameBelow(a, b, size), NEW used \in 0 .. size
  PROVE  InUse(b, used) = InUse(a, used)
<1>1. \A i \in 1 .. used : i - 1 \in 0 .. size - 1
  OBVIOUS
<1>2. \A i \in 1 .. used : b[i - 1] = a[i - 1]
  BY <1>1 DEF SameBelow
<1> QED  BY <1>2 DEF InUse

(* The slot at p in front of the others.                                   *)
LEMMA FirstInFront ==
  ASSUME NEW size \in Nat, NEW slots \in Array(size), NEW used \in 0 .. size,
         NEW p \in 0 .. used - 1,
         NEW all, all = InUse(slots, used)
  PROVE  InUse(RotateDown(slots, 0, p), used) = <<all[p + 1]>> \o RemoveAt(all, p + 1)
<1> DEFINE q == p + 1
           a == <<all[q]>>
           b == SubSeq(all, 1, q - 1)
           c == SubSeq(all, q + 1, Len(all))
           d == b \o c
           new == RotateDown(slots, 0, p)
<1>1. /\ all \in Seq(Slot) /\ Len(all) = used
      /\ \A n \in 0 .. used - 1 : all[n + 1] = slots[n]
  BY InUseAreSlots
<1>2. used \in Nat /\ p \in Nat /\ q \in 1 .. used /\ q - 1 = p /\ all[q] \in Slot
      /\ DOMAIN slots = 0 .. size - 1
  BY <1>1 DEF Array
<1>3. /\ a \in Seq(Slot) /\ Len(a) = 1 /\ a[1] = slots[p]
  BY <1>1, <1>2
<1>4. /\ b \in Seq(Slot) /\ Len(b) = p
      /\ \A i \in 1 .. p : b[i] = all[i]
  BY <1>1, <1>2
<1>5. /\ c \in Seq(Slot) /\ Len(c) = used - q
      /\ \A i \in 1 .. used - q : c[i] = all[q + i]
  <2>1. \A i \in 1 .. used - q : (q + 1) + i - 1 = q + i
    BY <1>2
  <2> QED  BY <1>1, <1>2, <2>1
<1>6. RemoveAt(all, q) = d
  BY DEF RemoveAt
<1> HIDE DEF a, b, c
<1>7. /\ d \in Seq(Slot) /\ Len(d) = used - 1
      /\ \A i \in 1 .. used - 1 : d[i] = IF i <= p THEN b[i] ELSE c[i - p]
  <2>1. Len(b) + Len(c) = used - 1
    BY <1>2, <1>4, <1>5
  <2>2. /\ d \in Seq(Slot) /\ Len(d) = Len(b) + Len(c)
        /\ \A i \in 1 .. Len(b) + Len(c) : d[i] = IF i <= Len(b) THEN b[i] ELSE c[i - Len(b)]
    BY ZenonT(40), <1>4, <1>5, ConcatProperties
  <2> HIDE DEF d
  <2> QED  BY <1>4, <2>1, <2>2
<1> HIDE DEF d
<1>8. /\ a \o d \in Seq(Slot) /\ Len(a \o d) = used
      /\ \A i \in 1 .. used : (a \o d)[i] = IF i <= 1 THEN a[i] ELSE d[i - 1]
  <2>1. Len(a) + Len(d) = used
    BY <1>2, <1>3, <1>7
  <2>2. /\ a \o d \in Seq(Slot) /\ Len(a \o d) = Len(a) + Len(d)
        /\ \A i \in 1 .. Len(a) + Len(d) : (a \o d)[i] = IF i <= Len(a) THEN a[i] ELSE d[i - Len(a)]
    BY <1>3, <1>7, ConcatProperties
  <2> QED  BY <1>3, <2>1, <2>2
<1>9. \A i \in 0 .. size - 1 :
        new[i] = IF i = 0 THEN slots[p] ELSE IF i \in 1 .. p THEN slots[i - 1] ELSE slots[i]
  BY <1>2 DEF RotateDown
<1> HIDE DEF new
<1>10. ASSUME NEW i \in 1 .. used PROVE new[i - 1] = (a \o d)[i]
  <2>1. i \in Nat /\ i - 1 \in 0 .. size - 1 /\ i - 1 \in 0 .. used - 1
    BY <1>2
  <2>2. CASE i = 1
    BY <1>3, <1>8, <1>9, <2>1, <2>2
  <2>3. CASE i > 1 /\ i - 1 <= p
    <3>1. i - 1 \in 1 .. p /\ i - 1 # 0 /\ ~ (i <= 1) /\ i - 1 \in 1 .. used - 1
          /\ (i - 1) - 1 \in 0 .. used - 1 /\ ((i - 1) - 1) + 1 = i - 1
      BY <1>2, <2>1, <2>3
    <3>2. new[i - 1] = slots[(i - 1) - 1]
      BY <1>9, <2>1, <3>1
    <3>3. (a \o d)[i] = all[i - 1]
      BY <1>4, <1>7, <1>8, <2>3, <3>1
    <3> QED  BY <1>1, <3>1, <3>2, <3>3
  <2>4. CASE i > 1 /\ ~ (i - 1 <= p)
    <3>1. i - 1 \notin 1 .. p /\ i - 1 # 0 /\ ~ (i <= 1) /\ i - 1 \in 1 .. used - 1
          /\ (i - 1) + 1 = i /\ (i - 1) - p \in 1 .. used - q /\ q + ((i - 1) - p) = i
      BY <1>2, <2>1, <2>4
    <3>2. new[i - 1] = slots[i - 1]
      BY <1>9, <2>1, <3>1
    <3>3. (a \o d)[i] = c[(i - 1) - p]
      BY <1>7, <1>8, <2>4, <3>1
    <3>4. c[(i - 1) - p] = all[i]
      BY <1>5, <3>1
    <3> QED  BY <1>1, <2>1, <3>1, <3>2, <3>3, <3>4
  <2>5. i = 1 \/ i > 1
    BY <1>2
  <2> QED  BY <2>2, <2>3, <2>4, <2>5
<1>11. InUse(new, used) = a \o d
  <2> DEFINE e == a \o d
  <2>1. e \in Seq(Slot) /\ Len(e) = used /\ \A i \in 1 .. used : new[i - 1] = e[i]
    BY <1>8, <1>10
  <2> HIDE DEF e
  <2>2. e = [i \in 1 .. used |-> e[i]]
    BY <2>1
  <2> QED  BY <2>1, <2>2 DEF InUse, e
<1> QED  BY <1>6, <1>11 DEF new, a

(* The order LeadIf gives, whatever the slots.                             *)
LEMMA LedAsAsked ==
  ASSUME SlotsInv, NEW M, NEW one \in BOOLEAN, NEW append \in BOOLEAN,
         NEW r, r = LeadIf(m_Slots, m_Used, M, one, append, scopes)
  PROVE  Used(r.slots) = Led(M, one, append)
<1> DEFINE all   == InUse(m_Slots, m_Used)
           K     == Hashes \ M
           hits  == {i \in DOMAIN all : all[i].hash \in M}
           First == CHOOSE i \in hits : \A j \in hits : i <= j
           hs    == Those(all, M)
           os    == Those(all, K)
           back  == IF append THEN hs ELSE Reverse(hs)
<1>1. /\ m_Size \in Nat /\ m_Slots \in Array(m_Size) /\ m_Used \in 0 .. m_Size
      /\ m_Used \in Nat /\ scopes \in Seq(AScope)
  BY DEF SlotsInv, Parts
<1>2. /\ Led(M, one, append) = IF one /\ hits # {} THEN <<all[First]>> \o RemoveAt(all, First)
                               ELSE back \o os
      /\ Used(r.slots) = InUse(r.slots, m_Used)
  BY DEF Led, Used, InUse
<1>3. /\ all \in Seq(Slot) /\ Len(all) = m_Used /\ DOMAIN all = 1 .. m_Used
      /\ \A n \in 0 .. m_Used - 1 : all[n + 1] = m_Slots[n]
  BY <1>1, InUseAreSlots
<1>4. r \in LeadState(m_Size)
  <2> DEFINE after == LeadLoop(m_Slots, m_Used, M, one, append, scopes)
  <2>1. LeadRun(m_Size, m_Slots, m_Used, M, one, append, scopes, after)
    BY <1>1, LeadRuns
  <2> HIDE DEF after
  <2> QED  BY <1>1, <2>1 DEF LeadRun
<1>5. CASE ~ one
  <2>1. one = FALSE
    BY <1>5
  <2>2. SplitAt(m_Slots, m_Size, append, hs, os, r, m_Used)
    BY <1>1, <2>1, SplitDone
  <2> HIDE DEF hs, os, hits, First
  <2>3. InUse(r.slots, m_Used) = back \o os
    BY <1>1, <1>4, <2>2, AllMoved
  <2> QED  BY <1>2, <2>1, <2>3
<1>6. CASE one /\ hits = {}
  <2>1. \A i \in 0 .. m_Used - 1 : m_Slots[i].hash \notin M
    <3> SUFFICES ASSUME NEW i \in 0 .. m_Used - 1 PROVE m_Slots[i].hash \notin M
      OBVIOUS
    <3>1. i + 1 \in 1 .. m_Used /\ all[i + 1] = m_Slots[i]
      BY <1>3
    <3> HIDE DEF all
    <3> QED  BY <1>3, <1>6, <3>1
  <2>2. SameBelow(m_Slots, r.slots, m_Size)
    <3>1. m_Used \in 0 .. m_Used /\ ~ (m_Used < m_Used) /\ one = TRUE
      BY <1>1, <1>6
    <3>2. SameBelow(IF m_Used < m_Used THEN RotateDown(m_Slots, 0, m_Used) ELSE m_Slots,
                    r.slots, m_Size)
      BY <1>1, <2>1, <3>1, OneMoved
    <3> QED  BY <3>1, <3>2
  <2>3. InUse(r.slots, m_Used) = all
    BY <1>1, <2>2, SameInUse
  <2>4. \A i \in 1 .. Len(all) : all[i] \in Slot /\ all[i].hash \notin M /\ all[i].hash \in Hashes
    <3> HIDE DEF all
    <3> SUFFICES ASSUME NEW i \in 1 .. Len(all)
                 PROVE  all[i] \in Slot /\ all[i].hash \notin M /\ all[i].hash \in Hashes
      OBVIOUS
    <3>1. all[i] \in Slot
      BY <1>3
    <3> QED  BY <1>3, <1>6, <3>1 DEF Slot
  <2>5. \A i \in 1 .. Len(all) : all[i].hash \in K
    BY <2>4
  <2> HIDE DEF all, K
  <2>6. hs = <<>> /\ os = all
    BY <1>3, <2>4, <2>5, TakenNone, TakenAll
  <2>7. back = <<>>
    <3>1. Reverse(<<>>) = <<>>
      BY DEF Reverse
    <3> QED  BY <2>6, <3>1
  <2>8. <<>> \o all = all
    BY <1>3
  <2> HIDE DEF hs, os, back, hits, First
  <2> QED  BY <1>2, <1>6, <2>3, <2>6, <2>7, <2>8
<1>7. CASE one /\ hits # {}
  <2>1. hits \subseteq Nat
    BY <1>3
  <2>2. First \in hits /\ \A j \in hits : First <= j
    <3> HIDE DEF hits
    <3> QED  BY <1>7, <2>1, LeastOf
  <2> HIDE DEF First
  <2> DEFINE p == First - 1
  <2>3. First \in 1 .. m_Used /\ p \in 0 .. m_Used - 1 /\ p \in 0 .. m_Used /\ p < m_Used /\ p + 1 = First
    BY <1>1, <1>3, <2>2
  <2>4. m_Slots[p].hash \in M
    <3>1. all[p + 1] = m_Slots[p]
      BY <1>3, <2>3
    <3> HIDE DEF all, p
    <3> QED  BY <2>2, <2>3, <3>1
  <2>5. \A i \in 0 .. p - 1 : m_Slots[i].hash \notin M
    <3> SUFFICES ASSUME NEW i \in 0 .. p - 1, m_Slots[i].hash \in M PROVE FALSE
      OBVIOUS
    <3>1. i + 1 \in 1 .. m_Used /\ i \in 0 .. m_Used - 1 /\ ~ (First <= i + 1)
      BY <1>1, <2>3
    <3>2. all[i + 1] = m_Slots[i]
      BY <1>3, <3>1
    <3>3. i + 1 \in hits
      <4> HIDE DEF all
      <4> QED  BY <1>3, <3>1, <3>2
    <3> QED  BY <2>2, <3>1, <3>3
  <2> HIDE DEF p
  <2>6. SameBelow(RotateDown(m_Slots, 0, p), r.slots, m_Size)
    <3>1. one = TRUE
      BY <1>7
    <3>2. SameBelow(IF p < m_Used THEN RotateDown(m_Slots, 0, p) ELSE m_Slots, r.slots, m_Size)
      BY <1>1, <2>3, <2>4, <2>5, <3>1, OneMoved
    <3> QED  BY <2>3, <3>2
  <2>7. InUse(r.slots, m_Used) = InUse(RotateDown(m_Slots, 0, p), m_Used)
    BY <1>1, <2>6, SameInUse
  <2>8. InUse(RotateDown(m_Slots, 0, p), m_Used) = <<all[p + 1]>> \o RemoveAt(all, p + 1)
    BY <1>1, <2>3, FirstInFront
  <2> HIDE DEF all, hits, hs, os
  <2> QED  BY <1>2, <1>7, <2>3, <2>7, <2>8
<1> QED  BY <1>5, <1>6, <1>7

(* A move to the front keeps the order of what it moves, or reverses it,   *)
(* and that of the others, whatever is moved (Signal::LeadIf).             *)
THEOREM LeadsInOrder == Spec => []LeadOrder
<1>1. SlotsInv => LeadOrder
  BY LedAsAsked DEF LeadOrder
<1> QED  BY <1>1, SlotsAlways, PTL

=============================================================================
