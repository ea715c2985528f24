----------------------------- MODULE PluginProofs -----------------------------
(***************************************************************************)
(* Proofs about the registry of signals, for any number of signals and     *)
(* names, any references among them and any depth of emissions: that a     *)
(* signal is where Terminate looks for it, and that Terminate leaves none  *)
(* that keeps objects of the machine.                                      *)
(*                                                                         *)
(* And what has been proved of the four components of Plugin holds of them *)
(* side by side: a step of one is a step of its own specification and      *)
(* leaves the others as they are.                                          *)
(***************************************************************************)
EXTENDS Plugin, CoreLifecycleProofs, CommandManagerProofs, PlayerPoolProofs,
        SequenceTheorems, TLAPS

-----------------------------------------------------------------------------
(* The registry of signals.                                                *)

(* The signals that remain are some of those there were, all that roots    *)
(* refer to, and all that those that remain refer to.                      *)
LEMMA SurvivorsAre ==
  ASSUME NEW exist, NEW roots, NEW keep, roots \subseteq exist,
         \A s \in exist : keep[s] \subseteq exist
  PROVE  /\ Survivors(exist, roots, keep) \subseteq exist
         /\ roots \subseteq Survivors(exist, roots, keep)
         /\ \A s \in Survivors(exist, roots, keep) :
              keep[s] \subseteq Survivors(exist, roots, keep)
<1> DEFINE Fine(set) == set \subseteq roots \cup UNION {keep[s] : s \in set}
           left == Survivors(exist, roots, keep)
<1>1. \A x : x \in left <=> \E set \in SUBSET exist : Fine(set) /\ x \in set
  BY DEF Survivors
<1> HIDE DEF left
<1>2. left \subseteq exist
  BY <1>1
<1>3. roots \subseteq left
  <2> SUFFICES ASSUME NEW x \in roots PROVE x \in left
    OBVIOUS
  <2>1. Fine({x}) /\ {x} \in SUBSET exist /\ x \in {x}
    OBVIOUS
  <2> HIDE DEF Fine
  <2> QED  BY <1>1, <2>1
<1>4. ASSUME NEW s \in left, NEW t \in keep[s] PROVE t \in left
  <2>1. PICK set \in SUBSET exist : Fine(set) /\ s \in set
    BY <1>1
  <2> DEFINE more == set \cup {t}
  <2>2. more \in SUBSET exist
    BY <1>2, <2>1
  <2>3. Fine(more)
    <3> SUFFICES ASSUME NEW x \in more, x \notin roots
                 PROVE  \E y \in more : x \in keep[y]
      OBVIOUS
    <3>1. CASE x = t
      BY <2>1, <3>1
    <3>2. CASE x # t
      BY <2>1, <3>2
    <3> QED  BY <3>1, <3>2
  <2> HIDE DEF Fine
  <2> QED  BY <1>1, <2>2, <2>3
<1> QED  BY <1>2, <1>3, <1>4 DEF left

(* The innermost emission ends.                                            *)
LEMMA LessEmitting ==
  ASSUME NEW e \in Seq(Signals), e # <<>>
  PROVE  /\ Front(e) \in Seq(Signals)
         /\ Len(Front(e)) <= Len(e)
         /\ Range(Front(e)) \subseteq Range(e)
<1>1. Len(e) \in Nat \ {0} /\ DOMAIN e = 1..Len(e) /\ \A i \in 1..Len(e) : e[i] \in Signals
  BY LenProperties, EmptySeq, ElementOfSeq
<1> DEFINE t == Front(e)
<1>2. /\ t \in Seq(Signals) /\ Len(t) = Len(e) - 1
      /\ \A i \in 1..(Len(e) - 1) : t[i] = e[i]
  <2>1. t = SubSeq(e, 1, Len(e) - 1)
    BY DEF Front
  <2>2. \A i \in 1..(Len(e) - 1) : e[i] \in Signals
    BY <1>1
  <2> HIDE DEF t
  <2> QED  BY <1>1, <2>1, <2>2, SubSeqProperties
<1>3. DOMAIN t = 1..(Len(e) - 1)
  BY <1>2, LenProperties
<1> HIDE DEF t
<1>4. Range(t) \subseteq Range(e)
  BY <1>1, <1>2, <1>3 DEF Range
<1> QED  BY <1>1, <1>2, <1>4 DEF t

(* A signal is emitted.                                                    *)
LEMMA MoreEmitting ==
  ASSUME NEW e \in Seq(Signals), NEW s \in Signals
  PROVE  /\ Append(e, s) \in Seq(Signals)
         /\ Len(Append(e, s)) = Len(e) + 1
         /\ Range(Append(e, s)) \subseteq Range(e) \cup {s}
<1>1. /\ Append(e, s) \in Seq(Signals)
      /\ Len(Append(e, s)) = Len(e) + 1
      /\ \A i \in 1..Len(e) : Append(e, s)[i] = e[i]
      /\ Append(e, s)[Len(e) + 1] = s
  BY AppendProperties
<1>2. DOMAIN Append(e, s) = 1..(Len(e) + 1) /\ DOMAIN e = 1..Len(e) /\ Len(e) \in Nat
  BY <1>1, LenProperties
<1>3. \A i \in DOMAIN Append(e, s) : i \in DOMAIN e \/ i = Len(e) + 1
  BY <1>2
<1>4. Range(Append(e, s)) \subseteq Range(e) \cup {s}
  BY <1>1, <1>2, <1>3 DEF Range
<1> QED  BY <1>1, <1>4

-----------------------------------------------------------------------------
(* While scripts run.                                                      *)
LEMMA OpenNow ==
  ASSUME RegistryInv, phase = "open"
  PROVE  /\ RegistryTypeOK /\ OnlyExisting
         /\ DOMAIN s_Signals \subseteq Hashes /\ Range(s_Signals) \subseteq Signals
         /\ named = Range(s_Signals) /\ IsInjective(s_Signals) /\ named \subseteq existing
         /\ \A s \in Signals : s_FreeSignals[s] = IF s \in existing \ named THEN 1 ELSE 0
         /\ existing \subseteq Signals
         /\ reached \subseteq existing /\ Range(s_Signals) \subseteq existing
         /\ Range(emitting) \subseteq existing
         /\ emitting \in Seq(Signals) /\ Len(emitting) \in Nat /\ Len(emitting) <= MaxEmits
         /\ \A h \in DOMAIN s_Signals : s_Signals[h] \in named
<1>1. RegistryTypeOK /\ OnlyExisting /\ OneList
  BY DEF RegistryInv
<1>2. emitting \in Seq(Signals) /\ Len(emitting) \in Nat
  BY <1>1, LenProperties DEF RegistryTypeOK
<1>3. \A h \in DOMAIN s_Signals : s_Signals[h] \in Range(s_Signals)
  BY DEF Range
<1> QED  BY <1>1, <1>2, <1>3 DEF RegistryTypeOK, OnlyExisting, OneList

(* Whatever scripts do to references, where signals are disposed of after. *)
LEMMA DisposesInv ==
  ASSUME RegistryInv, Open, NEW keep,
         s_Signals' = s_Signals \/ \E h : s_Signals' = Restrict(s_Signals, DOMAIN s_Signals \ {h}),
         reached' \subseteq reached,
         emitting' \in Seq(Signals), Len(emitting') <= MaxEmits,
         Range(emitting') \subseteq Range(emitting),
         keep \in [Signals -> SUBSET Signals],
         \A s \in Signals : keep[s] \subseteq keeps[s],
         existing' = Survivors(existing, reached' \cup Range(s_Signals') \cup Range(emitting'),
                               keep),
         keeps' \in [Signals -> SUBSET Signals],
         \A s \in Signals : keeps'[s] = IF s \in existing' THEN keep[s] ELSE {},
         named' = Range(s_Signals') \cap existing',
         s_FreeSignals' \in [Signals -> Nat],
         \A s \in Signals \cap (existing' \cup Range(s_Signals')) :
           s_FreeSignals'[s] = IF s \in existing \ Range(s_Signals') THEN 1 ELSE 0,
         \A s \in Signals \ (existing' \cup Range(s_Signals')) : s_FreeSignals'[s] = 0
  PROVE  RegistryInv'
<1>1. phase = "open" /\ phase' = "open" /\ todo' = todo
  BY DEF Open
<1>2. /\ DOMAIN s_Signals' \subseteq DOMAIN s_Signals /\ Range(s_Signals') \subseteq Range(s_Signals)
      /\ IsInjective(s_Signals')
  <2>1. CASE s_Signals' = s_Signals
    BY <1>1, <2>1, OpenNow
  <2>2. CASE \E h : s_Signals' = Restrict(s_Signals, DOMAIN s_Signals \ {h})
    <3>1. PICK h : s_Signals' = [k \in DOMAIN s_Signals \ {h} |-> s_Signals[k]]
      BY <2>2 DEF Restrict
    <3>2. DOMAIN s_Signals' \subseteq DOMAIN s_Signals
          /\ \A k \in DOMAIN s_Signals' : s_Signals'[k] = s_Signals[k]
      BY <3>1
    <3> QED  BY <1>1, <3>2, OpenNow DEF Range, IsInjective
  <2> QED  BY <2>1, <2>2
<1> DEFINE roots == reached' \cup Range(s_Signals') \cup Range(emitting')
<1>3. /\ existing \in SUBSET Signals /\ roots \subseteq existing /\ Range(s_Signals') \subseteq roots
      /\ \A s \in Signals : keep[s] \subseteq existing
  BY <1>1, <1>2, OpenNow DEF OnlyExisting
<1>4. /\ existing' \subseteq existing /\ roots \subseteq existing'
      /\ \A s \in existing' : keep[s] \subseteq existing'
  <2>1. \A s \in existing : keep[s] \subseteq existing
    BY <1>3
  <2>2. existing' = Survivors(existing, roots, keep)
    OBVIOUS
  <2> HIDE DEF roots
  <2> QED  BY <1>3, <2>1, <2>2, SurvivorsAre
<1>5. /\ keeps' \in [Signals -> SUBSET Signals]
      /\ \A s \in Signals : keeps'[s] \subseteq existing'
      /\ \A s \in Signals \ existing' : keeps'[s] = {}
  BY <1>4
<1>6. /\ s_FreeSignals' \in [Signals -> Nat] /\ named' = Range(s_Signals')
      /\ \A s \in Signals : s_FreeSignals'[s] = IF s \in existing' \ Range(s_Signals') THEN 1 ELSE 0
  BY <1>3, <1>4
<1>7. RegistryTypeOK'
  BY <1>1, <1>2, <1>3, <1>4, <1>5, <1>6, OpenNow DEF RegistryTypeOK
<1>8. OneList'
  BY <1>2, <1>3, <1>4, <1>6 DEF OneList
<1>9. OnlyExisting'
  BY <1>4, <1>5 DEF OnlyExisting
<1>10. NothingKept' /\ Terminating'
  BY <1>1 DEF NothingKept, Terminating
<1> QED  BY <1>7, <1>8, <1>9, <1>10 DEF RegistryInv

LEMMA CreateFreeInv ==
  ASSUME RegistryInv, NEW s \in Signals, CreateFree(s)
  PROVE  RegistryInv'
<1>1. /\ phase = "open" /\ phase' = "open" /\ todo' = todo /\ s \notin existing
      /\ existing' = existing \cup {s} /\ reached' = reached \cup {s}
      /\ s_FreeSignals' = [s_FreeSignals EXCEPT ![s] = @ + 1]
      /\ UNCHANGED <<s_Signals, named, keeps, emitting>>
  BY DEF CreateFree, Open, Push
<1>2. RegistryTypeOK'
  BY <1>1, OpenNow DEF RegistryTypeOK
<1>3. OneList'
  <2>1. s \notin named /\ s_FreeSignals \in [Signals -> Nat]
    BY <1>1, OpenNow DEF RegistryTypeOK
  <2>2. \A t \in Signals : s_FreeSignals'[t] = IF t \in existing' \ named' THEN 1 ELSE 0
    BY <1>1, <2>1, OpenNow
  <2> QED  BY <1>1, <2>2, OpenNow DEF OneList
<1>4. OnlyExisting'
  BY <1>1, OpenNow DEF OnlyExisting
<1>5. NothingKept' /\ Terminating'
  BY <1>1 DEF NothingKept, Terminating
<1> QED  BY <1>2, <1>3, <1>4, <1>5 DEF RegistryInv

LEMMA CreateNamedInv ==
  ASSUME RegistryInv, NEW h \in Hashes, NEW s \in Signals, CreateNamed(h, s)
  PROVE  RegistryInv'
<1>1. /\ phase = "open" /\ phase' = "open" /\ todo' = todo /\ s \notin existing
      /\ h \notin DOMAIN s_Signals
      /\ existing' = existing \cup {s} /\ reached' = reached \cup {s}
      /\ named' = named \cup {s}
      /\ s_Signals' = [k \in DOMAIN s_Signals \cup {h} |-> IF k = h THEN s ELSE s_Signals[k]]
      /\ UNCHANGED <<s_FreeSignals, keeps, emitting>>
  BY DEF CreateNamed, Open
<1>2. /\ DOMAIN s_Signals' = DOMAIN s_Signals \cup {h} /\ s_Signals'[h] = s
      /\ \A k \in DOMAIN s_Signals : s_Signals'[k] = s_Signals[k]
  BY <1>1
<1>3. Range(s_Signals') = Range(s_Signals) \cup {s}
  BY <1>2 DEF Range
<1>4. IsInjective(s_Signals')
  <2>1. \A k \in DOMAIN s_Signals : s_Signals'[k] # s /\ s_Signals'[k] = s_Signals[k]
    BY <1>1, <1>2, OpenNow
  <2>2. IsInjective(s_Signals)
    BY <1>1, OpenNow
  <2> QED  BY <1>2, <2>1, <2>2 DEF IsInjective
<1>5. RegistryTypeOK'
  BY <1>1, <1>2, <1>3, OpenNow DEF RegistryTypeOK
<1>6. OneList'
  <2>1. \A t \in Signals : s_FreeSignals'[t] = IF t \in existing' \ named' THEN 1 ELSE 0
    BY <1>1, OpenNow
  <2> QED  BY <1>1, <1>3, <1>4, <2>1, OpenNow DEF OneList
<1>7. OnlyExisting'
  BY <1>1, <1>3, OpenNow DEF OnlyExisting
<1>8. NothingKept' /\ Terminating'
  BY <1>1 DEF NothingKept, Terminating
<1> QED  BY <1>5, <1>6, <1>7, <1>8 DEF RegistryInv

(* Nothing goes, and what is referred to exists.                           *)
LEMMA ReferringInv ==
  ASSUME RegistryInv, Open, UNCHANGED <<s_Signals, s_FreeSignals, named, existing>>,
         reached' \subseteq existing,
         emitting' \in Seq(Signals), Len(emitting') <= MaxEmits,
         Range(emitting') \subseteq existing,
         keeps' \in [Signals -> SUBSET Signals],
         \A s \in Signals : keeps'[s] \subseteq existing,
         \A s \in Signals \ existing : keeps'[s] = {}
  PROVE  RegistryInv'
<1>1. phase = "open" /\ phase' = "open" /\ todo' = todo
  BY DEF Open
<1>2. RegistryTypeOK'
  BY <1>1, OpenNow DEF RegistryTypeOK
<1>3. OneList'
  BY <1>1 DEF RegistryInv, OneList
<1>4. OnlyExisting'
  BY <1>1, OpenNow DEF OnlyExisting
<1>5. NothingKept' /\ Terminating'
  BY <1>1 DEF NothingKept, Terminating
<1> QED  BY <1>2, <1>3, <1>4, <1>5 DEF RegistryInv

LEMMA FetchInv ==
  ASSUME RegistryInv, NEW h \in Hashes, Fetch(h)
  PROVE  RegistryInv'
<1>1. phase = "open" /\ Open /\ reached' \subseteq existing
      /\ UNCHANGED <<s_Signals, s_FreeSignals, named, existing, keeps, emitting>>
  BY OpenNow DEF Fetch, Open
<1> QED  BY <1>1, OpenNow, ReferringInv DEF RegistryTypeOK, OnlyExisting

LEMMA KeepInv ==
  ASSUME RegistryInv, NEW s \in Signals, NEW t \in Signals, Keep(s, t)
  PROVE  RegistryInv'
<1>1. /\ phase = "open" /\ Open /\ s \in reached /\ t \in reached
      /\ keeps' = [keeps EXCEPT ![s] = @ \cup {t}]
      /\ UNCHANGED <<s_Signals, s_FreeSignals, named, existing, reached, emitting>>
  BY DEF Keep, Open
<1>2. /\ keeps \in [Signals -> SUBSET Signals] /\ \A r \in Signals : keeps[r] \subseteq existing
      /\ \A r \in Signals \ existing : keeps[r] = {}
      /\ s \in existing /\ t \in existing
  BY <1>1, OpenNow DEF RegistryTypeOK, OnlyExisting
<1>3. /\ keeps' \in [Signals -> SUBSET Signals]
      /\ \A r \in Signals : keeps'[r] = IF r = s THEN keeps[r] \cup {t} ELSE keeps[r]
  BY <1>1, <1>2
<1>4. /\ \A r \in Signals : keeps'[r] \subseteq existing
      /\ \A r \in Signals \ existing : keeps'[r] = {}
  BY <1>2, <1>3
<1> QED  BY <1>1, <1>3, <1>4, OpenNow, ReferringInv

LEMMA EmitSignalInv ==
  ASSUME RegistryInv, NEW s \in Signals, EmitSignal(s)
  PROVE  RegistryInv'
<1>1. /\ phase = "open" /\ Open /\ s \in reached /\ Len(emitting) < MaxEmits
      /\ emitting' = Append(emitting, s)
      /\ UNCHANGED <<s_Signals, s_FreeSignals, named, existing, reached, keeps>>
  BY DEF EmitSignal, Open
<1>2. /\ emitting' \in Seq(Signals) /\ Len(emitting') <= MaxEmits
      /\ Range(emitting') \subseteq existing
  BY <1>1, OpenNow, MoreEmitting, RegistryAssumption
<1> QED  BY <1>1, <1>2, OpenNow, ReferringInv DEF RegistryTypeOK, OnlyExisting

LEMMA RemoveSignalInv ==
  ASSUME RegistryInv, NEW h \in Hashes, RemoveSignal(h)
  PROVE  RegistryInv'
<1> DEFINE g == s_Signals[h]
           left == existing'
           names == named \ {g}
<1>1. /\ phase = "open" /\ Open /\ h \in DOMAIN s_Signals
      /\ s_Signals' = Restrict(s_Signals, DOMAIN s_Signals \ {h})
      /\ reached' = reached /\ emitting' = emitting
  BY DEF RemoveSignal, Open
<1>2. /\ existing' = Survivors(existing, reached' \cup Range(s_Signals') \cup Range(emitting'),
                               keeps)
      /\ keeps' = [s \in Signals |-> IF s \in existing' THEN keeps[s] ELSE {}]
      /\ named' = names \cap existing'
      /\ s_FreeSignals' = [s \in Signals |-> IF s \in existing' \cup names
                                               THEN Push(s_FreeSignals, g)[s] ELSE 0]
  BY DEF RemoveSignal, Dispose
<1>3. Range(s_Signals') = names
  <2>1. \A k \in DOMAIN s_Signals : s_Signals[k] = g => k = h
    BY <1>1, OpenNow DEF IsInjective
  <2>2. DOMAIN s_Signals' = DOMAIN s_Signals \ {h}
        /\ \A k \in DOMAIN s_Signals' : s_Signals'[k] = s_Signals[k]
    BY <1>1 DEF Restrict
  <2>3. named = Range(s_Signals)
    BY <1>1, OpenNow
  <2> QED  BY <1>1, <2>1, <2>2, <2>3 DEF Range
<1>4. /\ keeps \in [Signals -> SUBSET Signals] /\ s_FreeSignals \in [Signals -> Nat]
      /\ g \in named /\ g \in existing /\ g \in Signals
      /\ \A s \in Signals : s_FreeSignals[s] = IF s \in existing \ named THEN 1 ELSE 0
  BY <1>1, OpenNow DEF RegistryTypeOK
<1>5. /\ Push(s_FreeSignals, g) \in [Signals -> Nat]
      /\ \A s \in Signals : Push(s_FreeSignals, g)[s] = IF s \in existing \ names THEN 1 ELSE 0
  BY <1>4 DEF Push
<1> HIDE DEF g, names
<1>6. /\ keeps' \in [Signals -> SUBSET Signals]
      /\ \A s \in Signals : keeps'[s] = IF s \in existing' THEN keeps[s] ELSE {}
  BY <1>2, <1>4
<1>7. /\ s_FreeSignals' \in [Signals -> Nat]
      /\ \A s \in Signals \cap (existing' \cup names) :
           s_FreeSignals'[s] = IF s \in existing \ names THEN 1 ELSE 0
      /\ \A s \in Signals \ (existing' \cup names) : s_FreeSignals'[s] = 0
  BY <1>2, <1>5
<1>8. emitting' \in Seq(Signals) /\ Len(emitting') <= MaxEmits
  BY <1>1, OpenNow
<1> QED  BY <1>1, <1>2, <1>3, <1>4, <1>6, <1>7, <1>8, DisposesInv

(* Where the registry stays, and references go.                            *)
LEMMA DroppingInv ==
  ASSUME RegistryInv, Open, NEW keep,
         s_Signals' = s_Signals,
         reached' \subseteq reached,
         emitting' \in Seq(Signals), Len(emitting') <= MaxEmits,
         Range(emitting') \subseteq Range(emitting),
         keep \in [Signals -> SUBSET Signals],
         \A s \in Signals : keep[s] \subseteq keeps[s],
         Dispose(s_FreeSignals, named, keep)
  PROVE  RegistryInv'
<1>1. /\ existing' = Survivors(existing, reached' \cup Range(s_Signals') \cup Range(emitting'),
                               keep)
      /\ keeps' = [s \in Signals |-> IF s \in existing' THEN keep[s] ELSE {}]
      /\ named' = named \cap existing'
      /\ s_FreeSignals' = [s \in Signals |-> IF s \in existing' \cup named
                                               THEN s_FreeSignals[s] ELSE 0]
  BY DEF Dispose
<1>2. phase = "open" /\ s_FreeSignals \in [Signals -> Nat]
  BY OpenNow DEF Open, RegistryTypeOK
<1>3. /\ named = Range(s_Signals')
      /\ \A s \in Signals : s_FreeSignals[s] = IF s \in existing \ named THEN 1 ELSE 0
  BY <1>2, OpenNow
<1>4. /\ keeps' \in [Signals -> SUBSET Signals]
      /\ \A s \in Signals : keeps'[s] = IF s \in existing' THEN keep[s] ELSE {}
  BY <1>1
<1>5. /\ s_FreeSignals' \in [Signals -> Nat]
      /\ \A s \in Signals \cap (existing' \cup named) :
           s_FreeSignals'[s] = IF s \in existing \ named THEN 1 ELSE 0
      /\ \A s \in Signals \ (existing' \cup named) : s_FreeSignals'[s] = 0
  BY <1>1, <1>2, <1>3
<1> QED  BY <1>1, <1>3, <1>4, <1>5, DisposesInv

LEMMA LetGoInv ==
  ASSUME RegistryInv, NEW s \in Signals, NEW those, LetGo(s, those)
  PROVE  RegistryInv'
<1> DEFINE keep == [keeps EXCEPT ![s] = @ \ those]
<1>1. phase = "open" /\ keeps \in [Signals -> SUBSET Signals]
  BY OpenNow DEF LetGo, Open, RegistryTypeOK
<1>2. keep \in [Signals -> SUBSET Signals] /\ \A r \in Signals : keep[r] \subseteq keeps[r]
  BY <1>1
<1>3. /\ Open /\ UNCHANGED <<s_Signals, reached, emitting>>
      /\ Dispose(s_FreeSignals, named, keep)
  BY DEF LetGo
<1> HIDE DEF keep
<1> QED  BY <1>1, <1>2, <1>3, OpenNow, DroppingInv

LEMMA DropReferenceInv ==
  ASSUME RegistryInv, NEW s \in Signals, DropReference(s)
  PROVE  RegistryInv'
<1>1. phase = "open" /\ keeps \in [Signals -> SUBSET Signals]
  BY OpenNow DEF DropReference, Open, RegistryTypeOK
<1>2. /\ Open /\ UNCHANGED <<s_Signals, emitting>> /\ reached' \subseteq reached
      /\ Dispose(s_FreeSignals, named, keeps)
  BY DEF DropReference
<1> QED  BY <1>1, <1>2, OpenNow, DroppingInv

LEMMA EmittedInv ==
  ASSUME RegistryInv, Emitted
  PROVE  RegistryInv'
<1>1. phase = "open" /\ keeps \in [Signals -> SUBSET Signals]
  BY OpenNow DEF Emitted, Open, RegistryTypeOK
<1>2. /\ Open /\ UNCHANGED <<s_Signals, reached>>
      /\ emitting # <<>> /\ emitting' = Front(emitting)
      /\ Dispose(s_FreeSignals, named, keeps)
  BY DEF Emitted
<1>3. /\ emitting' \in Seq(Signals) /\ Len(emitting') \in Nat /\ Len(emitting') <= Len(emitting)
      /\ Range(emitting') \subseteq Range(emitting)
  BY <1>1, <1>2, OpenNow, LessEmitting, LenProperties
<1>4. Len(emitting') <= MaxEmits
  BY <1>1, <1>3, OpenNow, RegistryAssumption
<1> QED  BY <1>1, <1>2, <1>3, <1>4, DroppingInv

-----------------------------------------------------------------------------
(* While Terminate runs.                                                   *)

LEMMA NothingInRange == Range(<<>>) = {}
BY DEF Range

(* The named signals are cleared, and lose their names.                    *)
LEMMA TerminateNamedInv ==
  ASSUME RegistryInv, TerminateNamed
  PROVE  RegistryInv'
<1> DEFINE those == Range(s_Signals)
           keep  == [s \in Signals |-> IF s \in those THEN {} ELSE keeps[s]]
<1>1. /\ phase = "open" /\ emitting = <<>> /\ s_Signals' = <<>>
      /\ reached' = reached /\ emitting' = emitting
      /\ phase' = "free" /\ todo' = s_FreeSignals'
      /\ existing' = Survivors(existing, reached' \cup Range(s_Signals') \cup Range(emitting'),
                               keep)
      /\ keeps' = [s \in Signals |-> IF s \in existing' THEN keep[s] ELSE {}]
      /\ named' = (named \ those) \cap existing'
      /\ s_FreeSignals' = [s \in Signals |-> IF s \in existing' \cup (named \ those)
                                               THEN s_FreeSignals[s] ELSE 0]
  BY DEF TerminateNamed, Dispose
<1>2. /\ those = named /\ existing \subseteq Signals /\ reached \subseteq existing
      /\ keeps \in [Signals -> SUBSET Signals] /\ s_FreeSignals \in [Signals -> Nat]
      /\ \A s \in Signals : keeps[s] \subseteq existing
      /\ \A s \in Signals : s_FreeSignals[s] = IF s \in existing \ named THEN 1 ELSE 0
  BY <1>1, OpenNow DEF RegistryTypeOK, OnlyExisting
<1>3. /\ keep \in [Signals -> SUBSET Signals] /\ \A s \in Signals : keep[s] \subseteq existing
      /\ \A s \in named \cap Signals : keep[s] = {}
  BY <1>2
<1> HIDE DEF keep, those
<1>4. existing' = Survivors(existing, reached, keep)
  <2>1. reached' \cup Range(s_Signals') \cup Range(emitting') = reached
    BY <1>1, NothingInRange
  <2> QED  BY <1>1, <2>1
<1>5. /\ existing' \subseteq existing /\ reached \subseteq existing'
      /\ \A s \in existing' : keep[s] \subseteq existing'
  <2>1. \A s \in existing : keep[s] \subseteq existing
    BY <1>2, <1>3
  <2> QED  BY <1>2, <1>4, <2>1, SurvivorsAre
<1>6. /\ keeps' \in [Signals -> SUBSET Signals]
      /\ \A s \in Signals : keeps'[s] \subseteq existing'
      /\ \A s \in Signals \ existing' : keeps'[s] = {}
  BY <1>1, <1>3, <1>5
<1>7. named' = {} /\ s_FreeSignals' \in [Signals -> Nat]
  BY <1>1, <1>2
<1>8. \A s \in existing' : todo'[s] = 0 => keeps'[s] = {}
  <2> SUFFICES ASSUME NEW s \in existing', todo'[s] = 0 PROVE keeps'[s] = {}
    OBVIOUS
  <2>1. s \in Signals /\ s \in existing /\ s_FreeSignals[s] = 0
    BY <1>1, <1>2, <1>5
  <2>2. s \in named
    BY <1>2, <2>1
  <2> QED  BY <1>1, <1>3, <2>1, <2>2
<1>9. RegistryTypeOK'
  <2>1. DOMAIN s_Signals' \subseteq Hashes /\ Range(s_Signals') \subseteq Signals
    BY <1>1, NothingInRange
  <2>2. existing' \subseteq Signals /\ reached' \subseteq Signals /\ named' \subseteq Signals
    BY <1>1, <1>2, <1>5, <1>7
  <2> QED  BY <1>1, <1>6, <1>7, <2>1, <2>2, OpenNow DEF RegistryTypeOK
<1>10. OnlyExisting'
  BY <1>1, <1>5, <1>6, NothingInRange DEF OnlyExisting
<1>11. OneList' /\ NothingKept' /\ Terminating'
  BY <1>1, <1>7, <1>8 DEF OneList, NothingKept, Terminating
<1> QED  BY <1>9, <1>10, <1>11 DEF RegistryInv

(* One of the others is cleared, if it exists.                             *)
LEMMA TerminateFreeInv ==
  ASSUME RegistryInv, NEW g \in Signals, TerminateFree(g)
  PROVE  RegistryInv'
<1>1. /\ RegistryTypeOK /\ OnlyExisting /\ Terminating /\ phase = "free" /\ todo[g] > 0
      /\ UNCHANGED <<s_Signals, reached, emitting>>
      /\ named = {} /\ s_Signals = <<>> /\ emitting = <<>>
  BY DEF RegistryInv, TerminateFree, Terminating
<1>2. CASE g \notin existing
  <2>1. UNCHANGED <<s_FreeSignals, named, existing, keeps>>
    BY <1>2 DEF TerminateFree
  <2>2. phase' = "undefined" /\ UNCHANGED todo
    BY <1>2, <2>1 DEF TerminateFree
  <2> QED
    BY <1>1, <2>1, <2>2
    DEF RegistryInv, RegistryTypeOK, OneList, NothingKept, OnlyExisting, Terminating
<1>3. CASE g \in existing
  <2> DEFINE keep == [keeps EXCEPT ![g] = {}]
  <2>0. \/ g \in existing' /\ phase' = phase /\ todo' = [todo EXCEPT ![g] = @ - 1]
        \/ g \notin existing' /\ phase' = "undefined" /\ todo' = todo
    BY DEF TerminateFree
  <2>1. /\ existing' = Survivors(existing, reached' \cup Range(s_Signals') \cup Range(emitting'),
                                 keep)
        /\ keeps' = [s \in Signals |-> IF s \in existing' THEN keep[s] ELSE {}]
        /\ named' = named \cap existing'
        /\ s_FreeSignals' = [s \in Signals |-> IF s \in existing' \cup named
                                                 THEN s_FreeSignals[s] ELSE 0]
    BY <1>3 DEF TerminateFree, Dispose
  <2>2. /\ existing \subseteq Signals /\ reached \subseteq existing
        /\ keeps \in [Signals -> SUBSET Signals] /\ s_FreeSignals \in [Signals -> Nat]
        /\ todo \in [Signals -> Nat]
        /\ \A s \in Signals : keeps[s] \subseteq existing
        /\ \A s \in existing : todo[s] = 0 => keeps[s] = {}
    BY <1>1 DEF RegistryTypeOK, OnlyExisting, Terminating
  <2>3. /\ keep \in [Signals -> SUBSET Signals] /\ keep[g] = {}
        /\ \A s \in Signals : keep[s] \subseteq keeps[s]
    BY <2>2
  <2> HIDE DEF keep
  <2>4. existing' = Survivors(existing, reached, keep)
    <3>1. reached' \cup Range(s_Signals') \cup Range(emitting') = reached
      BY <1>1, NothingInRange
    <3> QED  BY <2>1, <3>1
  <2>5. /\ existing' \subseteq existing /\ reached \subseteq existing'
        /\ \A s \in existing' : keep[s] \subseteq existing'
    <3>1. \A s \in existing : keep[s] \subseteq existing
      BY <2>2, <2>3
    <3> QED  BY <2>2, <2>4, <3>1, SurvivorsAre
  <2>6. /\ keeps' \in [Signals -> SUBSET Signals]
        /\ \A s \in Signals : keeps'[s] \subseteq existing'
        /\ \A s \in Signals \ existing' : keeps'[s] = {}
    BY <2>1, <2>3, <2>5
  <2>7. named' = {} /\ s_FreeSignals' \in [Signals -> Nat]
    BY <1>1, <2>1, <2>2
  <2>8. todo' \in [Signals -> Nat] /\ \A s \in Signals : s # g => todo'[s] = todo[s]
    <3>1. todo[g] - 1 \in Nat
      BY <1>1, <2>2
    <3> QED  BY <2>0, <2>2, <3>1
  <2>9. \A s \in existing' : todo'[s] = 0 => keeps'[s] = {}
    <3> SUFFICES ASSUME NEW s \in existing', todo'[s] = 0 PROVE keeps'[s] = {}
      OBVIOUS
    <3>1. s \in Signals /\ s \in existing /\ keeps'[s] = keep[s]
      BY <2>1, <2>2, <2>5
    <3>2. CASE s = g
      BY <2>3, <3>1, <3>2
    <3>3. CASE s # g
      BY <2>2, <2>3, <2>8, <3>1, <3>3
    <3> QED  BY <3>2, <3>3
  <2>10. RegistryTypeOK'
    <3>1. existing' \subseteq Signals
      BY <2>2, <2>5
    <3> QED  BY <1>1, <2>0, <2>1, <2>6, <2>7, <2>8, <3>1 DEF RegistryTypeOK
  <2>11. OnlyExisting'
    BY <1>1, <2>5, <2>6, NothingInRange DEF OnlyExisting
  <2>12. OneList' /\ NothingKept' /\ Terminating'
    BY <1>1, <2>0, <2>7, <2>9 DEF OneList, NothingKept, Terminating
  <2> QED  BY <2>10, <2>11, <2>12 DEF RegistryInv
<1> QED  BY <1>2, <1>3

LEMMA TerminateEndsInv ==
  ASSUME RegistryInv, TerminateEnds
  PROVE  RegistryInv'
<1>1. /\ phase = "free" /\ phase' = "closing" /\ s_FreeSignals' = Nowhere
      /\ \A s \in Signals : todo[s] = 0
      /\ UNCHANGED <<s_Signals, named, existing, reached, keeps, emitting, todo>>
  BY DEF TerminateEnds, Nowhere
<1>2. RegistryTypeOK /\ OnlyExisting /\ Terminating
  BY DEF RegistryInv
<1>3. Nowhere \in [Signals -> Nat]
  BY DEF Nowhere
<1>4. NothingKept'
  BY <1>1, <1>2 DEF NothingKept, Terminating, RegistryTypeOK
<1> QED
  BY <1>1, <1>2, <1>3, <1>4
  DEF RegistryInv, RegistryTypeOK, OneList, OnlyExisting, Terminating

LEMMA CloseMachineInv ==
  ASSUME RegistryInv, CloseMachine
  PROVE  RegistryInv'
<1>1. /\ phase = "closing" /\ phase' = "open"
      /\ reached' = {} /\ existing' = {} /\ named' = {} /\ keeps' = [s \in Signals |-> {}]
      /\ UNCHANGED <<s_Signals, s_FreeSignals, emitting, todo>>
  BY DEF CloseMachine
<1>2. /\ RegistryTypeOK /\ s_Signals = <<>> /\ emitting = <<>>
      /\ \A s \in Signals : s_FreeSignals[s] = 0
  BY <1>1 DEF RegistryInv, Terminating, Nowhere
<1>3. RegistryTypeOK' /\ OnlyExisting'
  BY <1>1, <1>2, NothingInRange DEF RegistryTypeOK, OnlyExisting
<1>4. OneList'
  BY <1>1, <1>2, NothingInRange DEF OneList, IsInjective
<1>5. NothingKept' /\ Terminating'
  BY <1>1 DEF NothingKept, Terminating
<1> QED  BY <1>3, <1>4, <1>5 DEF RegistryInv

-----------------------------------------------------------------------------
LEMMA RegistryInitInv == RegistryInit => RegistryInv
<1> SUFFICES ASSUME RegistryInit PROVE RegistryInv
  OBVIOUS
<1>1. RegistryTypeOK
  <2>1. emitting \in Seq(Signals) /\ Len(emitting) <= MaxEmits
    BY RegistryAssumption DEF RegistryInit
  <2> QED  BY <2>1, NothingInRange DEF RegistryInit, RegistryTypeOK, Nowhere
<1>2. OneList
  BY NothingInRange DEF RegistryInit, OneList, IsInjective, Nowhere
<1>3. OnlyExisting
  BY NothingInRange DEF RegistryInit, OnlyExisting
<1>4. NothingKept /\ Terminating
  BY DEF RegistryInit, NothingKept, Terminating
<1> QED  BY <1>1, <1>2, <1>3, <1>4 DEF RegistryInv

LEMMA RegistryUnchanged ==
  ASSUME RegistryInv, UNCHANGED registryVars
  PROVE  RegistryInv'
BY DEF registryVars, RegistryInv, RegistryTypeOK, OneList, NothingKept, OnlyExisting, Terminating

LEMMA RegistryNextInv ==
  ASSUME RegistryInv, RegistryNext
  PROVE  RegistryInv'
<1>1. ASSUME NEW s \in Signals, CreateFree(s) \/ DropReference(s) \/ EmitSignal(s)
      PROVE  RegistryInv'
  BY <1>1, CreateFreeInv, DropReferenceInv, EmitSignalInv
<1>2. ASSUME NEW h \in Hashes, NEW s \in Signals, CreateNamed(h, s)
      PROVE  RegistryInv'
  BY <1>2, CreateNamedInv
<1>3. ASSUME NEW h \in Hashes, Fetch(h) \/ RemoveSignal(h)
      PROVE  RegistryInv'
  BY <1>3, FetchInv, RemoveSignalInv
<1>4. ASSUME NEW s \in Signals, NEW t \in Signals, Keep(s, t)
      PROVE  RegistryInv'
  BY <1>4, KeepInv
<1>5. ASSUME NEW s \in Signals, NEW those \in SUBSET keeps[s], LetGo(s, those)
      PROVE  RegistryInv'
  BY <1>5, LetGoInv
<1>6. ASSUME NEW s \in Signals, TerminateFree(s)
      PROVE  RegistryInv'
  BY <1>6, TerminateFreeInv
<1> QED
  BY <1>1, <1>2, <1>3, <1>4, <1>5, <1>6, EmittedInv, TerminateNamedInv, TerminateEndsInv,
     CloseMachineInv
  DEF RegistryNext

(* In every state the registry can be in: the lists, the references and    *)
(* how far Terminate is fit together.                                      *)
THEOREM RegistryInvariance == RegistrySpec => []RegistryInv
<1>1. RegistryInv /\ [RegistryNext]_registryVars => RegistryInv'
  BY RegistryNextInv, RegistryUnchanged
<1> QED  BY <1>1, RegistryInitInv, PTL DEF RegistrySpec

(* Every variable of the registry keeps its type; emissions nest no deeper *)
(* than the bound.                                                         *)
THEOREM RegistryTypeCorrect == RegistrySpec => []RegistryTypeOK
<1>1. RegistryInv => RegistryTypeOK
  BY DEF RegistryInv
<1> QED  BY <1>1, RegistryInvariance, PTL

(* A signal that exists is in the registry or on the list, once, and no    *)
(* other is: however names and references come and go, under emissions too.*)
THEOREM OneListHolds == RegistrySpec => []OneList
<1>1. RegistryInv => OneList
  BY DEF RegistryInv
<1> QED  BY <1>1, RegistryInvariance, PTL

(* Terminate leaves no signal that keeps objects of the machine, whichever *)
(* of them are destroyed as others are cleared.                            *)
THEOREM NothingKeptHolds == RegistrySpec => []NothingKept
<1>1. RegistryInv => NothingKept
  BY DEF RegistryInv
<1> QED  BY <1>1, RegistryInvariance, PTL

-----------------------------------------------------------------------------
(* The components side by side.                                            *)

LEMMA PluginInits ==
  ASSUME Init
  PROVE  CoreInit /\ CommandInit /\ RegistryInit /\ PlayerInit
BY DEF Init

(* One component moves, or none does.                                      *)
LEMMA PluginStep ==
  ASSUME [Next]_pluginVars
  PROVE  /\ [CoreNext]_coreVars
         /\ [CommandNext]_commandVars
         /\ [RegistryNext]_registryVars
         /\ [PlayerNext]_playerVars
<1>1. CASE CoreMoves(CoreNext)
  <2>1. CoreNext /\ UNCHANGED <<commandVars, registryVars, playerVars>>
    BY <1>1 DEF CoreMoves
  <2> QED  BY <2>1
<1>2. CASE CommandsMove(CommandNext)
  <2>1. CommandNext /\ UNCHANGED <<coreVars, registryVars, playerVars>>
    BY <1>2 DEF CommandsMove
  <2> QED  BY <2>1
<1>3. CASE SignalsMove(RegistryNext)
  <2>1. RegistryNext /\ UNCHANGED <<coreVars, commandVars, playerVars>>
    BY <1>3 DEF SignalsMove
  <2> QED  BY <2>1
<1>4. CASE PlayersMove(PlayerNext)
  <2>1. PlayerNext /\ UNCHANGED <<coreVars, commandVars, registryVars>>
    BY <1>4 DEF PlayersMove
  <2> QED  BY <2>1
<1>5. CASE UNCHANGED pluginVars
  BY <1>5 DEF pluginVars
<1> QED  BY <1>1, <1>2, <1>3, <1>4, <1>5 DEF Next

(* The behaviours that Plugin.cfg checks are behaviours of each component's*)
(* own specification, so that each theorem about one of them is about what *)
(* the run shows.                                                          *)
THEOREM PluginRefines == Spec => CoreSpec /\ CommandSpec /\ RegistrySpec /\ PlayerSpec
<1> QED
  BY PluginInits, PluginStep, PTL DEF Spec, CoreSpec, CommandSpec, RegistrySpec, PlayerSpec

(* The states of the scripts' life, of the commands, of the registry and of*)
(* the players keep to their types, the levels of Execute to their number  *)
(* and nested calls to their depth.                                        *)
THEOREM PluginTypeCorrect == Spec => []PluginTypeOK
<1>1. TypeOK /\ CommandTypeOK /\ RegistryTypeOK /\ PlayerTypeOK => PluginTypeOK
  BY DEF PluginTypeOK
<1> QED  BY <1>1, PluginRefines, CoreTypeCorrect, CommandTypeCorrect, RegistryTypeCorrect,
            PlayerTypeCorrect, PTL
=============================================================================
