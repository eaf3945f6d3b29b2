--------------------------- MODULE IsaSwizzleProofs ---------------------------
(***************************************************************************)
(* Proofs about IsaSwizzle, for any set of classes and any bound on the    *)
(* history.                                                                *)
(***************************************************************************)
EXTENDS MCIsaSwizzle, SequenceTheorems, TLAPS

\* The inductive invariant: the type, the bound the guard of SetClass keeps,
\* and the class at the bottom of the stack.
IInv ==
  /\ TypeOK
  /\ Len(classes) <= MaxHistory
  /\ BottomNotOriginal

\* What removeLastObject leaves of a stack, and lastObject takes from it.
LEMMA FrontAndLast ==
  ASSUME NEW S, NEW s \in Seq(S), s # <<>>
  PROVE  /\ Front(s) \in Seq(S)
         /\ Len(Front(s)) = Len(s) - 1
         /\ \A i \in 1 .. Len(s) - 1 : Front(s)[i] = s[i]
         /\ Last(s) \in S
<1>1. Len(s) \in Nat \ {0}
  OBVIOUS
<1>2. Last(s) \in S
  BY <1>1 DEF Last
<1> DEFINE n == Len(s) - 1
<1>3. 1 \in 1 .. Len(s) + 1 /\ n \in 1 - 1 .. Len(s)
  BY <1>1
<1>4. /\ SubSeq(s, 1, n) \in Seq(S)
      /\ Len(SubSeq(s, 1, n)) = IF 1 <= n THEN n - 1 + 1 ELSE 0
      /\ \A i \in 1 .. n - 1 + 1 : SubSeq(s, 1, n)[i] = s[1 + i - 1]
  BY <1>3, SubSeqProperties
<1>5. Front(s) = SubSeq(s, 1, n)
  BY DEF Front
<1>6. (IF 1 <= n THEN n - 1 + 1 ELSE 0) = n
  <2>1. n \in Nat
    BY <1>1
  <2> HIDE DEF n
  <2>2. CASE 1 <= n
    BY <2>1, <2>2
  <2>3. CASE ~ (1 <= n)
    BY <2>1, <2>3
  <2> QED BY <2>2, <2>3
<1>7. \A i \in 1 .. n : i \in 1 .. n - 1 + 1 /\ 1 + i - 1 = i
  BY <1>1
<1> HIDE DEF n
<1>8. /\ Front(s) \in Seq(S) /\ Len(Front(s)) = n
      /\ \A i \in 1 .. n : Front(s)[i] = s[i]
  BY <1>4, <1>5, <1>6, <1>7
<1> QED BY <1>2, <1>8 DEF n

\* The state of an address nobody has used satisfies the invariant.
LEMMA InitIInv == Init => IInv
  BY MaxHistoryAssumption DEF Init, IInv, TypeOK, BottomNotOriginal, HasInfos, Live

\* Every method of the category preserves the invariant.
LEMMA NextIInv == IInv /\ [Next]_vars => IInv'
<1> USE MaxHistoryAssumption, NilAssumption, ReportedAssumption
<1> SUFFICES ASSUME IInv, [Next]_vars PROVE IInv'
  OBVIOUS
<1> USE DEF IInv, TypeOK, HasInfos, Live, BottomNotOriginal
<1>1. ASSUME NEW c \in Class, Alloc(c) PROVE IInv'
  BY <1>1 DEF Alloc
<1>2. ASSUME NEW c \in Class, SetClass(c) PROVE IInv'
  <2> DEFINE orig == IF HasInfos THEN original ELSE Reported[isa]
  <2>1. /\ isa \in Class /\ orig \in Class
        /\ original' = orig /\ isa' = c
        /\ Len(classes) < MaxHistory
        /\ classes' = IF Pushed(orig) THEN Append(classes, isa) ELSE classes
    BY <1>2 DEF SetClass
  <2>2. classes' \in Seq(Class) /\ Len(classes') <= MaxHistory
    BY <2>1
  <2>3. classes' # <<>> => classes'[1] # original'
    <3>1. CASE classes = <<>>
      BY <2>1, <3>1 DEF Pushed
    <3>2. CASE classes # <<>>
      <4>1. HasInfos /\ orig = original
        BY <3>2
      <4>2. classes'[1] = classes[1]
        BY <2>1, <3>2
      <4> QED BY <4>1, <4>2, <3>2, <2>1
    <3> QED BY <3>1, <3>2
  <2> QED BY <2>1, <2>2, <2>3
<1>3. CASE Dealloc
  BY <1>3 DEF Dealloc
<1>4. CASE RestoreClass
  <2>1. CASE classes = <<>>
    BY <1>4, <2>1 DEF RestoreClass
  <2>2. CASE classes # <<>>
    <3>1. /\ isa' = Last(classes)
          /\ classes' = Front(classes)
          /\ original' = original
      BY <1>4, <2>2 DEF RestoreClass
    <3>2. /\ classes' \in Seq(Class) /\ Len(classes') = Len(classes) - 1
          /\ isa' \in Class
          /\ \A i \in 1 .. Len(classes) - 1 : classes'[i] = classes[i]
      BY <3>1, <2>2, FrontAndLast
    <3>3. classes' # <<>> => classes'[1] = classes[1]
      BY <3>2
    <3> QED BY <3>1, <3>2, <3>3, <1>4, <2>2 DEF RestoreClass
  <2> QED BY <2>1, <2>2
<1>5. CASE RestoreOriginalClass
  BY <1>5 DEF RestoreOriginalClass
<1>6. CASE UNCHANGED vars
  BY <1>6 DEF vars
<1> QED BY <1>1, <1>2, <1>3, <1>4, <1>5, <1>6 DEF Next

\* The three facts together.
LEMMA IInvHolds == Spec => []IInv
  BY InitIInv, NextIInv, PTL DEF Spec

\* The state is well typed and no dictionary outlives its object (line 57).
THEOREM TypeCorrect == Spec => []TypeOK
<1>1. IInv => TypeOK
  BY DEF IInv
<1> QED BY <1>1, IInvHolds, PTL

\* setClass: (lines 98-101) never puts the original class at the bottom of
\* the stack.
THEOREM BottomCorrect == Spec => []BottomNotOriginal
<1>1. IInv => BottomNotOriginal
  BY DEF IInv
<1> QED BY <1>1, IInvHolds, PTL

-------------------------------------------------------------------------------

\* The mapping at each depth, in terms of the stack.
LEMMA MappingAt ==
  ASSUME IInv
  PROVE  /\ DOMAIN UndoMapping = 0 .. MaxHistory + 1
         /\ UndoMapping[0] = isa
         /\ \A n \in 1 .. Len(classes) : UndoMapping[n] = classes[Len(classes) - n + 1]
         /\ \A n \in Len(classes) + 1 .. MaxHistory + 1 : UndoMapping[n] = OriginalClass
  BY MaxHistoryAssumption DEF IInv, TypeOK, UndoMapping

-------------------------------------------------------------------------------

\* As long as no setClass: gives the original class, the stack holds other
\* classes only, and the object has its original class only when the stack is
\* empty.
OnlyForeign ==
  foreign /\ HasInfos => /\ \A i \in 1 .. Len(classes) : classes[i] # original
                         /\ isa = original => classes = <<>>

\* A step of the instance is a step of the category.
LEMMA McStepIsAStep == [MCNext]_mcVars => [Next]_vars
  BY DEF MCNext, Next, mcVars, vars

\* Every method keeps the stack free of the original class.
LEMMA StepOnlyForeign ==
  ASSUME IInv, OnlyForeign, [MCNext]_mcVars
  PROVE  OnlyForeign'
<1> USE NilAssumption, ReportedAssumption
<1>t. TypeOK
  BY DEF IInv
<1>1. ASSUME NEW c \in Class, Alloc(c), foreign' = TRUE PROVE OnlyForeign'
  BY <1>1, <1>t DEF Alloc, OnlyForeign, TypeOK, HasInfos
<1>2. ASSUME NEW c \in Class, SetClass(c), foreign' = (foreign /\ c # original')
      PROVE  OnlyForeign'
  <2> DEFINE orig == IF HasInfos THEN original ELSE Reported[isa]
  <2>1. /\ original' = orig /\ isa' = c
        /\ classes' = IF Pushed(orig) THEN Append(classes, isa) ELSE classes
        /\ isa \in Class /\ classes \in Seq(Class)
    BY <1>2, <1>t DEF SetClass, TypeOK, Live
  <2>2. SUFFICES ASSUME foreign, c # orig PROVE OnlyForeign'
    BY <1>2, <2>1 DEF OnlyForeign
  <2>3. \A i \in 1 .. Len(classes) : classes[i] # orig
    BY <2>2, <1>t DEF OnlyForeign, TypeOK, HasInfos
  <2>4. Pushed(orig) => isa # orig
    BY <2>2, <1>t DEF Pushed, OnlyForeign, TypeOK, HasInfos
  <2> HIDE DEF orig
  <2>5. \A i \in 1 .. Len(classes') : classes'[i] # orig
    <3>1. CASE Pushed(orig)
      BY <2>1, <2>3, <2>4, <3>1
    <3>2. CASE ~Pushed(orig)
      BY <2>1, <2>3, <3>2
    <3> QED BY <3>1, <3>2
  <2> QED BY <2>1, <2>2, <2>5 DEF OnlyForeign
<1>3. ASSUME Dealloc PROVE OnlyForeign'
  BY <1>3 DEF Dealloc, OnlyForeign, HasInfos
<1>4. ASSUME RestoreClass, UNCHANGED foreign PROVE OnlyForeign'
  <2>1. CASE classes = <<>>
    BY <1>4, <2>1 DEF RestoreClass, OnlyForeign, HasInfos
  <2>2. CASE classes # <<>>
    <3>1. /\ isa' = classes[Len(classes)]
          /\ Len(classes) \in Nat \ {0}
          /\ Len(classes') = Len(classes) - 1
          /\ \A i \in 1 .. Len(classes) - 1 : classes'[i] = classes[i]
          /\ original' = original
      BY <1>4, <2>2, <1>t, FrontAndLast DEF RestoreClass, TypeOK, Last
    <3> QED BY <3>1, <1>4 DEF OnlyForeign, HasInfos
  <2> QED BY <2>1, <2>2
<1>5. ASSUME RestoreOriginalClass, UNCHANGED foreign PROVE OnlyForeign'
  BY <1>5 DEF RestoreOriginalClass, OnlyForeign
<1>6. CASE UNCHANGED mcVars
  BY <1>6 DEF mcVars, OnlyForeign, HasInfos
<1> QED BY <1>1, <1>2, <1>3, <1>4, <1>5, <1>6 DEF MCNext

\* A stack free of the original class makes the answer exact.
LEMMA AnswerIsExact ==
  ASSUME IInv, OnlyForeign
  PROVE  CustomClassIsAnnounced
<1> USE MaxHistoryAssumption
<1>t. TypeOK /\ Len(classes) \in 0 .. MaxHistory
  BY DEF IInv, TypeOK
<1>1. SUFFICES ASSUME foreign
               PROVE  HasCustomClass <=> \E n \in DOMAIN UndoMapping : UndoMapping[n] # OriginalClass
  BY DEF CustomClassIsAnnounced
<1>2. ASSUME HasCustomClass
      PROVE  \E n \in DOMAIN UndoMapping : UndoMapping[n] # OriginalClass
  <2>1. OriginalClass = original
    BY <1>2 DEF HasCustomClass, OriginalClass
  <2>2. CASE isa # original
    <3>1. 0 \in DOMAIN UndoMapping /\ UndoMapping[0] # OriginalClass
      BY <2>1, <2>2, MappingAt
    <3> QED BY <3>1
  <2>3. CASE classes # <<>> /\ Last(classes) # original
    <3>1. 1 \in 1 .. Len(classes) /\ UndoMapping[1] = Last(classes)
      BY <2>3, <1>t, MappingAt DEF Last, TypeOK
    <3>2. 1 \in DOMAIN UndoMapping
      BY <1>t, MappingAt
    <3> QED BY <3>1, <3>2, <2>1, <2>3
  <2> QED BY <1>2, <2>2, <2>3 DEF HasCustomClass
<1>3. ASSUME ~HasCustomClass, NEW n \in DOMAIN UndoMapping
      PROVE  UndoMapping[n] = OriginalClass
  <2>1. isa = OriginalClass /\ classes = <<>>
    BY <1>1, <1>3, <1>t DEF HasCustomClass, OriginalClass, OnlyForeign, TypeOK
  <2> QED BY <2>1, MappingAt DEF UndoMapping
<1> QED BY <1>2, <1>3

\* hasCustomClass (lines 183-209) speaks of the whole history as long as
\* setClass: never gives the original class: NO says that no number of
\* restores brings another class back.
THEOREM AnnouncedToTheEnd == MCSpec => []CustomClassIsAnnounced
<1>1. MCInit => IInv /\ OnlyForeign
  BY InitIInv DEF MCInit, Init, OnlyForeign, HasInfos
<1>2. IInv /\ OnlyForeign /\ [MCNext]_mcVars => IInv' /\ OnlyForeign'
  BY NextIInv, StepOnlyForeign, McStepIsAStep
<1>3. IInv /\ OnlyForeign => CustomClassIsAnnounced
  BY AnswerIsExact
<1> QED BY <1>1, <1>2, <1>3, PTL DEF MCSpec

\* An object whose class answers its isa: before the first setClass: the class
\* the dictionary will record is the one originalClass answers.
LEMMA StepSimulation ==
  ASSUME \A c \in Class : Reported[c] = c, IInv, IInv', [Next]_vars
  PROVE  [Undo!Next]_UndoMapping
<1> USE MaxHistoryAssumption, NilAssumption, ReportedAssumption
<1> DEFINE D == 0 .. MaxHistory + 1
<1>t. TypeOK /\ TypeOK' /\ Len(classes) \in 0 .. MaxHistory /\ Len(classes') \in 0 .. MaxHistory
  BY DEF IInv, TypeOK
<1>m. UndoMapping[0] = isa /\ UndoMapping'[0] = isa'
  BY DEF UndoMapping
<1>f. UndoMapping' = [n \in D |-> UndoMapping'[n]]
  BY DEF UndoMapping
<1>1. ASSUME NEW c \in Class, Alloc(c) PROVE Undo!Create(c)
  <2>1. ~Live /\ isa' = c /\ classes' = <<>> /\ ~HasInfos'
    BY <1>1, <1>t DEF Alloc, TypeOK, HasInfos
  <2>2. UndoMapping' = [n \in D |-> c]
    BY <2>1 DEF UndoMapping, OriginalClass
  <2> QED BY <1>m, <2>1, <2>2 DEF Undo!Create, Undo!Exists, Live
<1>2. ASSUME NEW c \in Class, SetClass(c) PROVE Undo!Set(c)
  <2>1. /\ Live /\ isa \in Class /\ Len(classes) < MaxHistory
        /\ original' = OriginalClass /\ isa' = c /\ HasInfos'
        /\ classes' = IF Pushed(OriginalClass) THEN Append(classes, isa) ELSE classes
    BY <1>2, <1>t DEF SetClass, TypeOK, Live, OriginalClass, HasInfos
  <2>2. OriginalClass' = OriginalClass
    BY <2>1 DEF OriginalClass
  <2>3. UndoMapping[MaxHistory] = UndoMapping[MaxHistory + 1]
    BY <2>1, <1>t, MappingAt
  <2>4. UndoMapping' = [n \in D |-> IF n = 0 THEN c ELSE UndoMapping[n - 1]]
    <3>1. CASE Pushed(OriginalClass)
      <4>1. classes' = Append(classes, isa) /\ Len(classes') = Len(classes) + 1
        BY <2>1, <3>1, <1>t DEF TypeOK
      <4>2. ASSUME NEW n \in 1 .. MaxHistory + 1
            PROVE  UndoMapping'[n] = UndoMapping[n - 1]
        <5>1. CASE n = 1
          BY <5>1, <4>1, <1>t, <1>m DEF UndoMapping, TypeOK
        <5>2. CASE n > 1 /\ n <= Len(classes')
          BY <5>2, <4>1, <1>t DEF UndoMapping, TypeOK
        <5>3. CASE n > Len(classes')
          BY <5>3, <4>1, <1>t, <2>2 DEF UndoMapping, TypeOK
        <5> QED BY <5>1, <5>2, <5>3, <1>t
      <4>3. \A n \in D : n = 0 \/ n \in 1 .. MaxHistory + 1
        OBVIOUS
      <4> HIDE DEF D
      <4> QED BY <4>2, <4>3, <2>1, <1>f, <1>m
    <3>2. CASE ~Pushed(OriginalClass)
      <4>1. classes = <<>> /\ classes' = <<>> /\ isa = OriginalClass
        BY <2>1, <3>2 DEF Pushed
      <4> QED BY <4>1, <2>1, <2>2 DEF UndoMapping
    <3> QED BY <3>1, <3>2
  <2> QED BY <1>m, <2>1, <2>3, <2>4 DEF Undo!Set, Undo!Exists, Live
<1>3. ASSUME Dealloc PROVE Undo!Destroy
  <2>1. Live /\ UndoMapping' = [n \in D |-> NoClass]
    BY <1>3 DEF Dealloc, UndoMapping, OriginalClass, HasInfos
  <2> QED BY <1>m, <2>1 DEF Undo!Destroy, Undo!Exists, Live
<1>4. ASSUME RestoreClass PROVE Undo!Restore
  <2>1. OriginalClass = original /\ OriginalClass' = original /\ Live
    BY <1>4 DEF RestoreClass, OriginalClass, HasInfos
  <2>2. UndoMapping' = [n \in D |-> IF n = MaxHistory + 1 THEN UndoMapping[n] ELSE UndoMapping[n + 1]]
    <3>1. CASE classes = <<>>
      <4>1. isa' = original /\ classes' = <<>>
        BY <3>1, <1>4 DEF RestoreClass
      <4> QED BY <2>1, <3>1, <4>1 DEF UndoMapping
    <3>2. CASE classes # <<>>
      <4>1. /\ isa' = classes[Len(classes)]
            /\ Len(classes') = Len(classes) - 1
            /\ \A i \in 1 .. Len(classes) - 1 : classes'[i] = classes[i]
        BY <1>4, <3>2, <1>t, FrontAndLast DEF RestoreClass, TypeOK, Last
      <4>2. UndoMapping'[0] = UndoMapping[1]
        BY <4>1, <1>t, <3>2 DEF UndoMapping, TypeOK
      <4>3. ASSUME NEW n \in 1 .. MaxHistory
            PROVE  UndoMapping'[n] = UndoMapping[n + 1]
        <5>1. CASE n <= Len(classes')
          <6> DEFINE k == Len(classes) - n
          <6>1. k \in 1 .. Len(classes) - 1 /\ n + 1 <= Len(classes)
            BY <5>1, <4>1, <1>t
          <6>2. UndoMapping'[n] = classes'[k]
            BY <5>1, <4>1, <1>t DEF UndoMapping
          <6>3. UndoMapping[n + 1] = classes[k]
            BY <6>1, <1>t DEF UndoMapping
          <6> QED BY <6>1, <6>2, <6>3, <4>1
        <5>2. CASE n > Len(classes')
          BY <5>2, <4>1, <1>t, <2>1 DEF UndoMapping, TypeOK
        <5> QED BY <5>1, <5>2, <1>t
      <4>4. UndoMapping'[MaxHistory + 1] = UndoMapping[MaxHistory + 1]
        BY <1>t, <2>1 DEF UndoMapping
      <4>5. \A n \in D : \/ n = 0 /\ 0 # MaxHistory + 1
                         \/ n \in 1 .. MaxHistory /\ n # MaxHistory + 1
                         \/ n = MaxHistory + 1
        OBVIOUS
      <4>6. 0 + 1 = 1
        OBVIOUS
      <4> HIDE DEF D
      <4> QED BY <4>2, <4>3, <4>4, <4>5, <4>6, <1>f
    <3> QED BY <3>1, <3>2
  <2> QED BY <1>m, <2>1, <2>2 DEF Undo!Restore, Undo!Exists, Live
<1>5. ASSUME RestoreOriginalClass PROVE Undo!RestoreAll
  <2>1. /\ Live /\ classes' = <<>> /\ isa' = original
        /\ OriginalClass = original /\ OriginalClass' = original
    BY <1>5 DEF RestoreOriginalClass, OriginalClass, HasInfos
  <2>2. UndoMapping' = [n \in D |-> UndoMapping[MaxHistory + 1]]
    BY <2>1, <1>t DEF UndoMapping
  <2> QED BY <1>m, <2>1, <2>2 DEF Undo!RestoreAll, Undo!Exists, Live
<1>6. CASE UNCHANGED vars
  BY <1>6 DEF vars, UndoMapping, OriginalClass, HasInfos
<1> QED BY <1>1, <1>2, <1>3, <1>4, <1>5, <1>6 DEF Next, Undo!Next

\* For objects whose -class answers their isa (every class but those that
\* hide, as key-value observing's do) the category implements ClassUndo: the
\* dictionary, its absence before the first setClass: (lines 88-95) and the
\* entry that is not pushed (lines 98-101) cannot be told from a history in
\* which every change is recorded.
THEOREM CategoryImplementsUndo ==
  ASSUME \A c \in Class : Reported[c] = c
  PROVE  Spec => ImplementsUndo
<1>1. Init => Undo!Init
  BY MaxHistoryAssumption DEF Init, Undo!Init, UndoMapping, OriginalClass, HasInfos
<1>2. IInv /\ IInv' /\ [Next]_vars => [Undo!Next]_UndoMapping
  BY StepSimulation
<1> QED BY <1>1, <1>2, IInvHolds, PTL DEF Spec, ImplementsUndo, Undo!Spec

\* For the same objects originalClass (lines 108-128) gives one answer from
\* +alloc to dealloc: the first setClass: records the class the isa answered
\* until then, and no later call writes it.
THEOREM OriginalStable ==
  ASSUME \A c \in Class : Reported[c] = c
  PROVE  Spec => OriginalClassIsStable
<1>1. IInv /\ [Next]_vars =>
         [isa # NoClass /\ isa' # NoClass => OriginalClass' = OriginalClass]_vars
  <2> SUFFICES ASSUME IInv, Next, isa # NoClass, isa' # NoClass
               PROVE  OriginalClass' = OriginalClass
    BY DEF vars
  <2> USE NilAssumption, ReportedAssumption DEF OriginalClass, HasInfos
  <2>1. ASSUME NEW c \in Class, Alloc(c) PROVE FALSE
    BY <2>1 DEF Alloc, Live
  <2>2. ASSUME NEW c \in Class, SetClass(c) PROVE OriginalClass' = OriginalClass
    BY <2>2 DEF SetClass, IInv, TypeOK
  <2>3. ASSUME Dealloc PROVE FALSE
    BY <2>3 DEF Dealloc
  <2>4. CASE RestoreClass
    BY <2>4 DEF RestoreClass
  <2>5. CASE RestoreOriginalClass
    BY <2>5 DEF RestoreOriginalClass
  <2> QED BY <2>1, <2>2, <2>3, <2>4, <2>5 DEF Next
<1> QED BY <1>1, IInvHolds, PTL DEF Spec, OriginalClassIsStable
===============================================================================
