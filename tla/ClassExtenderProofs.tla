-------------------------- MODULE ClassExtenderProofs --------------------------
(***************************************************************************)
(* Proofs about ClassExtender, for any classes, any members and any number *)
(* of calls.                                                               *)
(***************************************************************************)
EXTENDS MCClassExtender, WellFoundedInduction, TLAPS

\* A set of numbers with a bound has a greatest element, because the numbers
\* that are left to the bound have a least one.
LEMMA MaximumExists ==
  ASSUME NEW n \in Nat, NEW S \in SUBSET (0 .. n), S # {}
  PROVE  \E x \in S : \A y \in S : y <= x
<1> DEFINE T == {n - s : s \in S}
           R == OpToRel(<, Nat)
<1>0. \A s \in S : s \in Nat /\ n - s \in Nat
  OBVIOUS
<1>1. T \subseteq Nat /\ T # {}
  BY <1>0
<1>2. IsWellFoundedOn(R, Nat)
  BY NatLessThanWellFounded
<1>3. PICK t \in T : \A y \in T : ~ (<<y, t>> \in R)
  <2> HIDE DEF T, R
  <2> QED BY <1>1, <1>2, WFMin
<1>4. \A y \in T : ~ (y < t)
  BY <1>1, <1>3 DEF OpToRel
<1>5. PICK x \in S : t = n - x
  OBVIOUS
<1>6. ASSUME NEW y \in S PROVE y <= x
  <2>1. n - y \in T
    OBVIOUS
  <2>2. ~ (n - y < n - x)
    BY <2>1, <1>4, <1>5
  <2>3. x \in Nat /\ y \in Nat
    BY <1>0
  <2> QED BY <2>2, <2>3
<1> QED BY <1>6

\* The pointer of an array that has a key is at the key inserted last.
LEMMA KeyIsLast ==
  ASSUME TypeOK, NEW m \in Member, Registered(m)
  PROVE  /\ Key(m) \in Class
         /\ table[m][Key(m)] > 0
         /\ \A d \in Class : table[m][d] <= table[m][Key(m)]
<1> DEFINE S == {table[m][c] : c \in Class}
<1>1. clock \in Nat /\ S \in SUBSET (0 .. clock)
  BY ClockAssumption DEF TypeOK
<1>2. PICK c \in Class : table[m][c] > 0
  BY DEF Registered
<1>3. PICK x \in S : \A y \in S : y <= x
  <2>1. S # {}
    BY <1>2
  <2> HIDE DEF S
  <2> QED BY <1>1, <2>1, MaximumExists
<1>4. PICK d \in Class : x = table[m][d]
  OBVIOUS
<1>5. \A e \in Class : table[m][e] <= table[m][d] /\ table[m][e] \in Nat
  BY <1>1, <1>3, <1>4
<1>6. table[m][d] > 0
  BY <1>2, <1>5
<1> QED BY <1>5, <1>6 DEF Key

-------------------------------------------------------------------------------

\* What every subclass keeps true.
Inv == TypeOK /\ ListedIsRegistered

LEMMA InitInv == Init => Inv
  BY ClockAssumption DEF Init, Inv, TypeOK, ListedIsRegistered

LEMMA NextInv == Inv /\ [Next]_vars => Inv'
<1> SUFFICES ASSUME Inv, [Next]_vars PROVE Inv'
  OBVIOUS
<1> USE ClockAssumption, HasAssumption DEF Inv
<1>n. /\ clock \in Nat /\ clock <= MaxClock
      /\ \A k \in 0 .. clock : k \in Nat /\ k \in 0 .. clock + 1
  BY DEF TypeOK
<1>f. CASE Fatal
  BY <1>f DEF Fatal, TypeOK, ListedIsRegistered
<1>1. ASSUME NEW c \in Class, NEW list \in SUBSET Member, Extends(c, list), ~Fatal PROVE Inv'
  <2> DEFINE now == clock + 1
             ms == Taken(c, list)
  <2>1. /\ clock < MaxClock /\ clock' = now
        /\ instance' = [instance EXCEPT ![c] = now]
        /\ place' = [place EXCEPT ![c] = IF place[c] = 0 THEN now ELSE place[c]]
        /\ classes' = [classes EXCEPT ![c] = ms]
        /\ table' = Put(table, c, ms, now)
        /\ UNCHANGED alive
    BY <1>1 DEF Extends
  <2>2. now \in Nat /\ now > 0 /\ now \in 0 .. now /\ now \in 0 .. MaxClock
        /\ \A k \in 0 .. clock : k \in 0 .. now
    BY <1>n, <2>1
  <2>3. ms \subseteq Has[c] /\ ms \in SUBSET Member
    BY DEF Taken
  <2> HIDE DEF now, ms
  <2>4. table' \in [Member -> [Class -> 0 .. now]]
    BY <2>1, <2>2 DEF Put, TypeOK
  <2>5. TypeOK'
    BY <2>1, <2>2, <2>3, <2>4 DEF TypeOK
  <2>6. \A m \in Member, d \in Class :
          /\ table[m][d] > 0 => table'[m][d] > 0
          /\ m \in ms => table'[m][c] > 0
    BY <2>1, <2>2, <1>n DEF Put, TypeOK
  <2>7. ListedIsRegistered'
    BY <2>1, <2>3, <2>6 DEF ListedIsRegistered, TypeOK
  <2> QED BY <2>5, <2>7
<1>2. ASSUME NEW c \in Class, Release(c) PROVE Inv'
  <2>1. TypeOK'
    BY <1>2, <1>n DEF Release, TypeOK
  <2>2. ListedIsRegistered'
    BY <1>2, <1>n DEF Release, ListedIsRegistered, TypeOK
  <2> QED BY <2>1, <2>2
<1>3. ASSUME NEW m \in Property, SetDangling(m), ~Fatal PROVE Inv'
  <2>1. /\ clock < MaxClock /\ clock' = clock + 1
        /\ instance' = [instance EXCEPT ![Key(m)] = clock + 1]
        /\ place' = [place EXCEPT ![Key(m)] = clock + 1]
        /\ UNCHANGED <<alive, classes, table>>
    BY <1>3 DEF SetDangling
  <2> DEFINE now == clock + 1
  <2>2. now \in 0 .. now /\ now \in 0 .. MaxClock /\ \A k \in 0 .. clock : k \in 0 .. now
    BY <2>1, <1>n
  <2> HIDE DEF now
  <2>3. TypeOK'
    <3>1. instance' \in [Class -> 0 .. now] /\ place' \in [Class -> 0 .. now]
      BY <2>1, <2>2 DEF TypeOK, now
    <3>2. table' \in [Member -> [Class -> 0 .. now]]
      BY <2>1, <2>2 DEF TypeOK
    <3> QED BY <2>1, <2>2, <3>1, <3>2 DEF TypeOK, now
  <2>4. ListedIsRegistered'
    BY <2>1 DEF ListedIsRegistered
  <2> QED BY <2>3, <2>4
<1>4. CASE UNCHANGED vars
  BY <1>4 DEF vars, TypeOK, ListedIsRegistered
<1>5. ASSUME NEW m, Call(m) \/ GetOrSetUnknown(m) PROVE Fatal
  BY <1>5 DEF Call, GetOrSetUnknown
<1> QED BY <1>f, <1>1, <1>2, <1>3, <1>4, <1>5 DEF Next

LEMMA InvHolds == Spec => []Inv
  BY InitInv, NextInv, PTL DEF Spec

\* The state is well typed, and a class is never made to give a member it does
\* not have (lines 168, 224).
THEOREM TypeCorrect == Spec => []TypeOK
<1>1. Inv => TypeOK
  BY DEF Inv
<1> QED BY <1>1, InvHolds, PTL

\* _releaseExtends finds in the table all that _classes lists (lines 284-323),
\* whatever was extended twice.
THEOREM ListedRegistered == Spec => []ListedIsRegistered
<1>1. Inv => ListedIsRegistered
  BY DEF Inv
<1> QED BY <1>1, InvHolds, PTL

-------------------------------------------------------------------------------

\* A subclass that extends a class only while it is not inherited: the place of
\* a class is the same in all the arrays, and the table has what the lists have.
Consistent ==
  /\ \A c \in Class : instance[c] = place[c] /\ (classes[c] # {} => place[c] > 0)
  /\ \A m \in Member, c \in Class :
       table[m][c] = IF m \in classes[c] THEN place[c] ELSE 0

IInv == Inv /\ Consistent

LEMMA ConsistentIsEnough == IInv => NoDanglingKey /\ LastInheritedAnswers
<1> SUFFICES ASSUME IInv, NEW m \in Member
             PROVE  /\ Registered(m) => Inherited(Key(m))
                    /\ IF Giving(m) = {} THEN ~Registered(m)
                       ELSE /\ Key(m) \in Giving(m)
                            /\ \A c \in Giving(m) : place[c] <= place[Key(m)]
  BY DEF NoDanglingKey, LastInheritedAnswers
<1> USE DEF IInv, Inv, Consistent
<1>1. CASE Registered(m)
  <2>1. /\ Key(m) \in Class /\ table[m][Key(m)] > 0
        /\ \A d \in Class : table[m][d] <= table[m][Key(m)]
    BY <1>1, KeyIsLast
  <2>2. m \in classes[Key(m)] /\ place[Key(m)] = table[m][Key(m)]
    BY <2>1
  <2>3. Inherited(Key(m)) /\ Key(m) \in Giving(m)
    BY <2>1, <2>2 DEF Inherited, Giving
  <2>4. \A c \in Giving(m) : place[c] = table[m][c] /\ c \in Class
    BY DEF Giving
  <2> QED BY <2>1, <2>2, <2>3, <2>4
<1>2. CASE ~Registered(m)
  <2>1. \A c \in Class : m \in classes[c] => table[m][c] = place[c] /\ place[c] > 0
    OBVIOUS
  <2>2. Giving(m) = {}
    BY <2>1, <1>2 DEF Giving, Registered
  <2> QED BY <1>2, <2>2
<1> QED BY <1>1, <1>2

LEMMA DisciplinedIInv == IInv /\ [DisciplinedNext]_vars => IInv'
<1> SUFFICES ASSUME IInv, [DisciplinedNext]_vars PROVE IInv'
  OBVIOUS
<1>1. Inv'
  <2>1. [Next]_vars
    BY DEF DisciplinedNext, Disciplined, Next
  <2> QED BY <2>1, NextInv DEF IInv
<1>t. TypeOK
  BY DEF IInv, Inv
<1>f. CASE Fatal
  BY <1>1, <1>f DEF Fatal, IInv, Consistent
<1>2. ASSUME NEW c \in Class, NEW list \in SUBSET Member, Disciplined(c, list), ~Fatal
      PROVE  Consistent'
  <2> DEFINE now == clock + 1
             ms == Taken(c, list)
  <2>1. /\ instance[c] = 0 /\ place[c] = 0 /\ classes[c] = {}
        /\ \A m \in Member : table[m][c] = 0
    BY <1>2, <1>t DEF Disciplined, Inherited, IInv, Consistent, TypeOK
  <2>2. /\ clock' = now
        /\ instance' = [instance EXCEPT ![c] = now]
        /\ place' = [place EXCEPT ![c] = IF place[c] = 0 THEN now ELSE place[c]]
        /\ classes' = [classes EXCEPT ![c] = ms]
        /\ table' = Put(table, c, ms, now)
    BY <1>2 DEF Disciplined, Extends
  <2>3. now > 0
    BY <1>t, ClockAssumption DEF TypeOK
  <2> HIDE DEF now, ms
  <2>4. \A d \in Class : instance'[d] = place'[d] /\ (classes'[d] # {} => place'[d] > 0)
    BY <2>1, <2>2, <2>3, <1>t DEF IInv, Consistent, TypeOK
  <2>5. ASSUME NEW m \in Member, NEW d \in Class
        PROVE  table'[m][d] = IF m \in classes'[d] THEN place'[d] ELSE 0
    <3>1. CASE d = c
      BY <3>1, <2>1, <2>2, <1>t DEF Put, TypeOK
    <3>2. CASE d # c
      <4>1. table'[m][d] = table[m][d] /\ classes'[d] = classes[d] /\ place'[d] = place[d]
        BY <3>2, <2>1, <2>2, <1>t DEF Put, TypeOK
      <4> QED BY <4>1 DEF IInv, Consistent
    <3> QED BY <3>1, <3>2
  <2> QED BY <2>4, <2>5 DEF Consistent
<1>3. ASSUME NEW c \in Class, Release(c) PROVE Consistent'
  <2>1. /\ instance' = [instance EXCEPT ![c] = 0]
        /\ place' = [place EXCEPT ![c] = 0]
        /\ table' = [m \in Member |-> IF m \in classes[c]
                                      THEN [table[m] EXCEPT ![c] = 0] ELSE table[m]]
        /\ classes' = [classes EXCEPT ![c] = {}]
    BY <1>3 DEF Release
  <2>2. \A d \in Class : instance'[d] = place'[d] /\ (classes'[d] # {} => place'[d] > 0)
    BY <2>1, <1>t DEF IInv, Consistent, TypeOK
  <2>3. \A m \in Member, d \in Class :
          table'[m][d] = IF m \in classes'[d] THEN place'[d] ELSE 0
    BY <2>1, <1>t DEF IInv, Consistent, TypeOK
  <2> QED BY <2>2, <2>3 DEF Consistent
<1>4. ASSUME NEW m \in Property, SetDangling(m) PROVE FALSE
  BY <1>4, ConsistentIsEnough DEF SetDangling, NoDanglingKey, Member
<1>5. CASE UNCHANGED vars
  BY <1>5, <1>1 DEF vars, IInv, Consistent
<1>6. ASSUME NEW m, Call(m) \/ GetOrSetUnknown(m) PROVE Fatal
  BY <1>6 DEF Call, GetOrSetUnknown
<1> QED BY <1>1, <1>f, <1>2, <1>3, <1>4, <1>5, <1>6 DEF DisciplinedNext, IInv

LEMMA IInvHolds == DisciplinedSpec => []IInv
<1>1. Init => IInv
  <2>1. Init => Inv
    BY InitInv
  <2>2. Init => Consistent
    BY DEF Init, Consistent
  <2> QED BY <2>1, <2>2 DEF IInv
<1> QED BY <1>1, DisciplinedIInv, PTL DEF DisciplinedSpec

\* A subclass that extends a class only while it is not inherited never calls
\* a member of an instance that was released (lines 75, 94, 113).
THEOREM DisciplinedNeverDangles == DisciplinedSpec => []NoDanglingKey
<1>1. IInv => NoDanglingKey
  BY ConsistentIsEnough
<1> QED BY <1>1, IInvHolds, PTL

\* For the same subclass the method or property comes "from the parent class
\* inherited last" (lines 186-187, 299-301), after any number of classes were
\* inherited and released.
THEOREM DisciplinedLastAnswers == DisciplinedSpec => []LastInheritedAnswers
<1>1. IInv => LastInheritedAnswers
  BY ConsistentIsEnough
<1> QED BY <1>1, IInvHolds, PTL

-------------------------------------------------------------------------------

\* Of every subclass: what a disciplined one keeps true holds as long as it was
\* disciplined, in whatever way the history variable and the steps interleave.
HInv == Inv /\ (disciplined => Consistent)

LEMMA HInvHolds == MCSpec => []HInv
<1>1. MCInit => HInv
  <2>1. Init => Consistent
    BY DEF Init, Consistent
  <2> QED BY <2>1, InitInv DEF MCInit, HInv
<1>2. HInv /\ [MCNext]_<<vars, disciplined>> => HInv'
  <2> SUFFICES ASSUME HInv, [MCNext]_<<vars, disciplined>> PROVE HInv'
    OBVIOUS
  <2>1. [Next]_vars
    BY DEF MCNext
  <2>2. Inv'
    BY <2>1, NextInv DEF HInv
  <2>3. ASSUME disciplined' PROVE Consistent'
    <3>1. CASE UNCHANGED <<vars, disciplined>>
      <4>1. IInv /\ [DisciplinedNext]_vars
        BY <3>1, <2>3 DEF HInv, IInv
      <4> QED BY <4>1, DisciplinedIInv DEF IInv
    <3>2. CASE MCNext
      <4>1. disciplined /\ \A c \in Class : Inherited(c) => instance'[c] \in {0, instance[c]}
        BY <3>2, <2>3 DEF MCNext
      <4>2. IInv /\ TypeOK
        BY <4>1 DEF HInv, IInv, Inv
      <4>3. ASSUME NEW c \in Class, NEW list \in SUBSET Member, Extends(c, list)
            PROVE  Disciplined(c, list) \/ UNCHANGED <<instance, place, classes, table>>
        <5>1. CASE Fatal
          BY <5>1 DEF Fatal
        <5>2. CASE ~Fatal
          <6>1. instance' = [instance EXCEPT ![c] = clock + 1]
            BY <4>3, <5>2 DEF Extends
          <6>2. instance'[c] = clock + 1 /\ clock \in Nat /\ instance[c] \in 0 .. clock
            BY <4>2, <6>1, ClockAssumption DEF TypeOK
          <6>3. instance'[c] \notin {0, instance[c]}
            BY <6>2
          <6> QED BY <4>1, <4>3, <6>3 DEF Disciplined
        <5> QED BY <5>1, <5>2
      <4>4. [DisciplinedNext]_vars \/ UNCHANGED <<instance, place, classes, table>>
        BY <3>2, <4>3 DEF MCNext, Next, DisciplinedNext
      <4>5. CASE [DisciplinedNext]_vars
        BY <4>5, <4>2, DisciplinedIInv DEF IInv
      <4>6. CASE UNCHANGED <<instance, place, classes, table>>
        BY <4>6, <4>2 DEF IInv, Consistent
      <4> QED BY <4>4, <4>5, <4>6
    <3> QED BY <3>1, <3>2
  <2> QED BY <2>2, <2>3 DEF HInv
<1> QED BY <1>1, <1>2, PTL DEF MCSpec

\* Whatever the subclass does: until it extends a class a second time, a call
\* finds an instance, and the one of the class inherited last (__call lines
\* 69-82; _extends lines 186-187; _releaseExtends lines 284-323).
THEOREM AnswersWhileDisciplined == MCSpec => []DisciplinedAnswers
<1>1. HInv => DisciplinedAnswers
  BY ConsistentIsEnough DEF HInv, IInv, DisciplinedAnswers
<1> QED BY <1>1, HInvHolds, PTL

\* Inheriting from a class or releasing it leaves the entry, and the place, of
\* every other class in the arrays of _methods and _properties as it was, also
\* when the class is extended twice (lines 161-260, 284-323).  Nothing is said
\* of the instances, nor of what __set does through one that is gone.
THEOREM OthersKeepTheirPlaces == MCSpec => OthersUndisturbed
<1> DEFINE A == \A c, d \in Class :
                  (Release(c) \/ \E list \in SUBSET Member : Extends(c, list)) /\ d # c =>
                    \A m \in Member : table'[m][d] = table[m][d]
<1>1. HInv => [A]_vars
  <2> SUFFICES ASSUME TypeOK, NEW c \in Class, NEW d \in Class, d # c,
                      Release(c) \/ \E list \in SUBSET Member : Extends(c, list),
                      NEW m \in Member
               PROVE  table'[m][d] = table[m][d]
    BY DEF HInv, Inv
  <2>1. CASE Release(c)
    BY <2>1 DEF Release, TypeOK
  <2>2. ASSUME NEW list \in SUBSET Member, Extends(c, list)
        PROVE  table'[m][d] = table[m][d]
    <3>1. table' = table \/ table' = Put(table, c, Taken(c, list), clock')
      BY <2>2 DEF Extends, Fatal
    <3> QED BY <3>1 DEF Put, TypeOK
  <2> QED BY <2>1, <2>2
<1>2. MCSpec => [][A]_vars
  <2> HIDE DEF A
  <2> QED BY <1>1, HInvHolds, PTL
<1> QED BY <1>2 DEF OthersUndisturbed
================================================================================
