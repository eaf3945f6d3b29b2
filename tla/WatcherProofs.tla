----------------------------- MODULE WatcherProofs -----------------------------
(***************************************************************************)
(* What holds of Watcher for any properties, values, observers and any     *)
(* number of watchers.                                                     *)
(***************************************************************************)
EXTENDS MCWatcher, SequenceTheorems, TLAPS

\* What was registered stays; only such properties are assigned.
Properties == DOMAIN public \cup DOMAIN protected

\* The engine's guard: no call of __set for a property runs within another.
SetsEnd == \A i, j \in DOMAIN sets : sets[i].name = sets[j].name => i = j

SetsExist == \A i \in DOMAIN sets : sets[i].name \in Properties

IInv == TypeOK /\ SetsEnd /\ SetsExist

THEOREM InitEstablishes == Init => IInv
  BY NullAssumption, EmptySeq DEF Init, IInv, TypeOK, SetsEnd, SetsExist, IsTable

\* A table stays one, whatever is put into it.
LEMMA WithIsTable ==
  ASSUME NEW f, IsTable(f), NEW n \in Name, NEW v \in Value
  PROVE  IsTable(With(f, n, v)) /\ DOMAIN With(f, n, v) = DOMAIN f \cup {n}
  BY DEF IsTable, With

LEMMA AtOfWith ==
  ASSUME NEW f, NEW n, NEW v, NEW m
  PROVE  At(With(f, n, v), m) = IF m = n THEN v ELSE At(f, m)
  BY DEF With, At

LEMMA ReadsAreValues == ASSUME TypeOK, NEW n \in Name PROVE Read(n) \in Value
  BY NullAssumption DEF TypeOK, IsTable, Read, At

\* The calls of __set that run stay calls, of different properties.
LEMMA CallStep ==
  ASSUME IInv, NEW n \in Name, NEW v \in Value, ~BeingSet(n), Exists(n), CallSet(n, v)
  PROVE  IInv'
  <1> DEFINE s == [name |-> n, value |-> v, left |-> watchers[n], told |-> FALSE]
  <1>1. sets \in Seq(Set) /\ s \in Set
    BY DEF IInv, TypeOK, Set
  <1>2. sets' = Append(sets, s) /\ UNCHANGED <<tables, watchers, added, knows, alive>>
    BY DEF CallSet, Told
  <1>3. s.name = n
    OBVIOUS
  <1> HIDE DEF s
  <1>4. /\ sets' \in Seq(Set) /\ Len(sets') = Len(sets) + 1
        /\ \A i \in 1 .. Len(sets) : sets'[i] = sets[i]
        /\ sets'[Len(sets) + 1] = s
    BY <1>1, <1>2, AppendProperties
  <1>5. DOMAIN sets = 1 .. Len(sets) /\ DOMAIN sets' = 1 .. Len(sets) + 1 /\ Len(sets) \in Nat
    BY <1>1, <1>4, LenProperties
  <1>6. SetsEnd'
    <2> SUFFICES ASSUME NEW i \in DOMAIN sets', NEW j \in DOMAIN sets', sets'[i].name = sets'[j].name
                 PROVE  i = j
      BY DEF SetsEnd
    <2>1. CASE i \in DOMAIN sets /\ j \in DOMAIN sets
      BY <1>4, <1>5, <2>1 DEF IInv, SetsEnd
    <2>2. \A k \in DOMAIN sets : sets'[k].name # n
      BY <1>4, <1>5 DEF BeingSet
    <2> QED BY <1>3, <1>4, <1>5, <2>1, <2>2
  <1>7. TypeOK'
    BY <1>2, <1>4 DEF IInv, TypeOK, tables, IsTable
  <1>8. SetsExist'
    BY <1>2, <1>3, <1>4, <1>5 DEF IInv, SetsExist, Properties, tables, Exists, IsSet
  <1> QED BY <1>6, <1>7, <1>8 DEF IInv

\* A call that goes on keeps its property.
LEMMA GoesOn ==
  ASSUME IInv, sets # <<>>, NEW s \in Set, s.name = Last(sets).name,
         sets' = [sets EXCEPT ![Len(sets)] = s]
  PROVE  /\ sets' \in Seq(Set) /\ DOMAIN sets' = DOMAIN sets /\ SetsEnd'
         /\ Properties \subseteq Properties' => SetsExist'
         /\ Len(sets) \in DOMAIN sets
         /\ \A i \in DOMAIN sets : sets'[i] = (IF i = Len(sets) THEN s ELSE sets[i])
  <1>1. sets \in Seq(Set) /\ Len(sets) \in 1 .. Len(sets) /\ DOMAIN sets = 1 .. Len(sets)
    BY EmptySeq, LenProperties DEF IInv, TypeOK
  <1>2. /\ sets' \in Seq(Set) /\ Len(sets') = Len(sets)
        /\ \A i \in 1 .. Len(sets) : sets'[i] = (IF i = Len(sets) THEN s ELSE sets[i])
    BY <1>1, ExceptSeq
  <1>3. DOMAIN sets' = DOMAIN sets
    BY <1>1, <1>2, LenProperties
  <1>4. \A i \in DOMAIN sets : sets'[i].name = sets[i].name
    BY <1>1, <1>2 DEF Last
  <1>5. SetsEnd'
    BY <1>3, <1>4 DEF IInv, SetsEnd
  <1>6. Properties \subseteq Properties' => SetsExist'
    BY <1>3, <1>4 DEF IInv, SetsExist
  <1> QED BY <1>1, <1>2, <1>3, <1>5, <1>6

LEMMA LastIsSet ==
  ASSUME IInv, sets # <<>>
  PROVE  Last(sets) \in Set /\ Len(sets) \in DOMAIN sets /\ Last(sets) = sets[Len(sets)]
  BY EmptySeq, LenProperties, ElementOfSeq DEF IInv, TypeOK, Last

LEMMA SetNames ==
  ASSUME IInv, NEW k \in DOMAIN sets
  PROVE  sets[k] \in Set /\ sets[k].name \in Name
  <1>1. sets[k] \in Set
    BY LenProperties, ElementOfSeq DEF IInv, TypeOK
  <1> QED BY <1>1 DEF Set

LEMMA TellStep ==
  ASSUME IInv, Tell
  PROVE  IInv'
  <1> DEFINE s == Last(sets)
             t == [name |-> s.name, value |-> s.value, left |-> Tail(s.left), told |-> TRUE]
  <1>1. /\ sets # <<>> /\ s.left # <<>>
        /\ sets' = [sets EXCEPT ![Len(sets)] = t]
        /\ knows' = [knows EXCEPT ![s.name][Head(s.left)] = s.value]
        /\ UNCHANGED <<tables, watchers, added, alive>>
    BY DEF Tell, MayAct
  <1>2. s \in Set /\ s.name \in Name /\ s.value \in Value /\ s.left \in Seq(Observer)
    BY <1>1, LastIsSet DEF Set
  <1>3. Head(s.left) \in Observer /\ Tail(s.left) \in Seq(Observer)
    BY <1>1, <1>2, HeadTailProperties
  <1>4. t \in Set /\ t.name = s.name
    BY <1>2, <1>3 DEF Set
  <1>5. sets' \in Seq(Set) /\ SetsEnd' /\ SetsExist'
    <2> HIDE DEF s, t
    <2>1. t.name = Last(sets).name
      BY <1>4 DEF s
    <2>2. Properties' = Properties
      BY <1>1 DEF Properties, tables
    <2> QED BY <1>1, <1>4, <2>1, <2>2, GoesOn
  <1> HIDE DEF s
  <1>6. knows' \in [Name -> [Observer -> Value]]
    BY <1>1, <1>2, <1>3 DEF IInv, TypeOK
  <1> QED BY <1>1, <1>5, <1>6 DEF IInv, TypeOK, tables, IsTable

LEMMA WatcherReturnsStep ==
  ASSUME IInv, WatcherReturns
  PROVE  IInv'
  <1> DEFINE s == Last(sets)
             t == [s EXCEPT !.told = FALSE]
  <1>1. s \in Set /\ Len(sets) \in DOMAIN sets /\ s = sets[Len(sets)] /\ sets # <<>>
    BY LastIsSet DEF WatcherReturns
  <1>2. t \in Set /\ t.name = s.name
    BY <1>1 DEF Set
  <1>3. sets' = [sets EXCEPT ![Len(sets)] = t] /\ UNCHANGED <<tables, watchers, added, knows, alive>>
    BY <1>1 DEF WatcherReturns
  <1>4. sets' \in Seq(Set) /\ SetsEnd' /\ SetsExist'
    <2> HIDE DEF s, t
    <2>1. t.name = Last(sets).name
      BY <1>2 DEF s
    <2>2. Properties' = Properties
      BY <1>3 DEF Properties, tables
    <2> QED BY <1>1, <1>2, <1>3, <2>1, <2>2, GoesOn
  <1> QED BY <1>3, <1>4 DEF IInv, TypeOK, tables, IsTable

\* The innermost call ends, and the others are as they were.
LEMMA FrontKeeps ==
  ASSUME IInv, sets # <<>>, sets' = Front(sets)
  PROVE  /\ sets' \in Seq(Set) /\ DOMAIN sets' = DOMAIN sets \ {Len(sets)}
         /\ \A i \in DOMAIN sets' : sets'[i] = sets[i]
         /\ SetsEnd' /\ (Properties \subseteq Properties' => SetsExist')
  <1>1. /\ sets \in Seq(Set) /\ DOMAIN sets = 1 .. Len(sets) /\ Len(sets) \in Nat \ {0}
        /\ \A i \in 1 .. Len(sets) : sets[i] \in Set
    BY EmptySeq, LenProperties, ElementOfSeq DEF IInv, TypeOK
  <1>2. sets' = SubSeq(sets, 1, Len(sets) - 1)
    BY DEF Front
  <1>3. /\ sets' \in Seq(Set) /\ Len(sets') = Len(sets) - 1
        /\ \A i \in 1 .. Len(sets) - 1 : sets'[i] = sets[i]
    BY <1>1, <1>2, SubSeqProperties
  <1>4. DOMAIN sets' = 1 .. Len(sets) - 1
    BY <1>3, LenProperties
  <1>5. SetsEnd'
    BY <1>1, <1>3, <1>4 DEF IInv, SetsEnd
  <1>6. Properties \subseteq Properties' => SetsExist'
    BY <1>1, <1>3, <1>4 DEF IInv, SetsExist
  <1> QED BY <1>1, <1>3, <1>4, <1>5, <1>6

LEMMA SetReturnsStep ==
  ASSUME IInv, SetReturns
  PROVE  IInv'
  <1>1. /\ sets # <<>> /\ sets' = Front(sets)
        /\ public' = With(public, Last(sets).name, Last(sets).value)
        /\ UNCHANGED <<protected, watchers, added, knows, alive>>
    BY DEF SetReturns, MayAct
  <1>2. Last(sets).name \in Name /\ Last(sets).value \in Value
    BY <1>1, LastIsSet DEF Set
  <1>3. IsTable(public)
    BY DEF IInv, TypeOK
  <1>4. IsTable(public') /\ DOMAIN public' = DOMAIN public \cup {Last(sets).name}
    <2> DEFINE n == Last(sets).name
               v == Last(sets).value
    <2> HIDE DEF n, v
    <2>1. n \in Name /\ v \in Value /\ public' = With(public, n, v)
      BY <1>1, <1>2 DEF n, v
    <2>2. IsTable(With(public, n, v)) /\ DOMAIN With(public, n, v) = DOMAIN public \cup {n}
      BY <1>3, <2>1, WithIsTable
    <2>3. IsTable(public') <=> IsTable(With(public, n, v))
      BY <2>1 DEF IsTable
    <2> QED BY <2>1, <2>2, <2>3 DEF n
  <1>5. sets' \in Seq(Set) /\ SetsEnd' /\ SetsExist'
    BY <1>1, <1>4, FrontKeeps DEF Properties
  <1> QED BY <1>1, <1>4, <1>5 DEF IInv, TypeOK, IsTable

\* What else is done with the object, by the application or a watcher.
LEMMA ErrorStep == ASSUME IInv, Error PROVE IInv'
  BY DEF Error, IInv, TypeOK, SetsEnd, SetsExist, Properties, tables, IsTable

LEMMA AssignStep ==
  ASSUME IInv, NEW n \in Name, NEW v \in Value, Assign(n, v)
  PROVE  IInv'
  <1>1. CASE /\ Direct(n) /\ added' = With(added, n, v)
             /\ UNCHANGED <<tables, watchers, sets, knows, alive>>
    <2>1. n \in Properties
      BY <1>1 DEF Direct, BeingSet, IInv, TypeOK, SetsExist, Properties
    <2>2. IsTable(With(added, n, v)) /\ DOMAIN With(added, n, v) = DOMAIN added \cup {n}
      BY WithIsTable DEF IInv, TypeOK
    <2>3. IsTable(added') /\ DOMAIN added' = DOMAIN added \cup {n}
      BY <1>1, <2>2 DEF IsTable
    <2> QED BY <1>1, <2>1, <2>3
        DEF IInv, TypeOK, SetsEnd, SetsExist, Properties, tables, IsTable
  <1>2. CASE ~Direct(n) /\ Exists(n) /\ CallSet(n, v)
    BY <1>2, CallStep DEF Direct
  <1> QED BY <1>1, <1>2, ErrorStep DEF Assign

LEMMA RegisterStep ==
  ASSUME IInv, NEW n \in Name, NEW v \in Value,
         RegisterPublicProperty(n, v) \/ RegisterProtectedProperty(n, v)
  PROVE  IInv'
  <1>1. \A f \in {public, protected} :
          IsTable(With(f, n, v)) /\ DOMAIN With(f, n, v) = DOMAIN f \cup {n}
    BY WithIsTable DEF IInv, TypeOK
  <1>2. CASE public' = With(public, n, v) /\ UNCHANGED <<protected, watchers, added, sets, knows, alive>>
    <2>1. IsTable(public') /\ DOMAIN public \subseteq DOMAIN public'
      BY <1>1, <1>2 DEF IInv, TypeOK, IsTable
    <2> QED BY <1>2, <2>1 DEF IInv, TypeOK, SetsEnd, SetsExist, Properties, IsTable
  <1>3. CASE protected' = With(protected, n, v) /\ UNCHANGED <<public, watchers, added, sets, knows, alive>>
    <2>1. IsTable(protected') /\ DOMAIN protected \subseteq DOMAIN protected'
      BY <1>1, <1>3 DEF IInv, TypeOK, IsTable
    <2> QED BY <1>3, <2>1 DEF IInv, TypeOK, SetsEnd, SetsExist, Properties, IsTable
  <1> QED BY <1>2, <1>3, ErrorStep DEF RegisterPublicProperty, RegisterProtectedProperty

LEMMA WatchStep ==
  ASSUME IInv, NEW n \in Name, NEW w \in Observer, WatchProperty(n, w)
  PROVE  IInv'
  <1>1. CASE ~Exists(n)
    BY <1>1, ErrorStep DEF WatchProperty
  <1>2. CASE Exists(n)
    <2>1. /\ watchers' = [watchers EXCEPT ![n] = Append(watchers[n], w)]
          /\ knows' = [knows EXCEPT ![n][w] = Read(n)]
          /\ UNCHANGED <<tables, added, sets, alive>>
      BY <1>2 DEF WatchProperty
    <2>2. Append(watchers[n], w) \in Seq(Observer)
      BY AppendProperties DEF IInv, TypeOK
    <2>3. watchers' \in [Name -> Seq(Observer)]
      BY <2>1, <2>2 DEF IInv, TypeOK
    <2>4. Read(n) \in Value
      BY ReadsAreValues DEF IInv
    <2>5. knows' \in [Name -> [Observer -> Value]]
      BY <2>1, <2>4 DEF IInv, TypeOK
    <2> QED BY <2>1, <2>3, <2>5 DEF IInv, TypeOK, SetsEnd, SetsExist, Properties, tables, IsTable
  <1> QED BY <1>1, <1>2

THEOREM StepPreserves == IInv /\ [Next]_vars => IInv'
  <1> SUFFICES ASSUME IInv, [Next]_vars PROVE IInv'
    OBVIOUS
  <1>1. CASE UNCHANGED vars
    BY <1>1 DEF vars, tables, IInv, TypeOK, SetsEnd, SetsExist, Properties, IsTable
  <1>2. ASSUME NEW n \in Name, GetUnknown(n) PROVE IInv'
    BY <1>2, ErrorStep DEF GetUnknown
  <1> QED BY <1>1, <1>2, TellStep, WatcherReturnsStep, SetReturnsStep, AssignStep, RegisterStep,
             WatchStep DEF Next

\* The tables, watchers and calls of __set have their types (Watcher.class.php).
THEOREM TypeCorrect == Spec => []TypeOK
  <1>1. IInv => TypeOK
    BY DEF IInv
  <1> QED BY <1>1, InitEstablishes, StepPreserves, PTL DEF Spec

-------------------------------------------------------------------------------

\* In the polite use nothing is assigned past __set, only what exists is watched, and
\* while a property is assigned its watchers know the value or are still to be told.
KnowsOrIsTold(known, s, w) ==
  \/ known[s.name][w] = s.value
  \/ \E j \in DOMAIN s.left : s.left[j] = w

WatchersAreTold ==
  \A k \in DOMAIN sets : \A i \in DOMAIN watchers[sets[k].name] :
    KnowsOrIsTold(knows, sets[k], watchers[sets[k].name][i])

PInv ==
  /\ DOMAIN added = {}
  /\ \A n \in Name \ Properties : DOMAIN watchers[n] = {}
  /\ WatchersAreTold
  /\ EveryWatcherKnows

THEOREM PoliteInitEstablishes == Init => PInv
  <1> SUFFICES ASSUME Init PROVE PInv
    OBVIOUS
  <1>1. DOMAIN added = {} /\ DOMAIN sets = {} /\ \A n \in Name : DOMAIN watchers[n] = {}
    BY DEF Init
  <1> QED BY <1>1 DEF PInv, WatchersAreTold, EveryWatcherKnows

LEMMA Watching ==
  ASSUME IInv, NEW n \in Name, NEW i \in DOMAIN watchers[n]
  PROVE  watchers[n][i] \in Observer
  BY LenProperties, ElementOfSeq DEF IInv, TypeOK

\* What polite steps leave alone they keep.
LEMMA NothingIsTold ==
  ASSUME IInv, PInv, UNCHANGED <<tables, watchers, added, sets, knows>>
  PROVE  PInv'
  <1>1. Properties' = Properties
    BY DEF Properties, tables
  <1>2. WatchersAreTold'
    BY DEF PInv, WatchersAreTold, KnowsOrIsTold
  <1>3. EveryWatcherKnows'
    BY DEF PInv, EveryWatcherKnows, BeingSet, Read, At, tables
  <1> QED BY <1>1, <1>2, <1>3 DEF PInv

\* The one that is told is the first of those left.
LEMMA PoliteTell ==
  ASSUME IInv, PInv, Tell
  PROVE  PInv'
  <1> DEFINE s == Last(sets)
             w == Head(s.left)
             t == [name |-> s.name, value |-> s.value, left |-> Tail(s.left), told |-> TRUE]
             L == Len(sets)
  <1>1. /\ sets # <<>> /\ s.left # <<>>
        /\ sets' = [sets EXCEPT ![L] = t]
        /\ knows' = [knows EXCEPT ![s.name][w] = s.value]
        /\ UNCHANGED <<tables, watchers, added, alive>>
    BY DEF Tell, MayAct
  <1>2. /\ s \in Set /\ s.name \in Name /\ s.value \in Value /\ s.left \in Seq(Observer)
        /\ L \in DOMAIN sets /\ s = sets[L]
    BY <1>1, LastIsSet DEF Set
  <1>3. /\ w \in Observer /\ Tail(s.left) \in Seq(Observer)
        /\ Len(Tail(s.left)) = Len(s.left) - 1 /\ Len(s.left) \in Nat
        /\ \A i \in 1 .. Len(Tail(s.left)) : Tail(s.left)[i] = s.left[i + 1]
        /\ DOMAIN s.left = 1 .. Len(s.left) /\ DOMAIN Tail(s.left) = 1 .. Len(Tail(s.left))
        /\ w = s.left[1]
    BY <1>1, <1>2, HeadTailProperties, LenProperties
  <1>4. t \in Set /\ t.name = s.name /\ t.value = s.value /\ t.left = Tail(s.left)
    BY <1>2, <1>3 DEF Set
  <1> HIDE DEF s, t, L, w
  <1>5. /\ DOMAIN sets' = DOMAIN sets
        /\ \A k \in DOMAIN sets : sets'[k] = (IF k = L THEN t ELSE sets[k])
    <2>1. t.name = Last(sets).name
      BY <1>4 DEF s
    <2> QED BY <1>1, <1>4, <2>1, GoesOn DEF L
  <1>6. \A k \in DOMAIN sets : sets[k].name = s.name => k = L
    BY <1>2 DEF IInv, SetsEnd
  <1>7. \A n \in Name, v \in Observer :
          knows'[n][v] = IF n = s.name /\ v = w THEN s.value ELSE knows[n][v]
    BY <1>1, <1>2, <1>3 DEF IInv, TypeOK
  <1>8. \A j \in DOMAIN s.left : s.left[j] = w \/ \E i \in DOMAIN t.left : t.left[i] = s.left[j]
    <2> SUFFICES ASSUME NEW j \in DOMAIN s.left, j # 1
                 PROVE  \E i \in DOMAIN t.left : t.left[i] = s.left[j]
      BY <1>3
    <2>1. j - 1 \in 1 .. Len(Tail(s.left)) /\ (j - 1) + 1 = j
      BY <1>3
    <2>2. Tail(s.left)[j - 1] = s.left[j]
      BY <1>3, <2>1
    <2> QED BY <1>3, <1>4, <2>1, <2>2
  <1>9. WatchersAreTold'
    <2> SUFFICES ASSUME NEW k \in DOMAIN sets, NEW i \in DOMAIN watchers'[sets'[k].name]
                 PROVE  KnowsOrIsTold(knows', sets'[k], watchers'[sets'[k].name][i])
      BY <1>1, <1>5 DEF WatchersAreTold
    <2>1. sets'[k].name = sets[k].name /\ sets[k].name \in Name
      BY <1>2, <1>4, <1>5, SetNames
    <2> DEFINE v == watchers[sets[k].name][i]
    <2>2. v \in Observer /\ KnowsOrIsTold(knows, sets[k], v)
      BY <1>1, <2>1, Watching DEF PInv, WatchersAreTold
    <2>3. watchers'[sets'[k].name][i] = v
      BY <1>1, <2>1
    <2> HIDE DEF v
    <2>4. CASE k = L
      <3>1. sets'[k] = t /\ sets[k] = s
        BY <1>2, <1>5, <2>4
      <3>2. knows[s.name][v] = s.value \/ \E j \in DOMAIN s.left : s.left[j] = v
        BY <2>2, <3>1 DEF KnowsOrIsTold
      <3>3. knows'[s.name][v] = s.value \/ \E j \in DOMAIN t.left : t.left[j] = v
        BY <1>2, <1>7, <1>8, <2>2, <3>2
      <3>4. KnowsOrIsTold(knows', t, v)
        BY <1>4, <3>3 DEF KnowsOrIsTold
      <3> QED BY <2>3, <3>1, <3>4
    <2>5. CASE k # L
      <3>1. sets'[k] = sets[k] /\ sets[k].name # s.name
        BY <1>5, <1>6, <2>5
      <3> QED BY <1>7, <2>1, <2>2, <2>3, <3>1 DEF KnowsOrIsTold
    <2> QED BY <2>4, <2>5
  <1>10. EveryWatcherKnows'
    <2> SUFFICES ASSUME NEW n \in Name, ~BeingSet(n)', NEW i \in DOMAIN watchers[n]
                 PROVE  knows'[n][watchers[n][i]] = Read(n)
      BY <1>1 DEF EveryWatcherKnows, Read, At, tables
    <2>1. ~BeingSet(n) /\ n # s.name
      BY <1>2, <1>4, <1>5 DEF BeingSet
    <2> QED BY <1>7, <2>1, Watching DEF PInv, EveryWatcherKnows
  <1> QED BY <1>1, <1>9, <1>10 DEF PInv, Properties, tables

LEMMA PoliteReturn ==
  ASSUME IInv, PInv, WatcherReturns
  PROVE  PInv'
  <1> DEFINE s == Last(sets)
             t == [s EXCEPT !.told = FALSE]
  <1>1. s \in Set /\ Len(sets) \in DOMAIN sets /\ s = sets[Len(sets)] /\ sets # <<>>
    BY LastIsSet DEF WatcherReturns
  <1>2. t \in Set /\ t.name = s.name /\ t.value = s.value /\ t.left = s.left
    BY <1>1 DEF Set
  <1>3. sets' = [sets EXCEPT ![Len(sets)] = t] /\ UNCHANGED <<tables, watchers, added, knows, alive>>
    BY <1>1 DEF WatcherReturns
  <1> HIDE DEF s, t
  <1>4. /\ DOMAIN sets' = DOMAIN sets
        /\ \A k \in DOMAIN sets : sets'[k] = (IF k = Len(sets) THEN t ELSE sets[k])
    <2>1. t.name = Last(sets).name
      BY <1>2 DEF s
    <2> QED BY <1>1, <1>2, <1>3, <2>1, GoesOn
  <1>5. \A k \in DOMAIN sets : /\ sets'[k].name = sets[k].name /\ sets'[k].value = sets[k].value
                               /\ sets'[k].left = sets[k].left
    BY <1>1, <1>2, <1>4
  <1>6. WatchersAreTold'
    BY <1>3, <1>4, <1>5 DEF PInv, WatchersAreTold, KnowsOrIsTold
  <1>7. EveryWatcherKnows'
    BY <1>3, <1>4, <1>5 DEF PInv, EveryWatcherKnows, BeingSet, Read, At, tables
  <1> QED BY <1>3, <1>6, <1>7 DEF PInv, Properties, tables

\* When __set ends all have been told what goes to the public table.
LEMMA PoliteSetReturns ==
  ASSUME IInv, PInv, SetReturns
  PROVE  PInv'
  <1> DEFINE s == Last(sets)
             L == Len(sets)
  <1>1. /\ sets # <<>> /\ s.left = <<>> /\ sets' = Front(sets)
        /\ public' = With(public, s.name, s.value)
        /\ UNCHANGED <<protected, watchers, added, knows, alive>>
    BY DEF SetReturns, MayAct
  <1>2. s.name \in Name /\ s.value \in Value /\ L \in DOMAIN sets /\ s = sets[L]
    BY <1>1, LastIsSet DEF Set
  <1> HIDE DEF s, L
  <1>3. DOMAIN sets' = DOMAIN sets \ {L} /\ \A k \in DOMAIN sets' : sets'[k] = sets[k]
    BY <1>1, FrontKeeps DEF L
  <1>4. /\ DOMAIN With(public, s.name, s.value) = DOMAIN public \cup {s.name}
        /\ \A m \in Name : At(With(public, s.name, s.value), m) = IF m = s.name THEN s.value ELSE At(public, m)
    <2> DEFINE n == s.name
               v == s.value
    <2>1. IsTable(public) /\ n \in Name /\ v \in Value
      BY <1>2 DEF IInv, TypeOK
    <2> HIDE DEF n, v
    <2>2. DOMAIN With(public, n, v) = DOMAIN public \cup {n}
      BY <2>1, WithIsTable
    <2>3. \A m \in Name : At(With(public, n, v), m) = IF m = n THEN v ELSE At(public, m)
      BY AtOfWith
    <2> QED BY <2>2, <2>3 DEF n, v
  <1>5. /\ DOMAIN public' = DOMAIN public \cup {s.name} /\ DOMAIN added = {}
        /\ \A m \in Name : Read(m)' = IF m = s.name THEN s.value ELSE Read(m)
    BY <1>1, <1>4 DEF Read, At, PInv
  <1>6. WatchersAreTold'
    BY <1>1, <1>3 DEF PInv, WatchersAreTold, KnowsOrIsTold
  <1>7. EveryWatcherKnows'
    <2> SUFFICES ASSUME NEW n \in Name, ~BeingSet(n)', NEW i \in DOMAIN watchers[n]
                 PROVE  knows[n][watchers[n][i]] = Read(n)'
      BY <1>1 DEF EveryWatcherKnows
    <2>1. CASE n = s.name
      <3>1. KnowsOrIsTold(knows, s, watchers[n][i])
        BY <1>2, <2>1 DEF PInv, WatchersAreTold
      <3>2. DOMAIN s.left = {}
        BY <1>1
      <3> QED BY <1>5, <2>1, <3>1, <3>2 DEF KnowsOrIsTold
    <2>2. CASE n # s.name
      <3>1. ~BeingSet(n)
        BY <1>2, <1>3, <2>2 DEF BeingSet
      <3> QED BY <1>5, <2>2, <3>1 DEF PInv, EveryWatcherKnows
    <2> QED BY <2>1, <2>2
  <1> QED BY <1>1, <1>5, <1>6, <1>7 DEF PInv, Properties

\* A property that is registered has no watchers yet.
LEMMA PoliteRegister ==
  ASSUME IInv, PInv, NEW n \in Name \ Properties, NEW v \in Value,
         RegisterPublicProperty(n, v) \/ RegisterProtectedProperty(n, v)
  PROVE  PInv'
  <1>1. CASE Error
    BY <1>1, NothingIsTold DEF Error
  <1>2. CASE ~Error
    <2>1. /\ public' = With(public, n, v) \/ UNCHANGED public
          /\ protected' = With(protected, n, v) \/ UNCHANGED protected
          /\ UNCHANGED <<watchers, added, sets, knows>>
      BY <1>2 DEF RegisterPublicProperty, RegisterProtectedProperty
    <2>2. /\ DOMAIN With(public, n, v) = DOMAIN public \cup {n}
          /\ DOMAIN With(protected, n, v) = DOMAIN protected \cup {n}
          /\ \A m \in Name : At(With(public, n, v), m) = IF m = n THEN v ELSE At(public, m)
      <3>1. IsTable(public) /\ IsTable(protected)
        BY DEF IInv, TypeOK
      <3>2. /\ DOMAIN With(public, n, v) = DOMAIN public \cup {n}
            /\ DOMAIN With(protected, n, v) = DOMAIN protected \cup {n}
        BY <3>1, WithIsTable
      <3>3. \A m \in Name : At(With(public, n, v), m) = IF m = n THEN v ELSE At(public, m)
        BY AtOfWith
      <3> QED BY <3>2, <3>3
    <2>3. \A m \in Name \ {n} : Read(m)' = Read(m)
      BY <2>1, <2>2 DEF Read, At, PInv
    <2>4. Properties \subseteq Properties'
      BY <2>1, <2>2 DEF Properties
    <2>5. DOMAIN watchers[n] = {}
      BY DEF PInv
    <2>6. EveryWatcherKnows'
      BY <2>1, <2>3, <2>5 DEF PInv, EveryWatcherKnows, BeingSet
    <2>7. WatchersAreTold'
      BY <2>1 DEF PInv, WatchersAreTold, KnowsOrIsTold
    <2> QED BY <2>1, <2>4, <2>6, <2>7 DEF PInv
  <1> QED BY <1>1, <1>2

\* Those to be told of an assignment are the watchers, all of them.
LEMMA PoliteAssign ==
  ASSUME IInv, PInv, NEW n \in Name, ~BeingSet(n), NEW v \in Value, Assign(n, v)
  PROVE  PInv'
  <1>1. CASE Error
    BY <1>1, NothingIsTold DEF Error
  <1>2. CASE CallSet(n, v)
    <2> DEFINE s == [name |-> n, value |-> v, left |-> watchers[n], told |-> FALSE]
    <2>1. sets' = Append(sets, s) /\ UNCHANGED <<tables, watchers, added, knows>>
      BY <1>2 DEF CallSet, Told
    <2>2. s \in Set /\ s.name = n /\ s.left = watchers[n] /\ sets \in Seq(Set)
      BY DEF IInv, TypeOK, Set
    <2> HIDE DEF s
    <2>3. /\ sets' \in Seq(Set) /\ Len(sets') = Len(sets) + 1
          /\ \A i \in 1 .. Len(sets) : sets'[i] = sets[i]
          /\ sets'[Len(sets) + 1] = s
      BY <2>1, <2>2, AppendProperties
    <2>4. /\ DOMAIN sets' = DOMAIN sets \cup {Len(sets) + 1}
          /\ \A i \in DOMAIN sets : sets'[i] = sets[i]
      BY <2>2, <2>3, LenProperties
    <2>5. WatchersAreTold'
      <3> SUFFICES ASSUME NEW k \in DOMAIN sets', NEW i \in DOMAIN watchers'[sets'[k].name]
                   PROVE  KnowsOrIsTold(knows', sets'[k], watchers'[sets'[k].name][i])
        BY <2>1 DEF WatchersAreTold
      <3>1. CASE k \in DOMAIN sets
        BY <2>1, <2>4, <3>1 DEF PInv, WatchersAreTold, KnowsOrIsTold
      <3>2. CASE k = Len(sets) + 1
        BY <2>1, <2>2, <2>3, <3>2 DEF KnowsOrIsTold
      <3> QED BY <2>4, <3>1, <3>2
    <2>6. EveryWatcherKnows'
      BY <2>1, <2>4 DEF PInv, EveryWatcherKnows, BeingSet, Read, At, tables
    <2> QED BY <2>1, <2>5, <2>6 DEF PInv, Properties, tables
  <1> QED BY <1>1, <1>2 DEF Assign, Direct, PInv

\* Who begins to watch can read the value.
LEMMA PoliteWatch ==
  ASSUME IInv, PInv, NEW n \in Name, ~BeingSet(n), NEW w \in Observer, WatchProperty(n, w)
  PROVE  PInv'
  <1>1. CASE ~Exists(n)
    BY <1>1, NothingIsTold DEF WatchProperty, Error
  <1>2. CASE Exists(n)
    <2>1. /\ watchers' = [watchers EXCEPT ![n] = Append(watchers[n], w)]
          /\ knows' = [knows EXCEPT ![n][w] = Read(n)]
          /\ UNCHANGED <<tables, added, sets>>
      BY <1>2 DEF WatchProperty
    <2>2. /\ watchers'[n] = Append(watchers[n], w)
          /\ \A m \in Name \ {n} : watchers'[m] = watchers[m] /\ knows'[m] = knows[m]
          /\ \A o \in Observer : knows'[n][o] = IF o = w THEN Read(n) ELSE knows[n][o]
      BY <2>1 DEF IInv, TypeOK
    <2>3. \A i \in DOMAIN watchers'[n] : \/ watchers'[n][i] = w
                                         \/ i \in DOMAIN watchers[n] /\ watchers'[n][i] = watchers[n][i]
      BY <2>2, AppendProperties, LenProperties DEF IInv, TypeOK
    <2>4. Read(n)' = Read(n) /\ \A m \in Name : Read(m)' = Read(m) /\ BeingSet(m)' = BeingSet(m)
      BY <2>1 DEF Read, At, tables, BeingSet
    <2>5. EveryWatcherKnows'
      <3> SUFFICES ASSUME NEW m \in Name, ~BeingSet(m), NEW i \in DOMAIN watchers'[m]
                   PROVE  knows'[m][watchers'[m][i]] = Read(m)
        BY <2>4 DEF EveryWatcherKnows
      <3>1. CASE m = n
        BY <2>2, <2>3, <3>1, Watching DEF PInv, EveryWatcherKnows
      <3>2. CASE m # n
        BY <2>2, <3>2 DEF PInv, EveryWatcherKnows
      <3> QED BY <3>1, <3>2
    <2>6. \A k \in DOMAIN sets : sets[k].name \in Name \ {n}
      BY SetNames DEF BeingSet
    <2>7. WatchersAreTold'
      BY <2>1, <2>2, <2>6 DEF PInv, WatchersAreTold, KnowsOrIsTold
    <2>8. n \in Properties /\ Properties' = Properties
      BY <1>2, <2>1 DEF Exists, IsSet, Properties, tables
    <2> QED BY <2>1, <2>2, <2>5, <2>7, <2>8 DEF PInv
  <1> QED BY <1>1, <1>2

LEMMA PoliteStep == IInv /\ PInv /\ PoliteNext => PInv'
  BY PoliteTell, PoliteReturn, PoliteSetReturns, PoliteRegister, PoliteAssign, PoliteWatch
  DEF PoliteNext, Properties

(***************************************************************************)
(* As long as the object is used as in Foo and Bar, every watcher knows    *)
(* the value of what it watches, for any properties and number of watchers *)
(* (Watcher.class.php, __set).                                             *)
(***************************************************************************)
THEOREM PoliteWatchersAlwaysKnow == MCSpec => []PoliteWatchersKnow
  <1> DEFINE Inv == IInv /\ (polite => PInv)
  <1>1. MCInit => Inv
    BY InitEstablishes, PoliteInitEstablishes DEF MCInit
  <1>2. Inv /\ [MCNext]_<<vars, polite>> => Inv'
    <2> SUFFICES ASSUME Inv, [MCNext]_<<vars, polite>> PROVE Inv'
      OBVIOUS
    <2>1. CASE MCNext
      BY <2>1, StepPreserves, PoliteStep DEF MCNext
    <2>2. CASE UNCHANGED <<vars, polite>>
      BY <2>2, StepPreserves, NothingIsTold DEF vars, tables
    <2> QED BY <2>1, <2>2
  <1>3. Inv => PoliteWatchersKnow
    BY DEF PInv, PoliteWatchersKnow
  <1> QED BY <1>1, <1>2, <1>3, PTL DEF MCSpec

================================================================================
