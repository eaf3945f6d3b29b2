----------------------------- MODULE ProgramsProofs -----------------------------
(***************************************************************************)
(* What holds of the programs of MCPrograms, which are on their own, for   *)
(* any constants: of Zombie, ModuleManager, Gcd, MemAlloc and              *)
(* ProcessLookup, in that order.  Each has its inductive invariant; the    *)
(* theorems are at the end.                                                *)
(***************************************************************************)
EXTENDS MCPrograms, Integers, FiniteSetTheorems, SequenceTheorems,
        WellFoundedInduction, NaturalsInduction, TLAPS

\* A reference is to a life that has begun, and of the object of that life: Alloc takes
\* an address without one, and no step ends it.
LivesAgree ==
  /\ \A a \in Address :
       /\ heap[a].life <= lives
       /\ heap[a].isa = "Zombie" => heap[a].zombieTrace
       /\ heap[a].life > 0 /\ heap[a].isa # "Zombie" => heap[a].isa \in Class /\ heap[a].count > 0
  /\ \A r \in refs : r.at \in Address /\ heap[r.at].life = r.life

ZombieIInv == ZombieTypeOK /\ LivesAgree /\ ReferencesFindTheirObject

LEMMA ZombieInitially == ZombieInit => ZombieIInv
  BY ZombieAssumption DEF ZombieInit, ZombieIInv, ZombieTypeOK, LivesAgree, ReferencesFindTheirObject,
     Nothing, Classes, isDead

\* The objects that there may be at an address.
Thing == [life : 0 .. MaxLives, isa : Classes, count : 0 .. MaxRetained,
          zombieClass : Classes, zombieTrace : BOOLEAN]

\* A step that changes the object at one address keeps the invariant if the new object
\* has the life of the old one, and is as it was or has died of what it was.
LEMMA ObjectChanges ==
  ASSUME ZombieIInv, NEW r \in refs, NEW new \in Thing,
         heap' = [heap EXCEPT ![r.at] = new],
         UNCHANGED <<refs, lives>>, logged' \in Classes, state' \in {"runs", "trapped", "killed"},
         new.life = heap[r.at].life,
         \/ new.isa = heap[r.at].isa /\ new.isa # "Zombie" /\ new.count > 0
         \/ new.isa = "Zombie" /\ new.zombieClass = heap[r.at].isa /\ new.zombieTrace
  PROVE  ZombieIInv'
  <1>1. heap \in [Address -> Thing] /\ r.at \in Address
    BY DEF ZombieIInv, ZombieTypeOK, LivesAgree, Thing
  <1>2. heap' \in [Address -> Thing]
    BY <1>1
  <1>3. ZombieTypeOK'
    BY <1>2 DEF ZombieIInv, ZombieTypeOK, Thing
  <1>4. \A a \in Address : heap'[a] = IF a = r.at THEN new ELSE heap[a]
    BY <1>1
  <1>5. \A a \in Address : heap'[a].life = heap[a].life
    BY <1>4
  <1>6. LivesAgree'
    <2>1. \A q \in refs' : q.at \in Address /\ heap'[q.at].life = q.life
      BY <1>5 DEF ZombieIInv, LivesAgree
    <2>2. heap[r.at].life > 0
      BY DEF ZombieIInv, LivesAgree, ZombieTypeOK
    <2>3. \A a \in Address : /\ heap'[a].life <= lives'
                             /\ heap'[a].isa = "Zombie" => heap'[a].zombieTrace
      BY <1>4, <1>5 DEF ZombieIInv, LivesAgree
    <2>4. \A a \in Address : heap'[a].life > 0 /\ heap'[a].isa # "Zombie" =>
                               heap'[a].isa \in Class /\ heap'[a].count > 0
      BY <1>4, <1>5, <2>2 DEF ZombieIInv, LivesAgree
    <2> QED BY <2>1, <2>3, <2>4 DEF LivesAgree
  <1>7. ReferencesFindTheirObject'
    <2> SUFFICES ASSUME NEW q \in refs
                 PROVE  /\ heap'[q.at].life = q.life
                        /\ heap'[q.at].isa = "Zombie" =>
                             heap'[q.at].zombieClass \in {q.class, "Zombie"} /\ heap'[q.at].zombieTrace
                        /\ heap'[q.at].isa # "Zombie" => heap'[q.at].isa = q.class /\ heap'[q.at].count > 0
      BY DEF ReferencesFindTheirObject, isDead
    <2>1. q.at \in Address /\ heap[q.at].life = q.life
      BY DEF ZombieIInv, LivesAgree
    <2>2. /\ heap[q.at].isa = "Zombie" =>
               heap[q.at].zombieClass \in {q.class, "Zombie"} /\ heap[q.at].zombieTrace
          /\ heap[q.at].isa # "Zombie" => heap[q.at].isa = q.class /\ heap[q.at].count > 0
      BY DEF ZombieIInv, ReferencesFindTheirObject, isDead
    <2>3. CASE q.at = r.at
      BY <1>4, <2>1, <2>2, <2>3
    <2>4. CASE q.at # r.at
      BY <1>4, <2>1, <2>2, <2>4
    <2> QED BY <2>3, <2>4
  <1> QED BY <1>3, <1>6, <1>7 DEF ZombieIInv

\* Nor do those that leave the objects as they are.
LEMMA ObjectsStay ==
  ASSUME ZombieIInv, UNCHANGED <<heap, refs, lives>>, logged' \in Classes,
         state' \in {"runs", "trapped", "killed"}
  PROVE  ZombieIInv'
  BY DEF ZombieIInv, ZombieTypeOK, LivesAgree, ReferencesFindTheirObject, isDead

\* A new object gets an address that no reference is to.
LEMMA AllocStep ==
  ASSUME ZombieIInv, NEW a \in Address, NEW class \in Class, Alloc(a, class), state = "runs"
  PROVE  ZombieIInv'
  <1> DEFINE new == [life |-> lives + 1, isa |-> class, count |-> 1,
                     zombieClass |-> "none", zombieTrace |-> FALSE]
             ref == [at |-> a, life |-> lives + 1, class |-> class]
  <1>1. /\ heap \in [Address -> Thing] /\ lives \in 0 .. MaxLives /\ lives < MaxLives
        /\ heap' = [heap EXCEPT ![a] = new] /\ refs' = refs \cup {ref} /\ lives' = lives + 1
        /\ UNCHANGED <<logged, state>> /\ heap[a].life = 0
    BY DEF ZombieIInv, ZombieTypeOK, Alloc, Thing
  <1>3. new \in Thing /\ lives + 1 \in 1 .. MaxLives
    BY <1>1, ZombieAssumption DEF Thing, Classes
  <1>4. heap' \in [Address -> Thing]
    BY <1>1, <1>3
  <1>5. \A b \in Address : heap'[b] = IF b = a THEN new ELSE heap[b]
    BY <1>1
  <1>6. class # "Zombie" /\ new.isa = class /\ new.count = 1 /\ new.life = lives + 1
    BY ZombieAssumption
  <1> HIDE DEF new
  <1>7. \A r \in refs : r.at # a /\ r.at \in Address
    BY <1>1 DEF ZombieIInv, ZombieTypeOK, LivesAgree
  <1>8. ZombieTypeOK'
    BY <1>1, <1>3, <1>4 DEF ZombieIInv, ZombieTypeOK, Thing
  <1>9. LivesAgree'
    <2>1. \A r \in refs' : r.at \in Address /\ heap'[r.at].life = r.life
      BY <1>1, <1>5, <1>6, <1>7 DEF ZombieIInv, LivesAgree
    <2>2. \A b \in Address : heap[b].life \in Nat /\ heap[b].life <= lives
      BY <1>1 DEF ZombieIInv, LivesAgree, Thing
    <2>3. \A b \in Address : heap'[b].life <= lives'
      BY <1>1, <1>5, <1>6, <2>2
    <2>4. \A b \in Address : heap'[b].isa = "Zombie" => heap'[b].zombieTrace
      BY <1>5, <1>6 DEF ZombieIInv, LivesAgree
    <2>5. \A b \in Address : heap'[b].life > 0 /\ heap'[b].isa # "Zombie" =>
                               heap'[b].isa \in Class /\ heap'[b].count > 0
      BY <1>5, <1>6 DEF ZombieIInv, LivesAgree
    <2> QED BY <2>1, <2>3, <2>4, <2>5 DEF LivesAgree
  <1>10. ReferencesFindTheirObject'
    <2>1. ASSUME NEW r \in refs
          PROVE  heap'[r.at] = heap[r.at]
      BY <1>5, <1>7
    <2>2. heap'[ref.at] = new
      BY <1>5
    <2> QED BY <1>1, <1>6, <2>1, <2>2 DEF ZombieIInv, ReferencesFindTheirObject, isDead
  <1> QED BY <1>8, <1>9, <1>10 DEF ZombieIInv

\* The object becomes a zombie, for the first time or again.
LEMMA DeallocStep ==
  ASSUME ZombieIInv, NEW r \in refs, zombie_dealloc(r.at), UNCHANGED <<refs, lives, logged, state>>
  PROVE  ZombieIInv'
  <1> DEFINE new == [life |-> heap[r.at].life, isa |-> "Zombie", count |-> 0,
                     zombieClass |-> heap[r.at].isa, zombieTrace |-> TRUE]
  <1>1. heap \in [Address -> Thing] /\ r.at \in Address /\ heap[r.at] \in Thing
    BY DEF ZombieIInv, ZombieTypeOK, LivesAgree, Thing
  <1>2. heap' = [heap EXCEPT ![r.at] = new]
    BY DEF zombie_dealloc
  <1>3. new \in Thing
    BY <1>1, ZombieAssumption DEF Thing, Classes
  <1>4. /\ new.life = heap[r.at].life /\ new.isa = "Zombie"
        /\ new.zombieClass = heap[r.at].isa /\ new.zombieTrace
    OBVIOUS
  <1>5. logged' \in Classes /\ state' \in {"runs", "trapped", "killed"}
    BY DEF ZombieIInv, ZombieTypeOK
  <1> QED BY <1>2, <1>3, <1>4, <1>5, ObjectChanges

\* retain, and every release but the last, change the count of a live object.
LEMMA CountStep ==
  ASSUME ZombieIInv, NEW r \in refs, ~isDead(r.at), NEW k \in 1 .. MaxRetained,
         heap' = [heap EXCEPT ![r.at].count = k], UNCHANGED <<refs, lives, logged, state>>
  PROVE  ZombieIInv'
  <1> DEFINE new == [heap[r.at] EXCEPT !.count = k]
  <1>1. heap \in [Address -> Thing] /\ r.at \in Address /\ heap[r.at] \in Thing
    BY DEF ZombieIInv, ZombieTypeOK, LivesAgree, Thing
  <1>2. new \in Thing /\ new.life = heap[r.at].life /\ new.isa = heap[r.at].isa
        /\ new.count = k /\ k > 0
    BY <1>1, ZombieAssumption DEF Thing
  <1>3. heap' = [heap EXCEPT ![r.at] = new]
    BY <1>1
  <1>4. logged' \in Classes /\ state' \in {"runs", "trapped", "killed"}
    BY DEF ZombieIInv, ZombieTypeOK
  <1>5. new.isa # "Zombie"
    BY <1>2 DEF isDead
  <1> QED BY <1>2, <1>3, <1>4, <1>5, ObjectChanges

\* Messages to an object, dead or alive.
LEMMA SendStep ==
  ASSUME ZombieIInv, state = "runs", NEW r \in refs, NEW message \in Messages, Send(r.at, message)
  PROVE  ZombieIInv'
  <1>1. /\ heap[r.at] \in Thing /\ logged \in Classes /\ r.at \in Address
        /\ ~isDead(r.at) => heap[r.at].count \in 1 .. MaxRetained
    BY ZombieAssumption DEF ZombieIInv, ZombieTypeOK, LivesAgree, ReferencesFindTheirObject, Thing
  <1>2. CASE isDead(r.at)
    <2>1. CASE logCall(r.at)
      <3>1. heap[r.at].zombieClass \in Classes
        BY <1>1 DEF Thing
      <3> QED BY <2>1, <3>1, ObjectsStay DEF logCall
    <2>2. CASE UNCHANGED zombieVars
      BY <1>1, <2>2, ObjectsStay DEF zombieVars, ZombieIInv, ZombieTypeOK
    <2> QED BY <1>2, <2>1, <2>2 DEF Send, ToDead
  <1>3. CASE ~isDead(r.at) /\ Retain(r.at)
    <2>1. heap[r.at].count + 1 \in 1 .. MaxRetained
      BY <1>1, <1>3, ZombieAssumption DEF Retain
    <2>2. heap' = [heap EXCEPT ![r.at].count = heap[r.at].count + 1]
      BY <1>3 DEF Retain
    <2> QED BY <1>3, <2>1, <2>2, CountStep DEF Retain
  <1>4. CASE ~isDead(r.at) /\ Release(r.at)
    <2>1. CASE heap[r.at].count = 1
      BY <1>4, <2>1, DeallocStep DEF Release
    <2>2. CASE heap[r.at].count # 1
      <3>1. heap[r.at].count - 1 \in 1 .. MaxRetained
        BY <1>1, <1>4, <2>2, ZombieAssumption
      <3>2. heap' = [heap EXCEPT ![r.at].count = heap[r.at].count - 1]
        BY <1>4, <2>2 DEF Release
      <3> QED BY <1>4, <3>1, <3>2, CountStep DEF Release
    <2> QED BY <2>1, <2>2
  <1>5. CASE UNCHANGED <<heap, refs, lives, logged>> /\ state' \in {state, "killed"}
    BY <1>1, <1>5, ObjectsStay
  <1> QED BY <1>2, <1>3, <1>4, <1>5 DEF Send, ToLive, zombieVars

LEMMA ZombieStep == ZombieIInv /\ [ZombieNext]_zombieVars => ZombieIInv'
  <1> SUFFICES ASSUME ZombieIInv, [ZombieNext]_zombieVars PROVE ZombieIInv'
    OBVIOUS
  <1>1. CASE UNCHANGED zombieVars
    BY <1>1, ObjectsStay DEF zombieVars, ZombieIInv, ZombieTypeOK
  <1>2. ASSUME state = "runs", NEW a \in Address, NEW class \in Class, Alloc(a, class)
        PROVE  ZombieIInv'
    BY <1>2, AllocStep
  <1>3. ASSUME state = "runs", NEW r \in refs, NEW message \in Messages, Send(r.at, message)
        PROVE  ZombieIInv'
    BY <1>3, SendStep
  <1>4. ASSUME NEW r \in refs, Dealloc(r.at)
        PROVE  ZombieIInv'
    BY <1>4, DeallocStep DEF Dealloc
  <1>5. CASE Resume
    BY <1>5, ObjectsStay DEF Resume, ZombieIInv, ZombieTypeOK
  <1> QED BY <1>1, <1>2, <1>3, <1>4, <1>5 DEF ZombieNext

-------------------------------------------------------------------------------

\* Nothing is registered before there is a manager.
ManagerIInv == ModuleTypeOK /\ (_instance = null => _moduleClasses = Array)

LEMMA ArrayType == Array \in [Module \cup BuiltIn -> 0 .. ofArrays] /\ undefined # ofArrays
  BY ManagerAssumption DEF Array, ofArrays, undefined

\* The last constructors end, by coming back or by an error.
LEMMA FewerRunning ==
  ASSUME ModuleTypeOK, NEW k \in 0 .. Len(running), running' = SubSeq(running, 1, k)
  PROVE  /\ running' \in Seq([name : Module \cup BuiltIn, object : 1 .. MaxMade])
         /\ Names' \subseteq Names
  <1> DEFINE Constructor == [name : Module \cup BuiltIn, object : 1 .. MaxMade]
  <1>1. running \in Seq(Constructor) /\ Len(running) \in Nat
    BY LenProperties DEF ModuleTypeOK
  <1> HIDE DEF Constructor
  <1>2. 1 \in 1 .. Len(running) + 1 /\ k \in 1 - 1 .. Len(running)
    BY <1>1
  <1>3. /\ SubSeq(running, 1, k) \in Seq(Constructor)
        /\ Len(SubSeq(running, 1, k)) = IF 1 <= k THEN k - 1 + 1 ELSE 0
        /\ \A i \in 1 .. k - 1 + 1 : SubSeq(running, 1, k)[i] = running[1 + i - 1]
    BY <1>1, <1>2, SubSeqProperties
  <1>4. DOMAIN running' = 1 .. k
    <2>1. k \in Nat
      BY <1>1
    <2>2. CASE 1 <= k
      BY <1>3, <2>1, <2>2, LenProperties
    <2>3. CASE k = 0
      BY <1>3, <2>3, LenProperties
    <2> QED BY <2>1, <2>2, <2>3
  <1>5. \A i \in 1 .. k : running'[i] = running[i] /\ i \in DOMAIN running
    BY <1>1, <1>3, LenProperties
  <1> QED BY <1>3, <1>4, <1>5 DEF Names, Constructor

LEMMA ManagerInitially == ModuleInit => ManagerIInv
  BY ArrayType, ManagerAssumption, EmptySeq DEF ModuleInit, ManagerIInv, ModuleTypeOK, null

\* What RegisteredModulesStay says of a step.
ModulesStay ==
  \A n \in Module \cup BuiltIn :
    _moduleClasses[n] # undefined /\ n \notin Names =>
      _moduleClasses'[n] = _moduleClasses[n] /\ n \notin Names'

LEMMA ThrowStep ==
  ASSUME ManagerIInv, Throw
  PROVE  ManagerIInv' /\ ModulesStay
  <1>1. PICK k \in 0 .. Len(running) : running' = SubSeq(running, 1, k)
    BY DEF Throw
  <1>2. /\ running' \in Seq([name : Module \cup BuiltIn, object : 1 .. MaxMade])
        /\ Names' \subseteq Names
    BY <1>1, FewerRunning DEF ManagerIInv
  <1> QED BY <1>2 DEF Throw, ManagerIInv, ModuleTypeOK, ModulesStay

LEMMA ManagerStep ==
  ManagerIInv /\ [ModuleNext]_moduleVars => ManagerIInv' /\ [ModulesStay]_moduleVars
  <1> SUFFICES ASSUME ManagerIInv, [ModuleNext]_moduleVars
               PROVE  ManagerIInv' /\ [ModulesStay]_moduleVars
    OBVIOUS
  <1>1. CASE UNCHANGED moduleVars
    BY <1>1 DEF moduleVars, ManagerIInv, ModuleTypeOK
  <1>2. CASE NewModuleManager
    <2>1. CASE _instance # null
      BY <1>2, <2>1 DEF NewModuleManager, ManagerIInv, ModuleTypeOK, ModulesStay, Names
    <2>2. CASE _instance = null
      BY <1>2, <2>2, ArrayType
      DEF NewModuleManager, ManagerIInv, ModuleTypeOK, ModulesStay, Names, null
    <2> QED BY <2>1, <2>2
  <1>3. CASE getInstance
    BY <1>1, <1>2, <1>3 DEF getInstance
  <1>4. CASE Throw
    BY <1>4, ThrowStep
  <1>5. ASSUME NEW name \in Module \cup BuiltIn, _instance # null, registerModuleClass(name)
        PROVE  ManagerIInv' /\ ModulesStay
    <2>1. CASE _moduleClasses[name] # undefined
      BY <1>5, <2>1, ThrowStep DEF registerModuleClass
    <2>2. CASE _moduleClasses[name] = undefined
      <3> DEFINE Constructor == [name : Module \cup BuiltIn, object : 1 .. MaxMade]
                 new == [name |-> name, object |-> made + 1]
      <3>1. made' = made + 1 /\ made' \in 0 .. MaxMade /\ new \in Constructor
        BY <1>5, <2>2, ManagerAssumption DEF registerModuleClass, ManagerIInv, ModuleTypeOK
      <3>2. running \in Seq(Constructor) /\ running' = Append(running, new)
        BY <1>5, <2>2 DEF registerModuleClass, ManagerIInv, ModuleTypeOK
      <3>3. new.name = name
        OBVIOUS
      <3> HIDE DEF Constructor, new
      <3>4. /\ running' \in Seq(Constructor) /\ Len(running) \in Nat
            /\ DOMAIN running = 1 .. Len(running) /\ DOMAIN running' = 1 .. Len(running) + 1
            /\ running'[Len(running) + 1] = new
            /\ \A i \in 1 .. Len(running) : running'[i] = running[i]
        BY <3>1, <3>2, AppendProperties, LenProperties
      <3>5. Names' \subseteq Names \cup {name}
        BY <3>3, <3>4 DEF Names
      <3>6. UNCHANGED <<_instance, _moduleClasses>>
        BY <1>5, <2>2 DEF registerModuleClass
      <3>7. ManagerIInv'
        BY <3>1, <3>4, <3>6 DEF ManagerIInv, ModuleTypeOK, Constructor
      <3> QED BY <2>2, <3>5, <3>6, <3>7 DEF ModulesStay
    <2> QED BY <2>1, <2>2
  <1>6. CASE \E name \in Module \cup BuiltIn : getModule(name)
    BY <1>1, <1>6, ThrowStep DEF getModule
  <1>7. CASE _instance # null /\ Constructed
    <2> DEFINE last == running[Len(running)]
               n == Len(running) - 1
    <2>1. /\ Len(running) \in Nat /\ Len(running) > 0 /\ Len(running) \in DOMAIN running
          /\ last \in [name : Module \cup BuiltIn, object : 1 .. MaxMade]
      <3> DEFINE Constructor == [name : Module \cup BuiltIn, object : 1 .. MaxMade]
      <3>1. running \in Seq(Constructor) /\ running # <<>>
        BY <1>7 DEF Constructed, ManagerIInv, ModuleTypeOK
      <3> HIDE DEF Constructor
      <3>2. /\ Len(running) \in Nat /\ Len(running) > 0 /\ Len(running) \in DOMAIN running
            /\ last \in Constructor
        BY <3>1, LenProperties, EmptySeq
      <3> QED BY <3>2 DEF Constructor
    <2>2. last.name \in Names /\ last.object \in 0 .. ofArrays /\ last.name \in Module \cup BuiltIn
      <3>1. last.object \in 1 .. MaxMade /\ last.name \in Module \cup BuiltIn
        BY <2>1
      <3>2. last.name \in Names
        BY <2>1 DEF Names
      <3> QED BY <3>1, <3>2, ManagerAssumption DEF ofArrays
    <2>3. /\ _moduleClasses' = [_moduleClasses EXCEPT ![last.name] = last.object]
          /\ running' = SubSeq(running, 1, n) /\ n \in 0 .. Len(running)
          /\ UNCHANGED <<_instance, made>>
      BY <1>7, <2>1 DEF Constructed
    <2> HIDE DEF last, n
    <2>4. /\ running' \in Seq([name : Module \cup BuiltIn, object : 1 .. MaxMade])
          /\ Names' \subseteq Names
      BY <2>3, FewerRunning DEF ManagerIInv
    <2>5. ManagerIInv'
      BY <1>7, <2>2, <2>3, <2>4 DEF ManagerIInv, ModuleTypeOK
    <2>6. ModulesStay
      BY <2>2, <2>3, <2>4 DEF ModulesStay, ManagerIInv, ModuleTypeOK
    <2> QED BY <2>5, <2>6
  <1> QED BY <1>1, <1>2, <1>3, <1>4, <1>5, <1>6, <1>7 DEF ModuleNext

-------------------------------------------------------------------------------

\* Who keeps foo: the threads that use it, and main until it releases it.
Users == {s \in G!Strings : G!Uses(s)}

One(condition) == IF condition THEN 1 ELSE 0

\* How often everything is kept, and which strings have been written.
ThreadsCount ==
  /\ target = Cardinality(Users) + One(detached <= Last + 1)
  /\ \A s \in G!Strings :
       /\ threads[s] = "none" <=> s >= detached
       /\ argument[s] = One(G!Uses(s)) + One(s < detached /\ detached <= Last + 2)
  /\ \A k \in DOMAIN written : threads[written[k]] \in {"flushes", "done"}
  /\ \A j, k \in DOMAIN written : written[j] = written[k] => j = k

ThreadsIInv == G!GcdTypeOK /\ ThreadsCount

\* No more threads than strings.
LEMMA FewThreads ==
  ASSUME NEW S \in SUBSET G!Strings
  PROVE  IsFiniteSet(S) /\ Cardinality(S) \in 0 .. Last
  <1>1. IsFiniteSet(1 .. Last) /\ Cardinality(1 .. Last) = Last
    BY FS_Interval, ThreadsAssumption
  <1>2. S \subseteq 1 .. Last
    BY DEF G!Strings
  <1>3. IsFiniteSet(S) /\ Cardinality(S) <= Last /\ Cardinality(S) \in Nat
    BY <1>1, <1>2, FS_Subset, FS_CardinalityType
  <1> QED BY <1>3, ThreadsAssumption

LEMMA UsersType == IsFiniteSet(Users) /\ Cardinality(Users) \in 0 .. Last
  BY FewThreads DEF Users

LEMMA ThreadsInitially == G!GcdInit => ThreadsIInv
  <1> SUFFICES ASSUME G!GcdInit PROVE ThreadsIInv
    OBVIOUS
  <1>1. Users = {}
    BY DEF G!GcdInit, Users, G!Uses
  <1>2. Cardinality(Users) = 0
    BY <1>1, FS_EmptySet
  <1>3. written = <<>> /\ written \in Seq(G!Strings) /\ DOMAIN written = {}
    BY DEF G!GcdInit
  <1>4. G!GcdTypeOK
    <2>1. detached \in 1 .. Last + 3 /\ target \in 0 .. Last + 1
      BY ThreadsAssumption DEF G!GcdInit
    <2>2. argument \in [G!Strings -> 0 .. 2]
      BY DEF G!GcdInit
    <2>3. threads \in [G!Strings -> {"none", "detached", "writes", "flushes", "done"}]
      BY DEF G!GcdInit
    <2>4. ended \in BOOLEAN
      BY DEF G!GcdInit
    <2> QED BY <1>3, <2>1, <2>2, <2>3, <2>4 DEF G!GcdTypeOK
  <1>5. target = Cardinality(Users) + One(detached <= Last + 1)
    <2>1. detached = 1 /\ target = 1 /\ 1 <= Last + 1
      BY ThreadsAssumption DEF G!GcdInit
    <2> QED BY <1>2, <2>1 DEF One
  <1>6. \A s \in G!Strings :
          /\ threads[s] = "none" <=> s >= detached
          /\ argument[s] = One(G!Uses(s)) + One(s < detached /\ detached <= Last + 2)
    <2> TAKE s \in G!Strings
    <2>1. /\ s >= 1 /\ ~ (s < 1) /\ detached = 1 /\ threads[s] = "none" /\ argument[s] = 0
          /\ ~ G!Uses(s)
      BY DEF G!GcdInit, G!Strings, G!Uses
    <2> QED BY <2>1 DEF One
  <1>7. ThreadsCount
    BY <1>3, <1>5, <1>6 DEF ThreadsCount
  <1> QED BY <1>4, <1>7 DEF ThreadsIInv

LEMMA DetachStep ==
  ASSUME ThreadsIInv, G!Detach
  PROVE  ThreadsIInv'
  <1> USE DEF ThreadsIInv
  <1>1. /\ detached \in G!Strings /\ detached \in 1 .. Last /\ G!Strings = 1 .. Last
        /\ argument' = [argument EXCEPT ![detached] = 2]
        /\ target' = target + 1 /\ threads' = [threads EXCEPT ![detached] = "detached"]
        /\ detached' = detached + 1 /\ UNCHANGED <<written, ended>>
    BY DEF G!Detach, G!Strings
  <1>2. threads[detached] = "none"
    BY <1>1 DEF ThreadsCount
  <1>3. \A s \in G!Strings : threads'[s] = IF s = detached THEN "detached" ELSE threads[s]
    BY <1>1 DEF G!GcdTypeOK
  <1>4. Users' = Users \cup {detached} /\ detached \notin Users
    BY <1>1, <1>2, <1>3 DEF Users, G!Uses
  <1>5. Cardinality(Users') = Cardinality(Users) + 1
    BY <1>4, UsersType, FS_AddElement
  <1>6. target' = Cardinality(Users') + One(detached' <= Last + 1)
    BY <1>1, <1>5, UsersType, ThreadsAssumption DEF ThreadsCount, One
  <1>7. Cardinality(Users') \in 0 .. Last
    <2>1. Users' \in SUBSET G!Strings
      BY DEF Users
    <2> QED BY <2>1, FewThreads
  <1>8. target' \in 0 .. Last + 1
    BY <1>6, <1>7, ThreadsAssumption DEF One
  <1>9. G!GcdTypeOK'
    BY <1>1, <1>8, ThreadsAssumption DEF G!GcdTypeOK
  <1>10. \A s \in G!Strings :
           /\ threads'[s] = "none" <=> s >= detached'
           /\ argument'[s] = One(G!Uses(s)') + One(s < detached' /\ detached' <= Last + 2)
    <2> TAKE s \in G!Strings
    <2>1. CASE s = detached
      <3>1. G!Uses(s)' /\ threads'[s] # "none"
        BY <1>3, <2>1 DEF G!Uses
      <3>2. argument'[s] = 2
        BY <1>1, <2>1 DEF G!GcdTypeOK
      <3> QED BY <1>1, <2>1, <3>1, <3>2, ThreadsAssumption DEF One
    <2>2. CASE s # detached
      <3>1. threads'[s] = threads[s] /\ argument'[s] = argument[s] /\ (G!Uses(s)' <=> G!Uses(s))
        BY <1>1, <1>3, <2>2 DEF G!GcdTypeOK, G!Uses
      <3>2. (threads[s] = "none" <=> s >= detached) /\ (s >= detached <=> s >= detached + 1)
            /\ argument[s] = One(G!Uses(s)) + One(s < detached /\ detached <= Last + 2)
        BY <1>1, <2>2 DEF ThreadsCount
      <3> QED BY <1>1, <2>2, <3>1, <3>2, ThreadsAssumption DEF One
    <2> QED BY <2>1, <2>2
  <1>11. \A k \in DOMAIN written : written[k] \in G!Strings /\ threads'[written[k]] \in {"flushes", "done"}
    <2>1. \A k \in DOMAIN written : written[k] \in G!Strings
      BY LenProperties DEF G!GcdTypeOK
    <2> QED BY <1>2, <1>3, <2>1 DEF ThreadsCount
  <1>12. ThreadsCount'
    BY <1>1, <1>6, <1>10, <1>11 DEF ThreadsCount
  <1> QED BY <1>9, <1>12

\* What main gives back, and how it ends.
LEMMA MainStep ==
  ASSUME ThreadsIInv, G!ReleaseFoo \/ G!ReleasePool \/ G!ReturnFromMain
  PROVE  ThreadsIInv'
  <1> USE DEF ThreadsIInv
  <1>1. Users' = Users /\ \A s \in G!Strings : G!Uses(s)' <=> G!Uses(s)
    BY DEF Users, G!Uses, G!ReleaseFoo, G!ReleasePool, G!ReturnFromMain
  <1>2. Cardinality(Users) \in 0 .. Last
    BY UsersType
  <1>3. CASE G!ReleaseFoo
    <2>1. /\ detached = Last + 1 /\ target' = target - 1 /\ detached' = Last + 2
          /\ UNCHANGED <<argument, threads, written, ended>>
      BY <1>3, ThreadsAssumption DEF G!ReleaseFoo
    <2>2. target = Cardinality(Users) + 1
      BY <2>1, ThreadsAssumption DEF ThreadsCount, One
    <2>3. target' = Cardinality(Users') + One(detached' <= Last + 1) /\ target' \in 0 .. Last + 1
      BY <1>1, <1>2, <2>1, <2>2, ThreadsAssumption DEF One
    <2>4. \A s \in G!Strings : s < Last + 1 /\ s < Last + 2 /\ ~ (s >= Last + 1) /\ ~ (s >= Last + 2)
      BY ThreadsAssumption DEF G!Strings
    <2>5. \A s \in G!Strings :
            /\ threads'[s] = "none" <=> s >= detached'
            /\ argument'[s] = One(G!Uses(s)') + One(s < detached' /\ detached' <= Last + 2)
      <3>1. Last + 1 <= Last + 2 /\ Last + 2 <= Last + 2
        BY ThreadsAssumption
      <3> QED BY <1>1, <2>1, <2>4, <3>1 DEF ThreadsCount, One
    <2>6. G!GcdTypeOK'
      BY <2>1, <2>3, ThreadsAssumption DEF G!GcdTypeOK
    <2>7. ThreadsCount'
      BY <2>1, <2>3, <2>5 DEF ThreadsCount
    <2> QED BY <2>6, <2>7
  <1>4. CASE G!ReleasePool
    <2>1. /\ detached = Last + 2 /\ detached' = Last + 3
          /\ argument' = [s \in G!Strings |-> argument[s] - 1]
          /\ UNCHANGED <<target, threads, written, ended>>
      BY <1>4, ThreadsAssumption DEF G!ReleasePool
    <2>2. target' = Cardinality(Users') + One(detached' <= Last + 1)
      BY <1>1, <2>1, ThreadsAssumption DEF ThreadsCount, One
    <2>3. \A s \in G!Strings : s < Last + 2 /\ ~ (s >= Last + 2) /\ ~ (s >= Last + 3)
      BY ThreadsAssumption DEF G!Strings
    <2>4. \A s \in G!Strings :
            /\ threads'[s] = "none" <=> s >= detached'
            /\ argument'[s] = One(G!Uses(s)') + One(s < detached' /\ detached' <= Last + 2)
            /\ argument'[s] \in 0 .. 2
      <3> TAKE s \in G!Strings
      <3>1. argument[s] = One(G!Uses(s)) + 1
        <4>1. s < detached /\ detached <= Last + 2
          BY <2>1, <2>3, ThreadsAssumption
        <4> QED BY <4>1 DEF ThreadsCount, One
      <3>2. argument'[s] = argument[s] - 1 /\ ~ (detached' <= Last + 2)
        BY <2>1, ThreadsAssumption
      <3>3. threads'[s] = "none" <=> s >= detached'
        BY <2>1, <2>3 DEF ThreadsCount
      <3> QED BY <1>1, <3>1, <3>2, <3>3 DEF One
    <2>5. G!GcdTypeOK'
      BY <2>1, <2>4, ThreadsAssumption DEF G!GcdTypeOK
    <2>6. ThreadsCount'
      BY <2>1, <2>2, <2>4 DEF ThreadsCount
    <2> QED BY <2>5, <2>6
  <1>5. CASE G!ReturnFromMain
    <2>1. UNCHANGED <<detached, target, argument, threads, written>> /\ ended' \in BOOLEAN
      BY <1>5 DEF G!ReturnFromMain
    <2>2. G!GcdTypeOK'
      BY <2>1 DEF G!GcdTypeOK
    <2>3. target' = Cardinality(Users') + One(detached' <= Last + 1)
      BY <1>1, <2>1 DEF ThreadsCount
    <2>4. \A s \in G!Strings :
            /\ threads'[s] = "none" <=> s >= detached'
            /\ argument'[s] = One(G!Uses(s)') + One(s < detached' /\ detached' <= Last + 2)
      BY <1>1, <2>1 DEF ThreadsCount, One
    <2>5. ThreadsCount'
      BY <2>1, <2>3, <2>4 DEF ThreadsCount
    <2> QED BY <2>2, <2>5
  <1> QED BY <1>3, <1>4, <1>5

\* A thread comes from one place in log: to the next.
LEMMA LogStep ==
  ASSUME ThreadsIInv, NEW s \in G!Strings, G!Log(s)
  PROVE  ThreadsIInv'
  <1> USE DEF ThreadsIInv
  <1>1. UNCHANGED <<detached, ended>> /\ threads \in [G!Strings -> {"none", "detached", "writes", "flushes", "done"}]
        /\ written \in Seq(G!Strings) /\ argument \in [G!Strings -> 0 .. 2]
    BY DEF G!Log, G!GcdTypeOK
  <1>2. \A k \in DOMAIN written : written[k] \in G!Strings
    BY <1>1, LenProperties
  <1>3. \A q \in G!Strings :
          /\ threads[q] = "none" <=> q >= detached
          /\ argument[q] = One(G!Uses(q)) + One(q < detached /\ detached <= Last + 2)
    BY DEF ThreadsCount
  <1>4. CASE G!To(s, "detached", "writes") /\ UNCHANGED <<target, argument, written>>
    <2>1. /\ threads[s] = "detached"
          /\ \A q \in G!Strings : threads'[q] = IF q = s THEN "writes" ELSE threads[q]
          /\ threads' \in [G!Strings -> {"none", "detached", "writes", "flushes", "done"}]
      BY <1>1, <1>4 DEF G!To
    <2>2. \A q \in G!Strings : (G!Uses(q)' <=> G!Uses(q)) /\ (threads'[q] = "none" <=> threads[q] = "none")
      BY <2>1 DEF G!Uses
    <2>3. Users' = Users
      BY <2>2 DEF Users
    <2>4. \A k \in DOMAIN written : threads'[written[k]] \in {"flushes", "done"}
      BY <1>2, <2>1 DEF ThreadsCount
    <2>5. G!GcdTypeOK'
      BY <1>1, <1>4, <2>1 DEF G!GcdTypeOK
    <2>6. \A q \in G!Strings :
            /\ threads'[q] = "none" <=> q >= detached'
            /\ argument'[q] = One(G!Uses(q)') + One(q < detached' /\ detached' <= Last + 2)
      BY <1>1, <1>3, <1>4, <2>2 DEF One
    <2>7. target' = Cardinality(Users') + One(detached' <= Last + 1)
      BY <1>1, <1>4, <2>3 DEF ThreadsCount
    <2>8. ThreadsCount'
      BY <1>4, <2>4, <2>6, <2>7 DEF ThreadsCount
    <2> QED BY <2>5, <2>8
  <1>5. CASE /\ G!To(s, "writes", "flushes")
             /\ written' = Append(written, s)
             /\ UNCHANGED <<target, argument>>
    <2>1. /\ threads[s] = "writes"
          /\ \A q \in G!Strings : threads'[q] = IF q = s THEN "flushes" ELSE threads[q]
          /\ threads' \in [G!Strings -> {"none", "detached", "writes", "flushes", "done"}]
      BY <1>1, <1>5 DEF G!To
    <2>2. \A q \in G!Strings : (G!Uses(q)' <=> G!Uses(q)) /\ (threads'[q] = "none" <=> threads[q] = "none")
      BY <2>1 DEF G!Uses
    <2>3. Users' = Users
      BY <2>2 DEF Users
    <2>4. /\ Len(written) \in Nat /\ DOMAIN written = 1 .. Len(written)
          /\ written' \in Seq(G!Strings) /\ DOMAIN written' = 1 .. Len(written) + 1
          /\ written'[Len(written) + 1] = s
          /\ \A k \in 1 .. Len(written) : written'[k] = written[k]
      BY <1>1, <1>5, AppendProperties, LenProperties
    <2>5. \A k \in DOMAIN written : written[k] # s
      BY <2>1 DEF ThreadsCount
    <2>6. \A k \in DOMAIN written' : threads'[written'[k]] \in {"flushes", "done"}
      <3> TAKE k \in DOMAIN written'
      <3>1. CASE k = Len(written) + 1
        BY <2>1, <2>4, <3>1
      <3>2. CASE k # Len(written) + 1
        <4>1. k \in DOMAIN written /\ written'[k] = written[k]
          BY <2>4, <3>2
        <4> QED BY <1>2, <2>1, <2>5, <4>1 DEF ThreadsCount
      <3> QED BY <3>1, <3>2
    <2>7. \A j, k \in DOMAIN written' : written'[j] = written'[k] => j = k
      <3>1. \A k \in DOMAIN written' :
              k = Len(written) + 1 \/ (k \in DOMAIN written /\ written'[k] = written[k])
        BY <2>4
      <3> QED BY <2>4, <2>5, <3>1 DEF ThreadsCount
    <2>8. G!GcdTypeOK'
      BY <1>1, <1>5, <2>1, <2>4 DEF G!GcdTypeOK
    <2>9. \A q \in G!Strings :
            /\ threads'[q] = "none" <=> q >= detached'
            /\ argument'[q] = One(G!Uses(q)') + One(q < detached' /\ detached' <= Last + 2)
      BY <1>1, <1>3, <1>5, <2>2 DEF One
    <2>10. target' = Cardinality(Users') + One(detached' <= Last + 1)
      BY <1>1, <1>5, <2>3 DEF ThreadsCount
    <2>11. ThreadsCount'
      BY <2>6, <2>7, <2>9, <2>10 DEF ThreadsCount
    <2> QED BY <2>8, <2>11
  <1>6. CASE /\ G!To(s, "flushes", "done")
             /\ target' = target - 1 /\ argument' = [argument EXCEPT ![s] = @ - 1]
             /\ UNCHANGED written
    <2>1. /\ threads[s] = "flushes"
          /\ \A q \in G!Strings : threads'[q] = IF q = s THEN "done" ELSE threads[q]
          /\ threads' \in [G!Strings -> {"none", "detached", "writes", "flushes", "done"}]
      BY <1>1, <1>6 DEF G!To
    <2>2. /\ G!Uses(s) /\ ~ (G!Uses(s)')
          /\ \A q \in G!Strings : q # s => (G!Uses(q)' <=> G!Uses(q))
          /\ \A q \in G!Strings : threads'[q] = "none" <=> threads[q] = "none"
      BY <2>1 DEF G!Uses
    <2>3. Users' = Users \ {s} /\ s \in Users
      BY <2>2 DEF Users
    <2>4. Cardinality(Users') = Cardinality(Users) - 1
      BY <2>3, UsersType, FS_RemoveElement
    <2>5. \A k \in DOMAIN written : threads'[written[k]] \in {"flushes", "done"}
      BY <1>2, <2>1 DEF ThreadsCount
    <2>6. target' = Cardinality(Users') + One(detached' <= Last + 1)
      BY <1>1, <1>6, <2>4, UsersType DEF ThreadsCount, One
    <2>7. Cardinality(Users') \in 0 .. Last
      <3>1. Users' \in SUBSET G!Strings
        BY DEF Users
      <3> QED BY <3>1, FewThreads
    <2>8. target' \in 0 .. Last + 1
      BY <2>6, <2>7, ThreadsAssumption DEF One
    <2>9. \A q \in G!Strings :
            /\ threads'[q] = "none" <=> q >= detached'
            /\ argument'[q] = One(G!Uses(q)') + One(q < detached' /\ detached' <= Last + 2)
            /\ argument'[q] \in 0 .. 2
      <3> TAKE q \in G!Strings
      <3>1. argument'[q] = IF q = s THEN argument[q] - 1 ELSE argument[q]
        BY <1>1, <1>6
      <3>2. argument[q] = One(G!Uses(q)) + One(q < detached /\ detached <= Last + 2)
        BY <1>3
      <3>3. threads'[q] = "none" <=> q >= detached'
        BY <1>1, <1>3, <2>2
      <3>4. CASE q = s
        BY <1>1, <2>2, <3>1, <3>2, <3>3, <3>4 DEF One
      <3>5. CASE q # s
        BY <1>1, <2>2, <3>1, <3>2, <3>3, <3>5 DEF One
      <3> QED BY <3>4, <3>5
    <2>10. argument' \in [G!Strings -> 0 .. 2]
      BY <1>1, <1>6, <2>9
    <2>11. G!GcdTypeOK'
      BY <1>1, <1>6, <2>1, <2>8, <2>10 DEF G!GcdTypeOK
    <2>12. ThreadsCount'
      BY <1>6, <2>5, <2>6, <2>9 DEF ThreadsCount
    <2> QED BY <2>11, <2>12
  <1> QED BY <1>4, <1>5, <1>6 DEF G!Log

LEMMA ThreadsStep == ThreadsIInv /\ [G!GcdNext]_ofThreads => ThreadsIInv'
  <1> SUFFICES ASSUME ThreadsIInv, [G!GcdNext]_ofThreads PROVE ThreadsIInv'
    OBVIOUS
  <1>1. CASE UNCHANGED ofThreads
    BY <1>1 DEF ofThreads, ThreadsIInv, G!GcdTypeOK, ThreadsCount, Users, G!Uses
  <1>2. CASE G!GcdNext
    BY <1>2, DetachStep, MainStep, LogStep DEF G!GcdNext
  <1> QED BY <1>1, <1>2

\* Who is counted has a reference, and when nobody is none is left.
LEMMA ThreadsKeep == ThreadsIInv => G!ThreadsKeepTheirs
  <1> SUFFICES ASSUME ThreadsIInv PROVE G!ThreadsKeepTheirs
    OBVIOUS
  <1>1. target = Cardinality(Users) + One(detached <= Last + 1)
    BY DEF ThreadsIInv, ThreadsCount
  <1>2. \A s \in G!Strings :
          argument[s] = One(G!Uses(s)) + One(s < detached /\ detached <= Last + 2)
    BY DEF ThreadsIInv, ThreadsCount
  <1>3. ASSUME NEW s \in G!Strings, G!Uses(s) PROVE target > 0 /\ argument[s] > 0
    <2>1. Users # {}
      BY <1>3 DEF Users
    <2>2. Cardinality(Users) > 0
      BY <2>1, UsersType, FS_EmptySet
    <2> QED BY <1>1, <1>2, <1>3, <2>2, UsersType DEF One
  <1>4. ASSUME detached = Last + 3, \A s \in G!Strings : ~G!Uses(s)
        PROVE  target = 0 /\ \A s \in G!Strings : argument[s] = 0
    <2>1. Users = {}
      BY <1>4 DEF Users
    <2>2. Cardinality(Users) = 0
      BY <2>1, FS_EmptySet
    <2>3. ~ (detached <= Last + 1) /\ ~ (detached <= Last + 2)
      BY <1>4, ThreadsAssumption
    <2> QED BY <1>1, <1>2, <1>4, <2>2, <2>3 DEF One
  <1> QED BY <1>3, <1>4 DEF G!ThreadsKeepTheirs, ThreadsIInv, ThreadsCount

-------------------------------------------------------------------------------

\* Where headers are, in memory that is asked for in one size.
Tiles(s) == {h \in 0 .. end - 1 : h % Block(s) = 0}

\* Blocks of that size are laid out one after the other, and behind them is nothing yet.
\* The last one may go beyond the limit with its footer, but not with its header.
Tiled(s) ==
  /\ end % Block(s) = 0
  /\ \A h \in Tiles(s) :
       /\ h + 2 * HeaderSize <= Limit
       /\ mem[Size(h)] = s
       /\ mem[Available(h)] = IF Given(h, s) \in blocks THEN 0 ELSE 1
  /\ \A b \in blocks : \E h \in Tiles(s) : b = Given(h, s)
  /\ \A a \in 0 .. Limit - 1 : a >= end => mem[a] = 0
  /\ ~shared
  /\ crashed => /\ end + Block(s) > Limit
                /\ end <= Limit => \A h \in Tiles(s) : Given(h, s) \in blocks

MemIInv ==
  /\ MemTypeOK
  /\ IsFiniteSet(asked)
  /\ \A s \in Sizes : asked \subseteq {s} => Tiled(s)

\* Multiples of a number are that number apart.
LEMMA Multiple ==
  ASSUME NEW n \in Nat \ {0}, NEW x \in Nat, x % n = 0
  PROVE  \E k \in Int : x = k * n
  <1>1. x = (x \div n) * n + (x % n) /\ x \div n \in Int
    OBVIOUS
  <1> DEFINE k == x \div n
  <1>2. x = k * n + (x % n) /\ k \in Int /\ k * n \in Int
    BY <1>1
  <1> HIDE DEF k
  <1>3. x = k * n
    BY <1>2
  <1> QED BY <1>2, <1>3

LEMMA MultiplesAreApart ==
  ASSUME NEW n \in Nat \ {0}, NEW x \in Nat, NEW y \in Nat, x % n = 0, y % n = 0, x < y
  PROVE  x + n <= y
  <1>1. PICK j \in Int : x = j * n
    BY Multiple
  <1>2. PICK k \in Int : y = k * n
    BY Multiple
  <1>3. j * n \in Int /\ k * n \in Int
    OBVIOUS
  <1>4. k - j > 0
    <2>1. CASE j >= k
      <3>1. (j - k) * n >= 0
        BY <2>1
      <3>2. (j - k) * n = j * n - k * n
        OBVIOUS
      <3> QED BY <1>1, <1>2, <1>3, <3>1, <3>2
    <2> QED BY <2>1
  <1>5. (k - j - 1) * n >= 0
    BY <1>4
  <1>6. (k - j - 1) * n = k * n - j * n - n
    OBVIOUS
  <1> QED BY <1>1, <1>2, <1>3, <1>5, <1>6

LEMMA NextMultiple ==
  ASSUME NEW n \in Nat \ {0}, NEW x \in Nat, x % n = 0
  PROVE  (x + n) % n = 0
  <1>1. PICK j \in Int : x = j * n
    BY Multiple
  <1> DEFINE y == x + n
             k == y \div n
             r == y % n
  <1>2. y = k * n + r /\ k \in Int /\ r \in 0 .. n - 1 /\ y = x + n
    OBVIOUS
  <1> HIDE DEF y, k, r
  <1>3. (j + 1 - k) * n = j * n + n - k * n /\ j * n \in Int /\ k * n \in Int
    BY <1>2
  <1>4. (j + 1 - k) * n = r
    BY <1>1, <1>2, <1>3
  <1>5. j + 1 - k = 0
    <2>1. CASE j + 1 - k >= 1
      <3>1. (j - k) * n >= 0 /\ (j - k) * n = j * n - k * n
        BY <1>2, <2>1
      <3> QED BY <1>2, <1>3, <1>4, <3>1
    <2>2. CASE j + 1 - k <= 0 - 1
      <3>1. (k - j - 2) * n >= 0 /\ (k - j - 2) * n = k * n - j * n - 2 * n
        BY <1>2, <2>2
      <3> QED BY <1>2, <1>3, <1>4, <3>1
    <2> QED BY <1>2, <2>1, <2>2
  <1>6. r = 0
    BY <1>4, <1>5
  <1> QED BY <1>6 DEF r, y

LEMMA NextTiles ==
  ASSUME NEW n \in Nat \ {0}, NEW x \in Nat, x % n = 0
  PROVE  {h \in 0 .. (x + n) - 1 : h % n = 0} = {h \in 0 .. x - 1 : h % n = 0} \cup {x}
  <1> DEFINE P(h) == h % n = 0
  <1>1. \A h \in Nat : h > x /\ P(h) => x + n <= h
    BY MultiplesAreApart
  <1>2. P(x)
    OBVIOUS
  <1> HIDE DEF P
  <1>3. {h \in 0 .. (x + n) - 1 : P(h)} = {h \in 0 .. x - 1 : P(h)} \cup {x}
    BY <1>1, <1>2
  <1> QED BY <1>3 DEF P

\* The place of a header, and everything of its block, is behind those before it.
LEMMA TileFacts ==
  ASSUME MemTypeOK, NEW s \in Sizes, Tiled(s)
  PROVE  /\ s \in Nat /\ Block(s) \in Nat \ {0} /\ Block(s) = s + 8 /\ end \in Nat
         /\ \A h \in Tiles(s) : /\ h \in Nat /\ h + s + 8 <= end /\ h + 8 <= Limit
                                /\ mem[h + 2] = s
                                /\ mem[h + 1] = IF Given(h, s) \in blocks THEN 0 ELSE 1
         /\ \A g, h \in Tiles(s) : g = h \/ g + s + 8 <= h \/ h + s + 8 <= g
  <1>1. s \in Nat /\ Block(s) \in Nat \ {0} /\ Block(s) = s + 8 /\ end \in Nat
    BY SizesAssumption DEF Block, HeaderSize, MemTypeOK
  <1>2. \A h \in Tiles(s) : h \in Nat /\ h < end /\ h % Block(s) = 0
    BY <1>1 DEF Tiles
  <1>3. \A h \in Tiles(s) : h + Block(s) <= end
    BY <1>1, <1>2, MultiplesAreApart DEF Tiled
  <1>4. \A g, h \in Tiles(s) : g < h => g + Block(s) <= h
    BY <1>1, <1>2, MultiplesAreApart
  <1>5. \A h \in Tiles(s) : /\ h + 8 <= Limit /\ mem[h + 2] = s
                            /\ mem[h + 1] = IF Given(h, s) \in blocks THEN 0 ELSE 1
    BY DEF Tiled, HeaderSize, Size, Available
  <1>6. \A g, h \in Tiles(s) : g = h \/ g + s + 8 <= h \/ h + s + 8 <= g
    <2> TAKE g, h \in Tiles(s)
    <2>1. g \in Nat /\ h \in Nat /\ (g < h => g + (s + 8) <= h) /\ (h < g => h + (s + 8) <= g)
      BY <1>1, <1>2, <1>4
    <2> QED BY <1>1, <2>1
  <1>7. \A h \in Tiles(s) : h + s + 8 <= end
    BY <1>1, <1>2, <1>3
  <1> QED BY <1>1, <1>2, <1>5, <1>6, <1>7

\* The walk does not miss the end.
LEMMA WalkMeetsHeaders ==
  ASSUME MemTypeOK, NEW s \in Sizes, Tiled(s), NEW h \in Nat, h # end, Reaches(h, s)
  PROVE  h \in Tiles(s)
  <1>1. Block(s) \in Nat \ {0} /\ end \in Nat /\ h % Block(s) = 0 /\ end % Block(s) = 0
    BY TileFacts DEF Reaches, Tiled
  <1>2. ~ (end < h)
    BY <1>1 DEF Reaches
  <1> QED BY <1>1, <1>2 DEF Tiles

\* When it comes to the end, everything is held.
LEMMA WalkPassesHeld ==
  ASSUME MemTypeOK, NEW s \in Sizes, Tiled(s), Reaches(end, s)
  PROVE  \A h \in Tiles(s) : Given(h, s) \in blocks
  <1> TAKE h \in Tiles(s)
  <1>1. MayPass(h, s)
    BY TileFacts DEF Reaches, Tiles
  <1>2. s \in Nat /\ mem[h + 2] = s /\ mem[h + 1] = IF Given(h, s) \in blocks THEN 0 ELSE 1
    BY TileFacts
  <1> QED BY <1>1, <1>2 DEF MayPass, Fits, Size, Available

LEMMA Stored ==
  ASSUME MemTypeOK, NEW words, \A a \in DOMAIN words : words[a] \in Nat, Store(words)
  PROVE  /\ mem' \in [0 .. Limit - 1 -> Nat]
         /\ \A a \in 0 .. Limit - 1 : mem'[a] = IF a \in DOMAIN words THEN words[a] ELSE mem[a]
  BY DEF MemTypeOK, Store

LEMMA HeaderType ==
  ASSUME NEW s \in Nat
  PROVE  /\ \A k \in 1 .. 4 : Header(s)[k] \in Nat
         /\ Header(s)[2] = 0 /\ Header(s)[3] = s
  <1>1. Header(s)[1] = Fence /\ Header(s)[2] = 0 /\ Header(s)[3] = s /\ Header(s)[4] = Fence
    BY DEF Header
  <1>2. \A k \in 1 .. 4 : k = 1 \/ k = 2 \/ k = 3 \/ k = 4
    OBVIOUS
  <1> QED BY <1>1, <1>2, LimitAssumption

\* The words of a new block's header and footer, which are apart.
LEMMA HeadersType ==
  ASSUME NEW s \in Nat, NEW h \in Nat, NEW g \in Nat, g >= h + 4
  PROVE  /\ DOMAIN Headers(h, g, s) = h .. h + 3 \cup g .. g + 3
         /\ \A a \in DOMAIN Headers(h, g, s) : Headers(h, g, s)[a] \in Nat
         /\ Headers(h, g, s)[h + 1] = 0 /\ Headers(h, g, s)[h + 2] = s
  <1>1. DOMAIN Headers(h, g, s) = h .. h + 3 \cup g .. g + 3
    BY DEF Headers, HeaderSize
  <1>2. \A a \in DOMAIN Headers(h, g, s) :
          Headers(h, g, s)[a] = Header(s)[1 + IF a < g THEN a - h ELSE a - g]
    BY DEF Headers
  <1>3. \A a \in DOMAIN Headers(h, g, s) : (1 + IF a < g THEN a - h ELSE a - g) \in 1 .. 4
    BY <1>1
  <1>4. h + 1 \in DOMAIN Headers(h, g, s) /\ h + 2 \in DOMAIN Headers(h, g, s)
    BY <1>1
  <1>5. /\ 1 + (IF h + 1 < g THEN h + 1 - h ELSE h + 1 - g) = 2
        /\ 1 + (IF h + 2 < g THEN h + 2 - h ELSE h + 2 - g) = 3
    OBVIOUS
  <1> QED BY <1>1, <1>2, <1>3, <1>4, <1>5, HeaderType

\* Whatever the sizes are, a step keeps the types.
LEMMA MemTypeStep ==
  ASSUME MemTypeOK, IsFiniteSet(asked), MemNext
  PROVE  MemTypeOK' /\ IsFiniteSet(asked')
  <1>1. ASSUME Crash, asked' \subseteq Sizes, IsFiniteSet(asked')
        PROVE  MemTypeOK' /\ IsFiniteSet(asked')
    BY <1>1 DEF Crash, MemTypeOK
  <1>2. ASSUME NEW s \in Sizes, asked' = asked \cup {s}
        PROVE  asked' \subseteq Sizes /\ IsFiniteSet(asked')
    BY <1>2, FS_AddElement DEF MemTypeOK
  <1>3. ASSUME NEW s \in Sizes, NEW h \in Nat
        PROVE  Given(h, s).at \in Nat /\ Given(h, s).size \in Sizes
    BY <1>3 DEF Given, HeaderSize
  <1>4. ASSUME NEW h, NEW g, NEW flag \in Nat, Store(Flags(h, g, flag))
        PROVE  mem' \in [0 .. Limit - 1 -> Nat]
    BY <1>4 DEF MemTypeOK, Store, Flags
  <1>5. ASSUME NEW s \in Sizes, Take(s) PROVE MemTypeOK' /\ IsFiniteSet(asked')
    <2>1. PICK h \in 0 .. Limit \ {end} :
            LET words == Flags(h, h + HeaderSize + s, 0)
            IN  IF Reachable(words)
                THEN Store(words) /\ Give(h, s) /\ UNCHANGED <<end, crashed>>
                ELSE Crash
      BY <1>5 DEF Take
    <2>2. asked' = asked \cup {s}
      BY <1>5 DEF Take
    <2>3. h \in Nat /\ 0 \in Nat
      BY LimitAssumption
    <2>4. CASE Crash
      BY <1>1, <1>2, <2>2, <2>4
    <2>5. CASE /\ Store(Flags(h, h + HeaderSize + s, 0)) /\ Give(h, s)
               /\ UNCHANGED <<end, crashed>>
      <3>1. mem' \in [0 .. Limit - 1 -> Nat]
        BY <1>4, <2>3, <2>5
      <3>2. /\ \A b \in blocks' : b.at \in Nat /\ b.size \in Sizes
            /\ shared' \in BOOLEAN
        BY <1>3, <2>3, <2>5 DEF MemTypeOK, Give
      <3> QED BY <1>2, <2>2, <2>5, <3>1, <3>2 DEF MemTypeOK
    <2> QED BY <2>1, <2>4, <2>5
  <1>6. ASSUME NEW s \in Sizes, Grow(s) PROVE MemTypeOK' /\ IsFiniteSet(asked')
    <2> DEFINE footer == end + mem[Size(end)] + HeaderSize
    <2>1. asked' = asked \cup {s}
      BY <1>6 DEF Grow
    <2>2. CASE Crash
      BY <1>1, <1>2, <2>1, <2>2
    <2>3. CASE /\ Readable(end) /\ Store(Headers(end, footer, s)) /\ Give(end, s)
               /\ end' = end + Block(s) /\ UNCHANGED crashed
      <3>1. end \in Nat /\ s \in Nat /\ Limit \in Nat /\ end + 4 <= Limit
        BY <2>3, SizesAssumption, LimitAssumption DEF MemTypeOK, Readable, HeaderSize
      <3>2. mem[Size(end)] \in Nat
        BY <3>1 DEF MemTypeOK, Size
      <3>3. footer \in Nat /\ footer >= end + 4
        BY <3>1, <3>2 DEF HeaderSize
      <3> HIDE DEF footer
      <3>4. /\ DOMAIN Headers(end, footer, s) = end .. end + 3 \cup footer .. footer + 3
            /\ \A a \in DOMAIN Headers(end, footer, s) : Headers(end, footer, s)[a] \in Nat
        BY <3>1, <3>3, HeaderType, HeadersType
      <3>5. mem' \in [0 .. Limit - 1 -> Nat]
        BY <2>3, <3>4, Stored
      <3>6. end' \in Nat
        BY <2>3, <3>1 DEF Block, HeaderSize
      <3>7. /\ \A b \in blocks' : b.at \in Nat /\ b.size \in Sizes
            /\ shared' \in BOOLEAN
        BY <1>3, <2>3, <3>1 DEF MemTypeOK, Give
      <3> QED BY <1>2, <2>1, <2>3, <3>5, <3>6, <3>7 DEF MemTypeOK
    <2> QED BY <1>6, <2>2, <2>3 DEF Grow
  <1>7. ASSUME NEW s \in Sizes, WalkOff(s) PROVE MemTypeOK' /\ IsFiniteSet(asked')
    BY <1>1, <1>2, <1>7 DEF WalkOff
  <1>8. ASSUME NEW b \in blocks, Free(b) PROVE MemTypeOK' /\ IsFiniteSet(asked')
    <2>1. CASE Crash /\ UNCHANGED asked
      BY <1>1, <2>1 DEF MemTypeOK
    <2>2. CASE /\ Store(Marked(b)) /\ blocks' = blocks \ {b}
               /\ UNCHANGED <<end, asked, shared, crashed>>
      <3>1. mem' \in [0 .. Limit - 1 -> Nat]
        BY <1>4, <2>2 DEF Marked
      <3> QED BY <2>2, <3>1 DEF MemTypeOK
    <2> QED BY <1>8, <2>1, <2>2 DEF Free
  <1>9. ASSUME NEW b \in blocks, NEW a \in Words(b), NEW d \in Data, Write(b, a, d)
        PROVE  MemTypeOK' /\ IsFiniteSet(asked')
    <2>1. CASE Crash /\ UNCHANGED asked
      BY <1>1, <2>1 DEF MemTypeOK
    <2>2. CASE /\ mem' = [mem EXCEPT ![a] = d]
               /\ UNCHANGED <<end, blocks, asked, shared, crashed>>
      BY <2>2, SizesAssumption DEF MemTypeOK
    <2> QED BY <1>9, <2>1, <2>2 DEF Write
  <1> QED BY <1>5, <1>6, <1>7, <1>8, <1>9 DEF MemNext

\* A crash leaves the memory as it is; what is to be shown is that none was left.
LEMMA CrashStep ==
  ASSUME NEW s \in Sizes, Tiled(s), Crash, end + Block(s) > Limit,
         end <= Limit => \A h \in Tiles(s) : Given(h, s) \in blocks
  PROVE  Tiled(s)'
  <1>1. UNCHANGED <<mem, end, blocks, shared>>
    BY DEF Crash
  <1>2. Tiles(s)' = Tiles(s)
    BY <1>1 DEF Tiles
  <1> QED BY <1>1, <1>2 DEF Tiled

\* Nor does a step that writes to one block only, and keeps to what its header tells.
LEMMA BlockStep ==
  ASSUME MemTypeOK, MemTypeOK', NEW s \in Sizes, Tiled(s), ~crashed, NEW h \in Tiles(s),
         UNCHANGED <<end, shared, crashed>>,
         \A a \in 0 .. Limit - 1 : (a <= h \/ a = h + 2 \/ a >= h + s + 8) => mem'[a] = mem[a],
         mem'[h + 1] = IF Given(h, s) \in blocks' THEN 0 ELSE 1,
         \A b : b # Given(h, s) => (b \in blocks' <=> b \in blocks)
  PROVE  Tiled(s)'
  <1>1. /\ s \in Nat /\ Limit \in Nat /\ end \in Nat
        /\ \A g \in Tiles(s) : /\ g \in Nat /\ g + s + 8 <= end /\ g + 8 <= Limit
                               /\ mem[g + 2] = s
                               /\ mem[g + 1] = IF Given(g, s) \in blocks THEN 0 ELSE 1
        /\ \A g \in Tiles(s) : g = h \/ g + s + 8 <= h \/ h + s + 8 <= g
    BY TileFacts, LimitAssumption
  <1>2. Tiles(s)' = Tiles(s)
    BY DEF Tiles
  <1>3. ASSUME NEW g \in Tiles(s)
        PROVE  /\ mem'[g + 2] = s
               /\ mem'[g + 1] = IF Given(g, s) \in blocks' THEN 0 ELSE 1
    <2>1. g + 2 \in 0 .. Limit - 1 /\ g + 1 \in 0 .. Limit - 1
      BY <1>1
    <2>2. CASE g = h
      BY <1>1, <2>1, <2>2
    <2>3. CASE g # h
      <3>1. mem'[g + 2] = mem[g + 2] /\ mem'[g + 1] = mem[g + 1]
        BY <1>1, <2>1, <2>3
      <3>2. Given(g, s) # Given(h, s)
        BY <1>1, <2>3 DEF Given, HeaderSize
      <3> QED BY <1>1, <3>1, <3>2
    <2> QED BY <2>2, <2>3
  <1>4. \A b \in blocks' : \E g \in Tiles(s) : b = Given(g, s)
    BY DEF Tiled
  <1>5. \A a \in 0 .. Limit - 1 : a >= end => mem'[a] = 0
    BY <1>1 DEF Tiled
  <1>6. end % Block(s) = 0 /\ ~shared
    BY DEF Tiled
  <1> QED BY <1>1, <1>2, <1>3, <1>4, <1>5, <1>6 DEF Tiled, HeaderSize, Size, Available

\* The flags of a block are written.
LEMMA FlagsStored ==
  ASSUME MemTypeOK, NEW h \in Nat, NEW g \in Nat, NEW flag \in Nat,
         Reachable(Flags(h, g, flag)), Store(Flags(h, g, flag))
  PROVE  /\ mem'[h + 1] = flag
         /\ \A a \in 0 .. Limit - 1 : a # h + 1 /\ a # g + 1 => mem'[a] = mem[a]
  <1>1. /\ DOMAIN Flags(h, g, flag) = {h + 1, g + 1}
        /\ \A a \in {h + 1, g + 1} : Flags(h, g, flag)[a] = flag
    BY DEF Flags, Available
  <1>2. DOMAIN mem = 0 .. Limit - 1
    BY DEF MemTypeOK
  <1> QED BY <1>1, <1>2 DEF Store, Reachable

\* Flags that cannot be written are those of the last block, which goes beyond the limit.
LEMMA FlagsMissed ==
  ASSUME MemTypeOK, NEW s \in Sizes, Tiled(s), NEW h \in Tiles(s),
         ~Reachable(Flags(h, h + HeaderSize + s, 0)) \/ ~Reachable(Flags(h, h + HeaderSize + s, 1))
  PROVE  end > Limit
  <1>1. DOMAIN mem = 0 .. Limit - 1 /\ Limit \in Nat
    BY LimitAssumption DEF MemTypeOK
  <1>2. s \in Nat /\ end \in Nat /\ h \in Nat /\ h + s + 8 <= end /\ h + 8 <= Limit
    BY TileFacts
  <1>3. h + s + 5 > Limit - 1
    BY <1>1, <1>2 DEF Reachable, Flags, Available, HeaderSize
  <1> QED BY <1>1, <1>2, <1>3

\* A block that is given out is not shared.
LEMMA GivenApart ==
  ASSUME NEW s \in Nat, NEW g \in Nat, NEW h \in Nat, g + s + 8 <= h \/ h + s + 8 <= g
  PROVE  Words(Given(g, s)) \cap Words(Given(h, s)) = {}
  <1>1. /\ Words(Given(g, s)) = g + 4 .. g + 4 + s - 1
        /\ Words(Given(h, s)) = h + 4 .. h + 4 + s - 1
    BY DEF Words, Given, HeaderSize
  <1> QED BY <1>1

LEMMA TakeStep ==
  ASSUME MemTypeOK, MemTypeOK', NEW s \in Sizes, Tiled(s), ~crashed, Take(s)
  PROVE  Tiled(s)'
  <1>1. PICK h \in 0 .. Limit \ {end} :
          /\ Reaches(h, s) /\ MayTake(h, s)
          /\ LET words == Flags(h, h + HeaderSize + s, 0)
             IN  IF Reachable(words)
                 THEN Store(words) /\ Give(h, s) /\ UNCHANGED <<end, crashed>>
                 ELSE Crash
    BY DEF Take
  <1>2. h \in Nat /\ h # end
    BY LimitAssumption
  <1>3. h \in Tiles(s)
    BY <1>1, <1>2, WalkMeetsHeaders
  <1>4. /\ s \in Nat /\ end \in Nat /\ h + s + 8 <= end /\ Block(s) \in Nat
        /\ \A g \in Tiles(s) : g \in Nat /\ (g = h \/ g + s + 8 <= h \/ h + s + 8 <= g)
        /\ mem[h + 1] = IF Given(h, s) \in blocks THEN 0 ELSE 1
    BY <1>3, TileFacts
  <1>5. Given(h, s) \notin blocks
    BY <1>1, <1>4 DEF MayTake, Available
  <1>6. CASE ~Reachable(Flags(h, h + HeaderSize + s, 0))
    <2>1. end > Limit
      BY <1>3, <1>6, FlagsMissed
    <2>2. end + Block(s) > Limit /\ ~ (end <= Limit)
      BY <1>4, <2>1, LimitAssumption
    <2> QED BY <1>1, <1>6, <2>2, CrashStep
  <1>7. CASE Reachable(Flags(h, h + HeaderSize + s, 0))
    <2>1. Store(Flags(h, h + HeaderSize + s, 0)) /\ Give(h, s) /\ UNCHANGED <<end, crashed>>
      BY <1>1, <1>7
    <2>2. h + HeaderSize + s \in Nat /\ h + HeaderSize + s + 1 = h + s + 5 /\ 0 \in Nat
      BY <1>2, <1>4 DEF HeaderSize
    <2>3. /\ mem'[h + 1] = 0
          /\ \A a \in 0 .. Limit - 1 : a # h + 1 /\ a # h + s + 5 => mem'[a] = mem[a]
      BY <1>2, <1>7, <2>1, <2>2, FlagsStored
    <2>4. blocks' = blocks \cup {Given(h, s)}
      BY <2>1 DEF Give
    <2>5. ~shared'
      <3>1. \A b \in blocks : Words(b) \cap Words(Given(h, s)) = {}
        <4> TAKE b \in blocks
        <4>1. PICK g \in Tiles(s) : b = Given(g, s)
          BY DEF Tiled
        <4> QED BY <1>2, <1>4, <1>5, <4>1, GivenApart
      <3> QED BY <2>1, <3>1 DEF Give, Tiled
    <2>6. UNCHANGED <<end, shared, crashed>>
      <3>1. shared = FALSE /\ shared' = FALSE
        BY <2>5 DEF MemTypeOK, Tiled
      <3> QED BY <2>1, <3>1
    <2>7. \A a \in 0 .. Limit - 1 : (a <= h \/ a = h + 2 \/ a >= h + s + 8) => mem'[a] = mem[a]
      BY <1>2, <1>4, <2>3
    <2> QED BY <1>3, <2>3, <2>4, <2>6, <2>7, BlockStep
  <1> QED BY <1>6, <1>7

LEMMA FreeStep ==
  ASSUME MemTypeOK, MemTypeOK', NEW s \in Sizes, Tiled(s), ~crashed, NEW b \in blocks, Free(b)
  PROVE  Tiled(s)'
  <1>1. PICK h \in Tiles(s) : b = Given(h, s)
    BY DEF Tiled
  <1>2. /\ s \in Nat /\ end \in Nat /\ h \in Nat /\ h + s + 8 <= end /\ Block(s) \in Nat
        /\ mem[h + 2] = s
    BY <1>1, TileFacts
  <1>3. b.at = h + 4 /\ b.at - HeaderSize = h
    BY <1>1, <1>2 DEF Given, HeaderSize
  <1>4. b.at + mem[Size(h)] = h + HeaderSize + s
    BY <1>2, <1>3 DEF Size, HeaderSize
  <1>5. Marked(b) = Flags(h, h + HeaderSize + s, 1)
    BY <1>3, <1>4 DEF Marked
  <1>6. CASE ~Reachable(Flags(h, h + HeaderSize + s, 1))
    <2>1. end > Limit
      BY <1>6, FlagsMissed
    <2>2. end + Block(s) > Limit /\ ~ (end <= Limit)
      BY <1>2, <2>1, LimitAssumption
    <2> QED BY <1>5, <1>6, <2>2, CrashStep DEF Free
  <1>7. CASE Reachable(Flags(h, h + HeaderSize + s, 1))
    <2>1. /\ Store(Flags(h, h + HeaderSize + s, 1)) /\ blocks' = blocks \ {b}
          /\ UNCHANGED <<end, shared, crashed>>
      BY <1>5, <1>7 DEF Free
    <2>2. h + HeaderSize + s \in Nat /\ h + HeaderSize + s + 1 = h + s + 5 /\ 1 \in Nat
      BY <1>2 DEF HeaderSize
    <2>3. /\ mem'[h + 1] = 1
          /\ \A a \in 0 .. Limit - 1 : a # h + 1 /\ a # h + s + 5 => mem'[a] = mem[a]
      BY <1>2, <1>7, <2>1, <2>2, FlagsStored
    <2>4. \A a \in 0 .. Limit - 1 : (a <= h \/ a = h + 2 \/ a >= h + s + 8) => mem'[a] = mem[a]
      BY <1>2, <2>3
    <2> QED BY <1>1, <2>1, <2>3, <2>4, BlockStep
  <1> QED BY <1>6, <1>7

LEMMA WriteStep ==
  ASSUME MemTypeOK, MemTypeOK', NEW s \in Sizes, Tiled(s), ~crashed,
         NEW b \in blocks, NEW a \in Words(b), NEW d \in Data, Write(b, a, d)
  PROVE  Tiled(s)'
  <1>1. PICK h \in Tiles(s) : b = Given(h, s)
    BY DEF Tiled
  <1>2. /\ s \in Nat /\ end \in Nat /\ h \in Nat /\ h + s + 8 <= end /\ Block(s) \in Nat
        /\ h + 8 <= Limit /\ mem[h + 1] = IF Given(h, s) \in blocks THEN 0 ELSE 1
    BY <1>1, TileFacts
  <1>3. a \in h + 4 .. h + 3 + s
    BY <1>1, <1>2 DEF Words, Given, HeaderSize
  <1>4. DOMAIN mem = 0 .. Limit - 1 /\ Limit \in Nat
    BY LimitAssumption DEF MemTypeOK
  <1>5. CASE a \notin DOMAIN mem
    <2>1. end > Limit
      BY <1>2, <1>3, <1>4, <1>5
    <2>2. end + Block(s) > Limit /\ ~ (end <= Limit)
      BY <1>2, <1>4, <2>1
    <2> QED BY <1>5, <2>2, CrashStep DEF Write
  <1>6. CASE a \in DOMAIN mem
    <2>1. /\ mem' = [mem EXCEPT ![a] = d]
          /\ UNCHANGED <<end, blocks, shared, crashed>>
      BY <1>6 DEF Write
    <2>2. \A c \in 0 .. Limit - 1 : c # a => mem'[c] = mem[c]
      BY <1>4, <2>1
    <2>3. mem'[h + 1] = IF Given(h, s) \in blocks' THEN 0 ELSE 1
      BY <1>2, <1>3, <1>4, <2>1, <2>2
    <2>4. \A c \in 0 .. Limit - 1 : (c <= h \/ c = h + 2 \/ c >= h + s + 8) => mem'[c] = mem[c]
      BY <1>2, <1>3, <2>2
    <2> QED BY <1>1, <2>1, <2>3, <2>4, BlockStep
  <1> QED BY <1>5, <1>6

\* The walk meets headers only, all of which can be read.
LEMMA WalkOffStep ==
  ASSUME MemTypeOK, NEW s \in Sizes, Tiled(s), WalkOff(s)
  PROVE  FALSE
  <1>1. s \in Nat /\ Block(s) \in Nat
    BY TileFacts
  <1>2. PICK h \in 0 .. Limit + Block(s) : h # end /\ Reaches(h, s) /\ ~Readable(h)
    BY DEF WalkOff
  <1>3. h \in Nat
    BY <1>1, LimitAssumption
  <1>4. h \in Tiles(s)
    BY <1>2, <1>3, WalkMeetsHeaders
  <1>5. h + 8 <= Limit
    BY <1>4, TileFacts
  <1> QED BY <1>2, <1>3, <1>5, LimitAssumption DEF Readable, HeaderSize

\* A new block is laid out behind the others, in memory nothing was written to.
LEMMA GrowStep ==
  ASSUME MemTypeOK, MemTypeOK', NEW s \in Sizes, Tiled(s), ~crashed, Grow(s)
  PROVE  Tiled(s)'
  <1> DEFINE footer == end + mem[Size(end)] + HeaderSize
             words  == Headers(end, footer, s)
  <1>1. /\ s \in Nat /\ end \in Nat /\ Block(s) \in Nat \ {0} /\ Block(s) = s + 8 /\ Limit \in Nat
        /\ \A h \in Tiles(s) : /\ h \in Nat /\ h + s + 8 <= end /\ h + 8 <= Limit
                               /\ mem[h + 2] = s
                               /\ mem[h + 1] = IF Given(h, s) \in blocks THEN 0 ELSE 1
    BY TileFacts, LimitAssumption
  <1>2. \A h \in Tiles(s) : Given(h, s) \in blocks
    BY WalkPassesHeld DEF Grow
  <1>3. DOMAIN mem = 0 .. Limit - 1
    BY DEF MemTypeOK
  <1>4. CASE ~Readable(end)
    <2>1. end + Block(s) > Limit
      BY <1>1, <1>4 DEF Readable, HeaderSize
    <2> QED BY <1>2, <1>4, <2>1, CrashStep DEF Grow
  <1>5. CASE Readable(end)
    <2>1. mem[end + 1] = 0 /\ mem[end + 2] = 0 /\ end + 4 <= Limit
      BY <1>1, <1>5 DEF Readable, HeaderSize, Tiled
    <2>2. footer = end + 4
      BY <1>1, <2>1 DEF Size, HeaderSize
    <2> HIDE DEF footer
    <2>3. /\ DOMAIN words = end .. end + 3 \cup end + 4 .. end + 4 + 3
          /\ \A a \in DOMAIN words : words[a] \in Nat
          /\ words[end + 1] = 0 /\ words[end + 2] = s
      <3>1. footer \in Nat /\ footer >= end + 4
        BY <1>1, <2>2
      <3>2. /\ DOMAIN words = end .. end + 3 \cup footer .. footer + 3
            /\ \A a \in DOMAIN words : words[a] \in Nat
            /\ words[end + 1] = 0 /\ words[end + 2] = s
        BY <1>1, <3>1, HeadersType
      <3> QED BY <2>2, <3>2
    <2>4. DOMAIN words = end .. end + 7
      BY <1>1, <2>3
    <2>5. CASE ~Reachable(words)
      <3>1. end + Block(s) > Limit
        BY <1>1, <1>3, <2>4, <2>5 DEF Reachable
      <3> QED BY <1>2, <2>5, <3>1, CrashStep DEF Grow, footer
    <2>6. CASE Reachable(words)
      <3>1. Store(words) /\ Give(end, s) /\ end' = end + Block(s) /\ UNCHANGED crashed
        BY <1>5, <2>6 DEF Grow, footer
      <3> HIDE DEF words
      <3>2. end + 8 <= Limit
        <4>1. end + 7 \in 0 .. Limit - 1
          BY <1>1, <1>3, <2>4, <2>6 DEF Reachable
        <4> QED BY <1>1, <4>1
      <3>3. \A a \in 0 .. Limit - 1 : mem'[a] = IF a \in DOMAIN words THEN words[a] ELSE mem[a]
        BY <2>3, <3>1, Stored
      <3>4. mem'[end + 1] = 0 /\ mem'[end + 2] = s
        BY <1>1, <2>3, <2>4, <3>2, <3>3
      <3>5. \A a \in 0 .. Limit - 1 : a < end \/ a > end + 7 => mem'[a] = mem[a]
        BY <1>1, <2>4, <3>3
      <3>6. end % Block(s) = 0
        BY DEF Tiled
      <3>7. end' % Block(s) = 0
        BY <1>1, <3>1, <3>6, NextMultiple
      <3>8. Tiles(s)' = Tiles(s) \cup {end}
        <4> DEFINE Upto(x) == {h \in 0 .. x - 1 : h % Block(s) = 0}
        <4>1. Tiles(s)' = Upto(end') /\ Tiles(s) = Upto(end)
          BY Zenon DEF Tiles
        <4>2. Upto(end + Block(s)) = Upto(end) \cup {end}
          BY <1>1, <3>6, NextTiles
        <4> HIDE DEF Upto
        <4> QED BY <3>1, <4>1, <4>2
      <3>9. blocks' = blocks \cup {Given(end, s)}
        BY <3>1 DEF Give
      <3>10. ASSUME NEW h \in Tiles(s)'
             PROVE  /\ h + 8 <= Limit /\ mem'[h + 2] = s /\ Given(h, s) \in blocks'
                    /\ mem'[h + 1] = 0
        <4>1. CASE h = end
          BY <3>2, <3>4, <3>9, <4>1
        <4>2. CASE h \in Tiles(s)
          <5>1. mem'[h + 2] = mem[h + 2] /\ mem'[h + 1] = mem[h + 1]
            BY <1>1, <3>5, <4>2
          <5> QED BY <1>1, <1>2, <3>9, <4>2, <5>1
        <4> QED BY <3>8, <4>1, <4>2
      <3>11. \A b \in blocks' : \E h \in Tiles(s)' : b = Given(h, s)
        BY <3>8, <3>9 DEF Tiled
      <3>12. \A a \in 0 .. Limit - 1 : a >= end' => mem'[a] = 0
        BY <1>1, <3>1, <3>5 DEF Tiled
      <3>13. ~shared'
        <4>1. \A b \in blocks : Words(b) \cap Words(Given(end, s)) = {}
          <5> TAKE b \in blocks
          <5>1. PICK g \in Tiles(s) : b = Given(g, s)
            BY DEF Tiled
          <5> QED BY <1>1, <5>1, GivenApart
        <4> QED BY <3>1, <4>1 DEF Give, Tiled
      <3>14. ~crashed'
        BY <3>1
      <3> HIDE DEF Tiles
      <3> QED BY <3>7, <3>10, <3>11, <3>12, <3>13, <3>14 DEF Tiled, HeaderSize, Size, Available
    <2> QED BY <2>5, <2>6
  <1> QED BY <1>4, <1>5

LEMMA MemInitially == MemInit => MemIInv
  <1> SUFFICES ASSUME MemInit PROVE MemIInv
    OBVIOUS
  <1>1. MemTypeOK /\ IsFiniteSet(asked)
    BY FS_EmptySet DEF MemInit, MemTypeOK
  <1>2. ASSUME NEW s \in Sizes PROVE Tiled(s)
    <2>1. Block(s) \in Nat \ {0}
      BY SizesAssumption DEF Block, HeaderSize
    <2>2. end % Block(s) = 0
      BY <2>1 DEF MemInit
    <2>3. Tiles(s) = {}
      BY DEF MemInit, Tiles
    <2> QED BY <2>2, <2>3 DEF MemInit, Tiled
  <1> QED BY <1>1, <1>2 DEF MemIInv

\* Memory grows only when the walk has passed every block.
ModestlyGrows ==
  OneSize /\ end' # end /\ asked' = asked => \A h \in Places : Held(h)

\* The size it is all asked for in.
LEMMA TheSize ==
  ASSUME MemIInv, OneSize
  PROVE  /\ Asked \in Sizes /\ asked = {Asked} /\ Tiled(Asked)
         /\ Places = Tiles(Asked)
         /\ \A h : Held(h) <=> Given(h, Asked) \in blocks
  <1>1. PICK s : asked = {s}
    BY FS_Singleton DEF OneSize, MemIInv
  <1>2. Asked = s
    BY <1>1 DEF Asked
  <1>3. s \in Sizes /\ Tiled(s)
    BY <1>1 DEF MemIInv, MemTypeOK
  <1> QED BY <1>1, <1>2, <1>3 DEF Places, Tiles, Held

LEMMA MemStep ==
  MemIInv /\ [MemNext]_memVars => MemIInv' /\ [ModestlyGrows]_memVars
  <1> SUFFICES ASSUME MemIInv, [MemNext]_memVars
               PROVE  MemIInv' /\ [ModestlyGrows]_memVars
    OBVIOUS
  <1>1. CASE UNCHANGED memVars
    <2>1. \A s \in Sizes : Tiled(s)' <=> Tiled(s)
      BY <1>1 DEF memVars, Tiled, Tiles
    <2> QED BY <1>1, <2>1 DEF memVars, MemIInv, MemTypeOK
  <1>2. CASE MemNext
    <2>1. MemTypeOK' /\ IsFiniteSet(asked')
      BY <1>2, MemTypeStep DEF MemIInv
    <2>2. ASSUME NEW s \in Sizes, asked' \subseteq {s}
          PROVE  Tiled(s)'
      <3>1. asked \subseteq asked'
        BY <1>2 DEF MemNext, Take, Grow, WalkOff, Free, Write
      <3>2. MemTypeOK /\ Tiled(s) /\ ~crashed
        BY <1>2, <2>2, <3>1 DEF MemIInv, MemNext
      <3>3. ASSUME NEW q \in Sizes, Take(q) \/ Grow(q) \/ WalkOff(q)
            PROVE  Tiled(s)'
        <4>1. q = s
          BY <2>2, <3>3 DEF Take, Grow, WalkOff
        <4> QED BY <2>1, <3>2, <3>3, <4>1, TakeStep, GrowStep, WalkOffStep
      <3>4. ASSUME NEW b \in blocks, Free(b)
            PROVE  Tiled(s)'
        BY <2>1, <3>2, <3>4, FreeStep
      <3>5. ASSUME NEW b \in blocks, NEW a \in Words(b), NEW d \in Data, Write(b, a, d)
            PROVE  Tiled(s)'
        BY <2>1, <3>2, <3>5, WriteStep
      <3> QED BY <1>2, <3>3, <3>4, <3>5 DEF MemNext
    <2>3. ModestlyGrows
      <3> SUFFICES ASSUME OneSize, end' # end, asked' = asked, NEW h \in Places
                   PROVE  Held(h)
        BY DEF ModestlyGrows
      <3>1. PICK s \in Sizes : Take(s) \/ Grow(s) \/ WalkOff(s)
        BY <1>2 DEF MemNext, Free, Write, Crash
      <3>2. Grow(s)
        BY <3>1 DEF Take, WalkOff, Crash
      <3>3. s = Asked
        BY <3>2, TheSize DEF Grow
      <3>4. Tiled(s) /\ Reaches(end, s) /\ MemTypeOK /\ h \in Tiles(s)
        BY <3>2, <3>3, TheSize DEF Grow, MemIInv
      <3> QED BY <3>3, <3>4, TheSize, WalkPassesHeld
    <2> QED BY <2>1, <2>2, <2>3 DEF MemIInv
  <1> QED BY <1>1, <1>2

\* With one size asked for, that is how memory is laid out.
LEMMA OneSizeSafe == MemIInv => OneSizeIsSafe
  <1> SUFFICES ASSUME MemIInv, OneSize
               PROVE  NeverShared /\ CrashesOnlyWhenFull /\ HeadersTell
    BY DEF OneSizeIsSafe
  <1>1. Tiled(Asked) /\ Places = Tiles(Asked) /\ \A h : Held(h) <=> Given(h, Asked) \in blocks
    BY TheSize
  <1>2. NeverShared /\ CrashesOnlyWhenFull
    BY <1>1 DEF Tiled, NeverShared, CrashesOnlyWhenFull
  <1>3. HeadersTell
    BY <1>1 DEF Tiled, HeadersTell
  <1> QED BY <1>2, <1>3

-------------------------------------------------------------------------------
(* ProcessLookup. *)

\* A ps that ended by itself printed everything, and nobody reads before the end.
Ended ==
  /\ ps = "exited" => printed = Len(listing)
  /\ pc = "launch" => ps = "none"
  /\ ps = "none" => pc = "launch" /\ printed = 0
  /\ pc \in {"read", "scan", "done"} => ps # "running"

\* What was read is what ps printed, and the result is what it is scanned for.
Carried ==
  /\ pc \in {"scan", "done"} => data = SubSeq(listing, 1, printed)
  /\ pc = "done" => result = First(data)

LookupIInv == LookupTypeOK /\ Ended /\ Carried

\* What is in the pipe, read to its end, is a part of what ps prints.
LEMMA ReadPart ==
  ASSUME LookupTypeOK
  PROVE  SubSeq(listing, 1, printed) \in Seq(Line)
  <1>1. printed \in Nat /\ printed <= Len(listing) /\ Len(listing) \in Nat
    BY DEF LookupTypeOK
  <1>2. \A i \in 1 .. printed : listing[i] \in Line
    BY <1>1, ElementOfSeq DEF LookupTypeOK
  <1> QED BY <1>1, <1>2, SubSeqProperties DEF LookupTypeOK

\* A set of positions that is not empty has a least.
LEMMA LeastPosition ==
  ASSUME NEW n \in Nat, NEW I \in SUBSET (1 .. n), I # {}
  PROVE  Min(I) \in I
  <1>1. IsWellFoundedOn(OpToRel(<, Nat), Nat)
    BY NatLessThanWellFounded
  <1>2. I \subseteq Nat
    OBVIOUS
  <1>3. PICK m \in I : \A j \in I : <<j, m>> \notin OpToRel(<, Nat)
    BY <1>1, <1>2, WFMin
  <1>4. \A j \in I : ~ (j < m)
    BY <1>2, <1>3 DEF OpToRel
  <1>5. \A j \in I : m <= j
    BY <1>2, <1>4
  <1> QED BY <1>5 DEF Min

\* First finds a line with the path if there is one.
LEMMA FirstFinds ==
  ASSUME NEW lines \in Seq(Line)
  PROVE  IF First(lines) = NoLine
         THEN \A i \in DOMAIN lines : lines[i] \notin Matching
         ELSE /\ First(lines) \in Matching
              /\ \E i \in DOMAIN lines : lines[i] = First(lines)
  <1> DEFINE found == {k \in DOMAIN lines : lines[k] \in Matching}
  <1>0. Len(lines) \in Nat /\ DOMAIN lines = 1 .. Len(lines)
    BY LenProperties
  <1>1. First(lines) = IF found = {} THEN NoLine ELSE lines[Min(found)]
    BY DEF First
  <1>2. CASE found = {}
    BY <1>1, <1>2
  <1>3. CASE found # {}
    <2>1. Min(found) \in found
      BY <1>0, <1>3, LeastPosition
    <2> HIDE DEF found
    <2>2. First(lines) = lines[Min(found)]
      BY <1>1, <1>3
    <2>3. Min(found) \in DOMAIN lines /\ lines[Min(found)] \in Matching
      BY <2>1 DEF found
    <2> QED BY <2>2, <2>3, LineAssumption
  <1> QED BY <1>2, <1>3

LEMMA LookupInitially == LookupInit => LookupIInv
  <1> SUFFICES ASSUME LookupInit PROVE LookupIInv
    OBVIOUS
  <1>1. listing \in Seq(Line) /\ Len(listing) = 0
    BY EmptySeq DEF LookupInit
  <1>2. LookupTypeOK
    BY <1>1, CapacityAssumption DEF LookupInit, LookupTypeOK
  <1> QED BY <1>2 DEF LookupInit, LookupIInv, Ended, Carried

LEMMA LookupStep == LookupIInv /\ [LookupNext]_lookupVars => LookupIInv'
  <1> SUFFICES ASSUME LookupIInv, [LookupNext]_lookupVars PROVE LookupIInv'
    OBVIOUS
  <1> USE DEF LookupIInv
  <1>1. CASE Launch
    <2>1. listing' \in Seq(Line) /\ printed = 0
      BY <1>1 DEF Launch, Ended
    <2>2. LookupTypeOK'
      BY <1>1, <2>1 DEF Launch, LookupTypeOK
    <2> QED BY <1>1, <2>2 DEF Launch, Ended, Carried
  <1>2. CASE PsWrites
    <2>1. LookupTypeOK'
      BY <1>2, CapacityAssumption DEF PsWrites, LookupTypeOK
    <2>2. Ended'
      BY <1>2 DEF PsWrites, Ended
    <2>3. Carried'
      BY <1>2 DEF PsWrites, Ended, Carried
    <2> QED BY <2>1, <2>2, <2>3
  <1>3. CASE PsExits
    BY <1>3 DEF PsExits, LookupTypeOK, Ended, Carried
  <1>4. CASE PsIsKilled
    BY <1>4 DEF PsIsKilled, LookupTypeOK, Ended, Carried
  <1>5. CASE Wait
    BY <1>5 DEF Wait, LookupTypeOK, Ended, Carried
  <1>6. CASE Read
    <2>1. SubSeq(listing, 1, printed) \in Seq(Line)
      BY ReadPart
    <2>2. LookupTypeOK'
      BY <1>6, <2>1 DEF Read, LookupTypeOK
    <2>3. Ended' /\ Carried'
      BY <1>6 DEF Read, Ended, Carried
    <2> QED BY <2>2, <2>3
  <1>7. CASE Scan
    <2>1. First(data) \in Line \cup {NoLine}
      BY FirstFinds, LineAssumption DEF LookupTypeOK
    <2>2. LookupTypeOK'
      BY <1>7, <2>1 DEF Scan, LookupTypeOK
    <2>3. Ended'
      BY <1>7 DEF Scan, Ended
    <2>4. Carried'
      BY <1>7 DEF Scan, Carried
    <2> QED BY <2>2, <2>3, <2>4
  <1>8. CASE UNCHANGED lookupVars
    BY <1>8 DEF lookupVars, LookupTypeOK, Ended, Carried
  <1> QED BY <1>1, <1>2, <1>3, <1>4, <1>5, <1>6, <1>7, <1>8 DEF LookupNext, Parent, Ps

-------------------------------------------------------------------------------

\* Each program has the invariant of its own.
ProgramsIInv == ManagerIInv /\ ZombieIInv /\ ThreadsIInv /\ MemIInv /\ LookupIInv

LEMMA ProgramsInitially == MCInit => ProgramsIInv
  BY ManagerInitially, ZombieInitially, ThreadsInitially, MemInitially,
     LookupInitially DEF MCInit, ProgramsIInv

\* A step is one of every program, or leaves it alone.
LEMMA EachSteps ==
  [MCNext]_allVars =>
    /\ [ModuleNext]_moduleVars
    /\ [ZombieNext]_zombieVars
    /\ [G!GcdNext]_ofThreads
    /\ [MemNext]_memVars
    /\ [LookupNext]_lookupVars
  <1> SUFFICES ASSUME [MCNext]_allVars
               PROVE  /\ [ModuleNext]_moduleVars
                      /\ [ZombieNext]_zombieVars
                      /\ [G!GcdNext]_ofThreads
                      /\ [MemNext]_memVars
                      /\ [LookupNext]_lookupVars
    OBVIOUS
  <1>1. CASE UNCHANGED allVars
    BY <1>1 DEF allVars
  <1>2. CASE Manager
    BY <1>2 DEF Manager
  <1>3. CASE Zombies
    BY <1>3 DEF Zombies
  <1>4. CASE Threads
    BY <1>4 DEF Threads
  <1>5. CASE Allocator
    BY <1>5 DEF Allocator
  <1>6. CASE Lookup
    BY <1>6 DEF Lookup
  <1> QED BY <1>1, <1>2, <1>3, <1>4, <1>5, <1>6 DEF MCNext

LEMMA ProgramsStep ==
  ProgramsIInv /\ [MCNext]_allVars =>
    ProgramsIInv' /\ [ModulesStay]_moduleVars /\ [ModestlyGrows]_memVars
  BY EachSteps, ManagerStep, ZombieStep, ThreadsStep, MemStep, LookupStep DEF ProgramsIInv

LEMMA ProgramsInvariant == MCSpec => []ProgramsIInv
  BY ProgramsInitially, ProgramsStep, PTL DEF MCSpec

\* The table of modules, the objects and their zombies, the threads and what they retain,
\* and the memory and the blocks of it are always of the types the code gives them.
THEOREM ProgramsStayTyped == MCSpec => []ProgramsTyped
  <1>1. ProgramsIInv => ProgramsTyped
    BY DEF ProgramsIInv, ManagerIInv, ZombieIInv, ThreadsIInv, MemIInv, LookupIInv,
           ProgramsTyped
  <1> QED BY <1>1, ProgramsInvariant, PTL

\* A message to a dead object meets its zombie (zombie.m, zombie_dealloc), and a thread
\* detached by main has what it was given until it is done with it (gcd.m).
THEOREM ObjectsAreThere == MCSpec => []ObjectsOutliveTheirUses
  <1>1. ProgramsIInv => ObjectsOutliveTheirUses
    BY ThreadsKeep DEF ProgramsIInv, ZombieIInv, ObjectsOutliveTheirUses
  <1> QED BY <1>1, ProgramsInvariant, PTL

\* A module that was registered, and whose constructor has come back, stays the one of
\* its name (ModuleManager.js, registerModuleClass).
THEOREM ModulesAreKept == MCSpec => RegisteredModulesStay
  <1>1. MCSpec => [][ModulesStay]_moduleVars
    BY ProgramsInvariant, ProgramsStep, PTL DEF MCSpec
  <1> QED BY <1>1 DEF RegisteredModulesStay, ModulesStay

\* While all requests are for one size, mem_alloc gives out no memory twice and crashes
\* only if none is left, whatever the client writes (mem-alloc.c, mem_alloc).
THEOREM OneSizeIsAlwaysSafe == MCSpec => []OneSizeIsSafe
  <1>1. ProgramsIInv => OneSizeIsSafe
    BY OneSizeSafe DEF ProgramsIInv
  <1> QED BY <1>1, ProgramsInvariant, PTL

\* And asks sbrk for more only if all it has is in use.
THEOREM GrowsLast == MCSpec => GrowsOnlyWhenFull
  <1>1. MCSpec => [][ModestlyGrows]_memVars
    BY ProgramsInvariant, ProgramsStep, PTL DEF MCSpec
  <1> QED BY <1>1 DEF GrowsOnlyWhenFull, ModestlyGrows

\* The answer is right for any output, of which no line is lost between the processes.
THEOREM AnswersAreComplete == MCSpec => []AnswerIsComplete
  <1>1. ASSUME LookupIInv PROVE AnswerIsComplete
    <2> SUFFICES ASSUME pc = "done", ps # "killed"
                 PROVE  IF result = NoLine
                        THEN \A i \in DOMAIN listing : listing[i] \notin Matching
                        ELSE /\ result \in Matching
                             /\ \E i \in DOMAIN listing : listing[i] = result
      BY DEF AnswerIsComplete
    <2> USE <1>1 DEF LookupIInv
    <2>1. ps = "exited" /\ printed = Len(listing)
      BY DEF LookupTypeOK, Ended
    <2>2. SubSeq(listing, 1, Len(listing)) = listing
      BY SubSeqFull DEF LookupTypeOK
    <2>3. data = listing /\ result = First(listing)
      BY <2>1, <2>2 DEF Carried
    <2> QED BY <2>3, FirstFinds DEF LookupTypeOK
  <1>2. ProgramsIInv => AnswerIsComplete
    BY <1>1 DEF ProgramsIInv
  <1> QED BY <1>2, ProgramsInvariant, PTL

===============================================================================
