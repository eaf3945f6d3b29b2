-------------------------------- MODULE Watcher --------------------------------
(***************************************************************************)
(* PHP/Watcher: an object whose properties live in two tables behind __get *)
(* and __set, and tell watchers before they change.  The watchers may use  *)
(* the object while they are told.                                         *)
(*                                                                         *)
(* The PHP engine is the one of the file's time (PHP 5).  Of it the model  *)
(* has: isset is false for null; foreach goes over the array as it was;    *)
(* E_USER_ERROR ends the script; and while __set runs for a property, to   *)
(* assign that property does not call __set again, but adds a property of  *)
(* the name to the object, which hides __get and __set from then on.       *)
(***************************************************************************)
EXTENDS Naturals, SequencesExt

CONSTANTS Name,       \* names of properties
          Value,      \* values, Null among them
          Null,
          Observer,   \* objects with a method that watches
          MaxWatchers \* bound: entries of _watchers for a name

ASSUME NullAssumption == Null \in Value

VARIABLES public,    \* _publicProperties
          protected, \* _protectedProperties
          watchers,  \* _watchers
          added,     \* properties the engine added to the object
          sets,      \* the calls of __set that run, the innermost last
          knows,     \* what an observer was last told, or could read when it
                     \* began to watch
          alive      \* no E_USER_ERROR was triggered

tables == <<public, protected>>
vars == <<public, protected, watchers, added, sets, knows, alive>>

\* A call of __set: the watchers it has still to tell, and whether one of them
\* is being told.
Set == [name : Name, value : Value, left : Seq(Observer), told : BOOLEAN]

IsTable(f) == DOMAIN f \subseteq Name /\ \A n \in DOMAIN f : f[n] \in Value

TypeOK ==
  /\ IsTable(public) /\ IsTable(protected) /\ IsTable(added)
  /\ DOMAIN added \subseteq DOMAIN public \cup DOMAIN protected
  /\ watchers \in [Name -> Seq(Observer)]
  /\ sets \in Seq(Set)
  /\ knows \in [Name -> [Observer -> Value]]
  /\ alive \in BOOLEAN

Init ==
  /\ public = <<>> /\ protected = <<>> /\ added = <<>>
  /\ watchers = [n \in Name |-> <<>>]
  /\ sets = <<>>
  /\ knows = [n \in Name |-> [w \in Observer |-> Null]]
  /\ alive = TRUE

-------------------------------------------------------------------------------

IsSet(f, n) == n \in DOMAIN f /\ f[n] # Null
With(f, n, v) == [m \in DOMAIN f \cup {n} |-> IF m = n THEN v ELSE f[m]]
At(f, n) == IF n \in DOMAIN f THEN f[n] ELSE Null

Exists(n) == IsSet(public, n) \/ IsSet(protected, n)

\* A call of __set for the property runs.
BeingSet(n) == \E i \in DOMAIN sets : sets[i].name = n

\* The code of the application runs, or that of a watcher which is told.
MayAct == sets # <<>> => Last(sets).told

Error ==
  /\ alive' = FALSE
  /\ UNCHANGED <<tables, watchers, added, sets, knows>>

\* What an expression with the property evaluates to: __get answers from the
\* public table, for a protected property too.
Read(n) == IF n \in DOMAIN added THEN added[n] ELSE At(public, n)

GetUnknown(n) ==
  /\ n \notin DOMAIN added
  /\ ~Exists(n)
  /\ Error

\* MUTANT of Told: protected properties have no watchers.
ToldOfPublic(n) == IF IsSet(public, n) THEN watchers[n] ELSE <<>>

\* The watchers a call of __set tells.
Told(n) == watchers[n]

CallSet(n, v) ==
  /\ sets' = Append(sets, [name |-> n, value |-> v, left |-> Told(n), told |-> FALSE])
  /\ UNCHANGED <<tables, watchers, added, knows, alive>>

\* MUTANT of Direct: an unknown property is added to the object.
DirectIfUnknown(n) == n \in DOMAIN added \/ ~Exists(n)

\* Assignments that do not get to __set.
Direct(n) == n \in DOMAIN added \/ BeingSet(n)

Assign(n, v) ==
  \/ /\ Direct(n)
     /\ added' = With(added, n, v)
     /\ UNCHANGED <<tables, watchers, sets, knows, alive>>
  \/ /\ ~Direct(n) /\ Exists(n)
     /\ CallSet(n, v)
  \/ /\ ~Direct(n) /\ ~Exists(n)
     /\ Error

\* The loop of __set.
Tell ==
  /\ ~MayAct
  /\ LET s == Last(sets)
         w == Head(s.left)
     IN  /\ s.left # <<>>
         /\ sets' = [sets EXCEPT ![Len(sets)] = [name |-> s.name, value |-> s.value,
                                                 left |-> Tail(s.left), told |-> TRUE]]
         /\ knows' = [knows EXCEPT ![s.name][w] = s.value]
  /\ UNCHANGED <<tables, watchers, added, alive>>

WatcherReturns ==
  /\ sets # <<>> /\ Last(sets).told
  /\ sets' = [sets EXCEPT ![Len(sets)].told = FALSE]
  /\ UNCHANGED <<tables, watchers, added, knows, alive>>

\* ... and its end.  The value goes to the public table in either case.
SetReturns ==
  /\ ~MayAct
  /\ Last(sets).left = <<>>
  /\ public' = With(public, Last(sets).name, Last(sets).value)
  /\ sets' = Front(sets)
  /\ UNCHANGED <<protected, watchers, added, knows, alive>>

RegisterPublicProperty(n, v) ==
  IF Exists(n) THEN Error
  ELSE /\ public' = With(public, n, v)
       /\ UNCHANGED <<protected, watchers, added, sets, knows, alive>>

RegisterProtectedProperty(n, v) ==
  IF Exists(n) THEN Error
  ELSE /\ protected' = With(protected, n, v)
       /\ UNCHANGED <<public, watchers, added, sets, knows, alive>>

WatchProperty(n, w) ==
  IF ~Exists(n) THEN Error
  ELSE /\ Len(watchers[n]) < MaxWatchers
       /\ watchers' = [watchers EXCEPT ![n] = Append(@, w)]
       /\ knows' = [knows EXCEPT ![n][w] = Read(n)]
       /\ UNCHANGED <<tables, added, sets, alive>>

\* The end of what the application, or a watcher, does with the object is not
\* marked: it may always do more.
Next ==
  /\ alive
  /\ \/ Tell \/ WatcherReturns \/ SetReturns
     \/ /\ MayAct
        /\ \E n \in Name :
             \/ GetUnknown(n)
             \/ \E v \in Value :
                  \/ Assign(n, v)
                  \/ RegisterPublicProperty(n, v) \/ RegisterProtectedProperty(n, v)
             \/ \E w \in Observer : WatchProperty(n, w)

Spec == Init /\ [][Next]_vars

(***************************************************************************)
(* A use like that of Foo and Bar: a property is registered once, and its  *)
(* watchers neither assign it, nor add to its watchers, while they are     *)
(* told of it.                                                             *)
(***************************************************************************)
PoliteNext ==
  /\ alive
  /\ \/ Tell \/ WatcherReturns \/ SetReturns
     \/ /\ MayAct
        /\ \E n \in Name :
             \/ /\ n \notin DOMAIN public \cup DOMAIN protected
                /\ \E v \in Value :
                     RegisterPublicProperty(n, v) \/ RegisterProtectedProperty(n, v)
             \/ /\ ~BeingSet(n)
                /\ \/ \E v \in Value : Assign(n, v)
                   \/ \E w \in Observer : WatchProperty(n, w)

PoliteSpec == Init /\ [][PoliteNext]_vars

-------------------------------------------------------------------------------

(***************************************************************************)
(* In the polite use, whoever watches a property that is not just being    *)
(* assigned knows its value, null and protected properties included, and   *)
(* whatever other properties watchers assign.                              *)
(***************************************************************************)
EveryWatcherKnows ==
  \A n \in Name : ~BeingSet(n) =>
    \A i \in DOMAIN watchers[n] : knows[n][watchers[n][i]] = Read(n)

===============================================================================
