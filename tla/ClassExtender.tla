----------------------------- MODULE ClassExtender -----------------------------
(***************************************************************************)
(* PHP/Extender: ClassExtender gives the object of a subclass the members  *)
(* of several other classes, by keeping an instance of an extender of each *)
(* and a table of which class answers for which member.                    *)
(*                                                                         *)
(* PHP arrays are ordered by the insertion of their keys: assigning to a   *)
(* key that is there keeps its place, and end() followed by key() is the   *)
(* key inserted last.  A key's place is modelled by the time it was        *)
(* inserted, 0 while it is not in the array.                               *)
(***************************************************************************)
EXTENDS Naturals

CONSTANTS Class,     \* the names given to _extends
          Extendable,\* those of a class that exists and has an extender
          Method,    \* names of methods
          Property,  \* names of properties
          Has,       \* what reflection finds in each class
          MaxClock   \* bound: calls that create an object

Member == Method \cup Property

ASSUME ExtendableAssumption == Extendable \subseteq Class
ASSUME HasAssumption == Has \in [Class -> SUBSET Member]
ASSUME ClockAssumption == MaxClock \in Nat

VARIABLES alive,    \* whether the script runs
          clock,    \* counts the insertions
          instance, \* identity of the object _instances has for a class, 0 for none
          place,    \* place of each key in _instances
          classes,  \* _classes: what each class was asked to give, both lists
          table     \* _methods and _properties: place of each class in each array

vars == <<alive, clock, instance, place, classes, table>>

TypeOK ==
  /\ alive \in BOOLEAN
  /\ clock \in 0 .. MaxClock
  /\ instance \in [Class -> 0 .. clock]
  /\ place \in [Class -> 0 .. clock]
  /\ classes \in [Class -> SUBSET Member]
  /\ \A c \in Class : classes[c] \subseteq Has[c]
  /\ table \in [Member -> [Class -> 0 .. clock]]

\* isset( $this->_methods[ $name ] ), or of _properties
Registered(m) == \E c \in Class : table[m][c] > 0

\* key( $this->_methods[ $name ] ), the pointer being at the end
Key(m) == CHOOSE c \in Class : /\ table[m][c] > 0
                               /\ \A d \in Class : table[m][d] <= table[m][c]

Inherited(c) == instance[c] > 0

-------------------------------------------------------------------------------

Init ==
  /\ alive = TRUE
  /\ clock = 0
  /\ instance = [c \in Class |-> 0]
  /\ place = [c \in Class |-> 0]
  /\ classes = [c \in Class |-> {}]
  /\ table = [m \in Member |-> [c \in Class |-> 0]]

Fatal == alive' = FALSE /\ UNCHANGED <<clock, instance, place, classes, table>>

\* MUTANT of Taken: what the class does not have is not left out.
TakenUnchecked(c, list) ==
     (IF list \cap Method = {} THEN Has[c] \cap Method ELSE list \cap Method)
\cup (IF list \cap Property = {} THEN Has[c] \cap Property ELSE list \cap Property)

\* The members a list asks for: all of a kind if it names none of that kind,
\* and never one the class does not have.
Taken(c, list) ==
  { m \in Has[c] : \/ m \in list
                   \/ m \in Method /\ list \cap Method = {}
                   \/ m \in Property /\ list \cap Property = {} }

\* MUTANT of Put: the array of a member is created anew.
PutAnew(t, c, ms, now) ==
  [m \in Member |-> IF m \in ms THEN [d \in Class |-> IF d = c THEN now ELSE 0] ELSE t[m]]

\* A key that is in an array keeps its place.
Put(t, c, ms, now) ==
  [m \in Member |-> IF m \in ms /\ t[m][c] = 0 THEN [t[m] EXCEPT ![c] = now] ELSE t[m]]

\* _extends.  The test for a class that is inherited already is made on a
\* local variable nobody assigned and is never true, so that such a class gets
\* another instance and an empty entry in _classes.
Extends(c, list) ==
  /\ alive
  /\ clock < MaxClock
  /\ \/ c \notin Extendable /\ Fatal
     \/ /\ c \in Extendable
        /\ clock' = clock + 1
        /\ instance' = [instance EXCEPT ![c] = clock']
        /\ place' = [place EXCEPT ![c] = IF @ = 0 THEN clock' ELSE @]
        /\ classes' = [classes EXCEPT ![c] = Taken(c, list)]
        /\ table' = Put(table, c, Taken(c, list), clock')
        /\ UNCHANGED alive

\* MUTANT of Release: only the methods are gone through.
ReleaseMethods(c) ==
  /\ alive
  /\ Inherited(c)
  /\ instance' = [instance EXCEPT ![c] = 0]
  /\ place' = [place EXCEPT ![c] = 0]
  /\ table' = [m \in Member |-> IF m \in classes[c] \cap Method
                                THEN [table[m] EXCEPT ![c] = 0] ELSE table[m]]
  /\ classes' = [classes EXCEPT ![c] = {}]
  /\ UNCHANGED <<alive, clock>>

\* _releaseExtends: what _classes lists for the class is taken from the table.
Release(c) ==
  /\ alive
  /\ Inherited(c)
  /\ instance' = [instance EXCEPT ![c] = 0]
  /\ place' = [place EXCEPT ![c] = 0]
  /\ table' = [m \in Member |-> IF m \in classes[c]
                                THEN [table[m] EXCEPT ![c] = 0] ELSE table[m]]
  /\ classes' = [classes EXCEPT ![c] = {}]
  /\ UNCHANGED <<alive, clock>>

\* __call: a method nobody registered, or one whose instance is gone, ends
\* the script; any other call leaves the tables alone.
Call(m) ==
  /\ alive
  /\ Registered(m) => ~Inherited(Key(m))
  /\ Fatal

\* __get and __set of a property nobody registered.
GetOrSetUnknown(m) == alive /\ ~Registered(m) /\ Fatal

\* __set through an instance that is gone: PHP 8 ends the script, earlier
\* versions make an empty object of it.
SetDangling(m) ==
  /\ alive
  /\ Registered(m)
  /\ ~Inherited(Key(m))
  /\ \/ Fatal
     \/ /\ clock < MaxClock
        /\ clock' = clock + 1
        /\ instance' = [instance EXCEPT ![Key(m)] = clock']
        /\ place' = [place EXCEPT ![Key(m)] = clock']
        /\ UNCHANGED <<alive, classes, table>>

Next ==
  \/ \E c \in Class : Release(c) \/ \E list \in SUBSET Member : Extends(c, list)
  \/ \E m \in Method : Call(m)
  \/ \E m \in Property : GetOrSetUnknown(m) \/ SetDangling(m)

Spec == Init /\ [][Next]_vars

(***************************************************************************)
(* A subclass like the one of the test (B.class.php): it never extends a   *)
(* class again that it has not released.                                   *)
(***************************************************************************)
Disciplined(c, list) == ~Inherited(c) /\ Extends(c, list)

DisciplinedNext ==
  \/ \E c \in Class : Release(c) \/ \E list \in SUBSET Member : Disciplined(c, list)
  \/ \E m \in Method : Call(m)
  \/ \E m \in Property : GetOrSetUnknown(m) \/ SetDangling(m)

DisciplinedSpec == Init /\ [][DisciplinedNext]_vars

-------------------------------------------------------------------------------

(***************************************************************************)
(* What _classes lists for a class is in the table, so that _releaseExtends*)
(* finds it there; this holds for every subclass.                          *)
(***************************************************************************)
ListedIsRegistered == \A c \in Class : \A m \in classes[c] : table[m][c] > 0

(***************************************************************************)
(* A member that is registered is answered by an instance that exists.     *)
(***************************************************************************)
NoDanglingKey == \A m \in Member : Registered(m) => Inherited(Key(m))

(***************************************************************************)
(* A member is answered by the class inherited last of those that were     *)
(* asked to give it: the comments of _extends say so, and releasing a      *)
(* class gives its members back to the one inherited before it.            *)
(***************************************************************************)
Giving(m) == {c \in Class : m \in classes[c]}

LastInheritedAnswers ==
  \A m \in Member :
    IF Giving(m) = {} THEN ~Registered(m)
    ELSE Key(m) \in Giving(m) /\ \A c \in Giving(m) : place[c] <= place[Key(m)]

(***************************************************************************)
(* Inheriting from a class, or releasing it, never takes a member from     *)
(* another class, and never changes the order of the others.               *)
(***************************************************************************)
OthersUndisturbed ==
  [][\A c, d \in Class :
       (Release(c) \/ \E list \in SUBSET Member : Extends(c, list)) /\ d # c =>
         \A m \in Member : table'[m][d] = table[m][d]]_vars

(***************************************************************************)
(* The test of _extends: "Checks if the requested parent class has already *)
(* been inherited from", in which case the call returns at once.  The code *)
(* creates another instance.                                               *)
(***************************************************************************)
InheritedOnce ==
  [][\A c \in Class : instance[c] > 0 => instance'[c] \in {instance[c], 0}]_vars

===============================================================================
