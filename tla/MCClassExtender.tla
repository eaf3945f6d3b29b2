--------------------------- MODULE MCClassExtender ---------------------------
(***************************************************************************)
(* Model-checking instances of ClassExtender: the classes of the test, a   *)
(* method both have, one that one of them has, and a property.  A history  *)
(* variable tells whether the subclass was disciplined so far.             *)
(***************************************************************************)
EXTENDS ClassExtender

CONSTANTS A1, A2, A3, shared, again, prop

ClassesOfTheTest ==
  [c \in Class |-> CASE c = A1 -> {shared, again, prop}
                     [] c = A2 -> {shared, prop}
                     [] OTHER  -> {}]

VARIABLE disciplined

MCInit == Init /\ disciplined = TRUE

\* A step of DisciplinedNext creates no second instance of a class that has one.
MCNext ==
  /\ Next
  /\ disciplined' =
       (disciplined /\ \A c \in Class : Inherited(c) => instance'[c] \in {0, instance[c]})

MCSpec == MCInit /\ [][MCNext]_<<vars, disciplined>>

-------------------------------------------------------------------------------

(***************************************************************************)
(* As long as the subclass does as the one of the test, and never extends  *)
(* a class twice, a member that is registered is answered by an instance   *)
(* that exists, and by the one of the class inherited last of those that   *)
(* were asked to give it, whatever was released in between (__call, and    *)
(* _releaseExtends).                                                       *)
(***************************************************************************)
DisciplinedAnswers == disciplined => NoDanglingKey /\ LastInheritedAnswers
===============================================================================
