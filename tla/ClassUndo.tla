------------------------------ MODULE ClassUndo ------------------------------
(***************************************************************************)
(* What the NSObject( ISASwizzle ) category promises to its callers: the   *)
(* class of an object can be changed any number of times and every change  *)
(* can be taken back, the last one first, down to the class the object was *)
(* created with, which no number of restores goes below.                   *)
(*                                                                         *)
(* The state is the object's future: undo[n] is the class it has after n   *)
(* calls of restoreClass.  Nothing is said of how the code stores it.      *)
(***************************************************************************)
EXTENDS Naturals

CONSTANTS Class,    \* the classes an object can be given
          NoClass,  \* stands for the absent object
          Depth     \* the deepest history that is represented, at least 1

VARIABLE undo

Exists == undo[0] # NoClass

Init == undo = [n \in 0 .. Depth |-> NoClass]

\* A new object has its own class, however often it is restored.
Create(c) ==
  /\ ~Exists
  /\ undo' = [n \in 0 .. Depth |-> c]

Destroy ==
  /\ Exists
  /\ undo' = [n \in 0 .. Depth |-> NoClass]

\* The present class becomes the one a single restore leads back to.  There
\* is room: the two deepest entries are both the class of the bottom.
Set(c) ==
  /\ Exists
  /\ undo[Depth - 1] = undo[Depth]
  /\ undo' = [n \in 0 .. Depth |-> IF n = 0 THEN c ELSE undo[n - 1]]

Restore ==
  /\ Exists
  /\ undo' = [n \in 0 .. Depth |-> IF n = Depth THEN undo[n] ELSE undo[n + 1]]

RestoreAll ==
  /\ Exists
  /\ undo' = [n \in 0 .. Depth |-> undo[Depth]]

Next == \/ \E c \in Class : Create(c) \/ Set(c)
        \/ Destroy \/ Restore \/ RestoreAll

Spec == Init /\ [][Next]_undo
==============================================================================
