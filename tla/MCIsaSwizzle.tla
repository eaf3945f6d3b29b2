---------------------------- MODULE MCIsaSwizzle ----------------------------
(***************************************************************************)
(* Model-checking instances of IsaSwizzle, with the history that the       *)
(* answer of hasCustomClass has to be read with.                           *)
(***************************************************************************)
EXTENDS IsaSwizzle

CONSTANTS foo, bar, foobar

\* Foo, Bar and FooBar inherit -class from NSObject, which answers the isa.
PlainReported == [c \in Class |-> c]

VARIABLE foreign   \* no setClass: has given the object its original class

mcVars == <<isa, original, classes, foreign>>

MCInit == Init /\ foreign = TRUE

MCNext ==
  \/ \E c \in Class :
       \/ Alloc(c) /\ foreign' = TRUE
       \/ SetClass(c) /\ foreign' = (foreign /\ c # original')
  \/ (Dealloc \/ RestoreClass \/ RestoreOriginalClass) /\ UNCHANGED foreign

MCSpec == MCInit /\ [][MCNext]_mcVars

(***************************************************************************)
(* What the answer of hasCustomClass is worth.  The method looks at the    *)
(* isa and at the top of the stack, yet as long as the object comes back   *)
(* to its original class by restores only, its answer speaks of the whole  *)
(* history: NO means that the object has its original class and that no    *)
(* number of restores gives it another one, YES that it has another class  *)
(* now or after some number of them.  So a caller that restores while the  *)
(* answer is YES stops at the original class with nothing left to come     *)
(* back.  The premise is needed: after setClass: B, setClass: A,           *)
(* setClass: A on an object of class A the answer is NO, and two restores  *)
(* later the class is B.                                                   *)
(***************************************************************************)
CustomClassIsAnnounced ==
  foreign => (HasCustomClass <=> \E n \in DOMAIN UndoMapping : UndoMapping[n] # OriginalClass)
=============================================================================
