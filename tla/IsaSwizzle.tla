------------------------------ MODULE IsaSwizzle ------------------------------
(***************************************************************************)
(* Objective-C/isa-swizzle.m: a category of NSObject that changes the isa  *)
(* pointer of an object and remembers, in a dictionary associated with the *)
(* object, the original class and the stack of the classes left behind.    *)
(*                                                                         *)
(* One address is modelled.  An object is created there, swizzled,         *)
(* deallocated, and another object may then be created at the same         *)
(* address.  The association table is keyed by address, so what dealloc    *)
(* leaves in it is what the next object finds.                             *)
(***************************************************************************)
EXTENDS Naturals, SequencesExt

CONSTANTS Class,       \* the classes
          NoClass,     \* nil, where a Class is expected
          Reported,    \* [ obj class ], as a function of the isa of obj
          MaxHistory   \* bound: no setClass: once the stack is this long

ASSUME MaxHistoryAssumption == MaxHistory \in Nat
ASSUME NilAssumption == NoClass \notin Class
ASSUME ReportedAssumption == Reported \in [Class -> Class]

VARIABLES isa,       \* self->isa, NoClass while no object lives at the address
          original,  \* infos[ OriginalClass ], NoClass while infos is nil
          classes    \* infos[ Classes ], <<>> while infos is nil

vars == <<isa, original, classes>>

Live == isa # NoClass
HasInfos == original # NoClass

(***************************************************************************)
(* The type of the state.  The dictionary is created and dropped as a      *)
(* whole, and no dictionary outlives its object.                           *)
(***************************************************************************)
TypeOK ==
  /\ isa \in Class \cup {NoClass}
  /\ original \in Class \cup {NoClass}
  /\ classes \in Seq(Class)
  /\ ~HasInfos => classes = <<>>
  /\ ~Live => ~HasInfos

-------------------------------------------------------------------------------

Init == isa = NoClass /\ original = NoClass /\ classes = <<>>

\* +alloc: the runtime writes isa and leaves the association table alone.
Alloc(c) ==
  /\ ~Live
  /\ isa' = c
  /\ UNCHANGED <<original, classes>>

\* MUTANT of Dealloc: the association is not cleared.
DeallocKeepsAssociation ==
  /\ Live
  /\ isa' = NoClass
  /\ UNCHANGED <<original, classes>>

\* dealloc, exchanged with ddna_dealloc by the constructor: the association
\* is set to nil, then the original dealloc frees the object.
Dealloc ==
  /\ Live
  /\ isa' = NoClass
  /\ original' = NoClass
  /\ classes' = <<>>

\* MUTANT of Pushed: only a class other than the original is pushed.
PushedIfForeign(orig) == isa # orig

\* Whether setClass: pushes the class it leaves behind.  The original class
\* at the bottom is implied and not stored.
Pushed(orig) == classes # <<>> \/ isa # orig

\* MUTANT of SetClass: the original class is recorded anew by every call.
SetClassRecordsAnew(c) ==
  /\ Live
  /\ Len(classes) < MaxHistory
  /\ original' = Reported[isa]
  /\ classes' = IF Pushed(Reported[isa]) THEN Append(classes, isa) ELSE classes
  /\ isa' = c

SetClass(c) ==
  /\ Live
  /\ Len(classes) < MaxHistory
  /\ LET orig == IF HasInfos THEN original ELSE Reported[isa]
     IN  /\ original' = orig
         /\ classes' = IF Pushed(orig) THEN Append(classes, isa) ELSE classes
  /\ isa' = c

RestoreClass ==
  /\ Live
  /\ HasInfos
  /\ \/ /\ classes = <<>>
        /\ isa' = original
        /\ UNCHANGED classes
     \/ /\ classes # <<>>
        /\ isa' = Last(classes)
        /\ classes' = Front(classes)
  /\ UNCHANGED original

RestoreOriginalClass ==
  /\ Live
  /\ HasInfos
  /\ classes' = <<>>
  /\ isa' = original
  /\ UNCHANGED original

Next ==
  \/ \E c \in Class : Alloc(c) \/ SetClass(c)
  \/ Dealloc
  \/ RestoreClass
  \/ RestoreOriginalClass

Spec == Init /\ [][Next]_vars

-------------------------------------------------------------------------------

(***************************************************************************)
(* The bottom of the stack is never the original class: setClass: stores   *)
(* a return to the original class only above some other class.             *)
(***************************************************************************)
BottomNotOriginal == classes # <<>> => classes[1] # original

(***************************************************************************)
(* The answers of the two query methods.                                   *)
(***************************************************************************)
\* -originalClass
OriginalClass == IF HasInfos THEN original ELSE isa

\* MUTANT of HasCustomClass: only the top of the stack is looked at.
HasForeignTop == HasInfos /\ classes # <<>> /\ Last(classes) # original

\* -hasCustomClass
HasCustomClass ==
  /\ HasInfos
  /\ \/ classes # <<>> /\ Last(classes) # original
     \/ isa # original

(***************************************************************************)
(* originalClass never changes while the object lives, whatever its class  *)
(* is set to: the answer given before the first setClass: is the one given *)
(* after it, and after every restore.                                      *)
(***************************************************************************)
OriginalClassIsStable == [][isa # NoClass /\ isa' # NoClass => OriginalClass' = OriginalClass]_vars

(***************************************************************************)
(* The refinement mapping to ClassUndo: after n restores the object has    *)
(* the n-th class from the top of the stack, and the original class once   *)
(* the stack is exhausted.                                                 *)
(***************************************************************************)
UndoMapping ==
  [n \in 0 .. MaxHistory + 1 |->
     IF n = 0 THEN isa
     ELSE IF n <= Len(classes) THEN classes[Len(classes) - n + 1]
     ELSE OriginalClass]

Undo == INSTANCE ClassUndo WITH Depth <- MaxHistory + 1, undo <- UndoMapping

\* Every behaviour of the category is one of the undo history it promises,
\* for objects whose -class answers their isa.
ImplementsUndo == Undo!Spec
===============================================================================
