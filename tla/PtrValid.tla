-------------------------------- MODULE PtrValid --------------------------------
(***************************************************************************)
(* C/ptr-valid.c and Objective-C/ptr-valid.m: whether a pointer may be     *)
(* read, or is an object, is found out by reading it.  For the time of the *)
(* test SIGSEGV and SIGBUS have a handler that jumps back into the test.   *)
(*                                                                         *)
(* The signals may also be sent by another process, at any moment.  The    *)
(* jump restores the mask of signals, as setjmp of BSD saves it.           *)
(***************************************************************************)
EXTENDS Naturals

CONSTANT MaxClasses \* bound on the classes of the runtime

ASSUME MaxClassesAssumption == MaxClasses \in Nat \ {0}

Signal == {"SIGSEGV", "SIGBUS"}
Test == {"is_valid_ptr", "is_valid_objc_instance"}

\* What there is at an address: nothing, memory that is protected, one byte before
\* memory that is not there, data, or an object of a registered class.
Pointer == {"null", "unmapped", "protected", "edge", "data", "object"}

VARIABLES handler, \* of each signal; "jump" is the one of the test
          before,  \* what was there before the test, or was installed since
          test,    \* the function that runs, or ran last
          ptr,     \* its argument
          next,    \* what it does next, or "returned"
          saved,   \* sigsegv and sigbus
          classes, \* number of classes the runtime has
          room,    \* number of classes the list has room for
          found,   \* classFound
          answer,
          sent,    \* a signal came from elsewhere since the test began
          fate     \* of the process

ptrVars ==
  <<handler, before, test, ptr, next, saved, classes, room, found, answer, sent, fate>>

Steps == {"SIGSEGV", "SIGBUS", "memcpy", "isa", "count", "list", "free"}
Undo == {"first SIGSEGV", "then SIGBUS", "back SIGSEGV", "back SIGBUS"}

PtrTypeOK ==
  /\ handler \in [Signal -> {"default", "own", "jump"}]
  /\ before \in [Signal -> {"default", "own"}]
  /\ test \in Test /\ ptr \in Pointer
  /\ next \in Steps \cup Undo \cup {"returned"}
  /\ saved \in [Signal -> {"default", "own"}]
  /\ classes \in 1 .. MaxClasses /\ room \in 0 .. MaxClasses
  /\ {found, answer, sent} \subseteq BOOLEAN
  /\ fate \in {"runs", "killed", "undefined"}

PtrInit ==
  /\ before \in [Signal -> {"default", "own"}]
  /\ handler = before
  /\ test = "is_valid_ptr" /\ ptr = "null" /\ next = "returned"
  /\ saved = [s \in Signal |-> "default"]
  /\ classes = 1 /\ room = 0
  /\ found = FALSE /\ answer = TRUE /\ sent = FALSE
  /\ fate = "runs"

-------------------------------------------------------------------------------

\* The program, outside of the tests, chooses its handlers.
Install(s, h) ==
  /\ next = "returned"
  /\ handler' = [handler EXCEPT ![s] = h]
  /\ before' = [before EXCEPT ![s] = h]
  /\ UNCHANGED <<test, ptr, next, saved, classes, room, found, answer, sent, fate>>

\* A call.  setjmp comes before anything that can fail.
Begin(t, p) ==
  /\ next = "returned"
  /\ test' = t /\ ptr' = p
  /\ next' = IF p = "null" THEN "returned" ELSE "SIGSEGV"
  /\ saved' = [s \in Signal |-> "default"]
  /\ room' = 0 /\ found' = FALSE /\ sent' = FALSE
  /\ answer' = (p = "null")
  /\ before' = handler
  /\ UNCHANGED <<handler, classes, fate>>

\* MUTANT of Catch: the handler is installed before the old one is asked for.
CatchFirst(s, then) ==
  /\ next = s
  /\ handler' = [handler EXCEPT ![s] = "jump"]
  /\ saved' = [saved EXCEPT ![s] = handler'[s]]
  /\ next' = then
  /\ UNCHANGED <<before, test, ptr, classes, room, found, answer, sent, fate>>

\* The first signal, and the second: the handler that was there is kept.
Catch(s, then) ==
  /\ next = s
  /\ saved' = [saved EXCEPT ![s] = handler[s]]
  /\ handler' = [handler EXCEPT ![s] = "jump"]
  /\ next' = then
  /\ UNCHANGED <<before, test, ptr, classes, room, found, answer, sent, fate>>

(***************************************************************************)
(* The handler jumps to where setjmp was called.  What the locals have     *)
(* that were assigned since is indeterminate, as they are not volatile:    *)
(* what they were assigned if they are in memory, NULL, which is SIG_DFL,  *)
(* if they are in registers.                                               *)
(***************************************************************************)
Jump ==
  /\ saved' \in {f \in [Signal -> {"default", "own"}] :
                   \A s \in Signal : f[s] \in {saved[s], "default"}}
  /\ next' = "first SIGSEGV"
  /\ room' = 0  \* nobody has the list
  /\ UNCHANGED <<handler, before, test, ptr, classes, found, answer, fate>>

\* A signal comes: to the default, which ends the process, to a handler of the program,
\* which returns, or to the jump, into a test that may have returned.
Signalled(s) ==
  CASE handler[s] = "own" ->
         UNCHANGED <<handler, before, test, ptr, next, saved, classes, room, found, answer, fate>>
    [] handler[s] = "jump" /\ next # "returned" -> Jump
    [] OTHER ->
         /\ fate' = IF handler[s] = "jump" THEN "undefined" ELSE "killed"
         /\ UNCHANGED <<handler, before, test, ptr, next, saved, classes, room, found, answer>>

KillSends(s) == Signalled(s) /\ sent' = TRUE

\* Memory is read, or a signal comes instead.
Touch(at, faults, then) ==
  /\ next = at
  /\ IF faults # {} THEN \E s \in faults : Signalled(s) /\ UNCHANGED sent
     ELSE /\ next' = then
          /\ UNCHANGED <<handler, before, test, ptr, saved, classes, room, found, answer, sent, fate>>

\* The first byte ...
Read ==
  Touch("memcpy",
        CASE ptr = "unmapped" -> {"SIGSEGV"} [] ptr = "protected" -> {"SIGBUS"} [] OTHER -> {},
        IF test = "is_valid_ptr" THEN "back SIGSEGV" ELSE "isa")

\* ... and all of the isa.
ReadIsa == Touch("isa", IF ptr = "edge" THEN {"SIGSEGV"} ELSE {}, "count")

\* objc_getClassList is asked for the number of classes, and for the classes.
CountClasses ==
  /\ next = "count"
  /\ room' = classes
  /\ next' = "list"
  /\ UNCHANGED <<handler, before, test, ptr, saved, classes, found, answer, sent, fate>>

(***************************************************************************)
(* The loop goes from one element after the last of the classes there are  *)
(* now, which is not in the list, down to the first.  What is beyond the   *)
(* list may look like the class, or not be there; the class of an object   *)
(* is surely found only if the list has room for all classes.              *)
(***************************************************************************)
LookForClass ==
  /\ next = "list"
  /\ \/ /\ found' \in IF ptr = "object" /\ classes <= room THEN {TRUE} ELSE BOOLEAN
        /\ next' = "free"
        /\ UNCHANGED <<handler, before, test, ptr, saved, classes, room, answer, sent, fate>>
     \/ \E s \in Signal : Signalled(s) /\ UNCHANGED sent

FreeList ==
  /\ next = "free"
  /\ next' = "back SIGSEGV"
  /\ UNCHANGED <<handler, before, test, ptr, saved, classes, room, found, answer, sent, fate>>

\* MUTANT of Restore: a handler that is not known is not restored.
RestoreKnown(at, s, then, valid) ==
  /\ next = at
  /\ handler' = [handler EXCEPT ![s] = IF saved[s] = "default" THEN @ ELSE saved[s]]
  /\ next' = then
  /\ answer' = IF then = "returned" THEN valid ELSE answer
  /\ UNCHANGED <<before, test, ptr, saved, classes, room, found, sent, fate>>

\* A handler is what it was before the test, as far as the locals know.
Restore(at, s, then, valid) ==
  /\ next = at
  /\ handler' = [handler EXCEPT ![s] = saved[s]]
  /\ next' = then
  /\ answer' = IF then = "returned" THEN valid ELSE answer
  /\ UNCHANGED <<before, test, ptr, saved, classes, room, found, sent, fate>>

is_valid ==
  \/ Catch("SIGSEGV", "SIGBUS") \/ Catch("SIGBUS", "memcpy")
  \/ Read \/ ReadIsa \/ CountClasses \/ LookForClass \/ FreeList
  \/ Restore("back SIGSEGV", "SIGSEGV", "back SIGBUS", FALSE)
  \/ Restore("back SIGBUS", "SIGBUS", "returned", test = "is_valid_ptr" \/ found)
  \/ Restore("first SIGSEGV", "SIGSEGV", "then SIGBUS", FALSE)
  \/ Restore("then SIGBUS", "SIGBUS", "returned", FALSE)

\* Other threads load classes.
Load ==
  /\ next # "returned" /\ classes < MaxClasses
  /\ classes' = classes + 1
  /\ UNCHANGED <<handler, before, test, ptr, next, saved, room, found, answer, sent, fate>>

PtrNext ==
  /\ fate = "runs"
  /\ \/ \E s \in Signal : KillSends(s) \/ \E h \in {"default", "own"} : Install(s, h)
     \/ \E t \in Test, p \in Pointer : Begin(t, p)
     \/ is_valid
     \/ Load

PtrSpec == PtrInit /\ [][PtrNext]_ptrVars

-------------------------------------------------------------------------------

\* What the tests are to answer; of data, that it is no object is not sure.
Valid == IF test = "is_valid_ptr" THEN {"edge", "data", "object"} ELSE {"data", "object"}

(***************************************************************************)
(* Wherever signals come, the jump never goes into a test that has         *)
(* returned, and no test leaves it installed: a handler of the program is  *)
(* there again, after a pointer that could be read, and it or the default  *)
(* after one that could not.  And the answer is right, if no signal came   *)
(* from elsewhere, the list had room for the classes, and there was memory *)
(* after it.                                                               *)
(***************************************************************************)
HandlersComeBack ==
  /\ fate # "undefined"
  /\ next = "returned" =>
       /\ \A s \in Signal : handler[s] \in {before[s]} \cup (IF answer THEN {} ELSE {"default"})
       /\ answer => ptr \in Valid \cup {"null"}
       /\ ~answer /\ ~sent /\ (test = "is_valid_objc_instance" => classes <= room) =>
            ptr \notin IF test = "is_valid_ptr" THEN Valid ELSE {"object"}

===============================================================================
