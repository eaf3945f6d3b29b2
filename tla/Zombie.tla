--------------------------------- MODULE Zombie ---------------------------------
(***************************************************************************)
(* Objective-C/zombie.m: NSObject's dealloc is exchanged for one that      *)
(* keeps the memory and makes the object a Zombie, which answers every     *)
(* method of NSObject with a log and SIGTRAP.  A debugger may let the      *)
(* process go on after it.                                                 *)
(*                                                                         *)
(* An object at an address has a life, so that a reference tells which     *)
(* object it was taken of.  Left out: what the log says beside the class.  *)
(***************************************************************************)
EXTENDS Naturals

CONSTANTS Address, Class,
          MaxLives,    \* bound on the objects made
          MaxRetained  \* bound on the retain count

ASSUME ZombieAssumption ==
  /\ {"Zombie", "none"} \cap Class = {}
  /\ MaxLives \in Nat /\ MaxRetained \in Nat \ {0}

VARIABLES heap,     \* what is at each address; life 0 for nothing
          refs,     \* references the program has, to an address and a life
          lives,    \* number of objects made
          logged,   \* the class in the last log; "none" if there was no log yet
          state     \* of the process

zombieVars == <<heap, refs, lives, logged, state>>

\* zombieClass and zombieTrace are the associated objects of __assocKeyClass and ...BT.
Nothing == [life |-> 0, isa |-> "none", count |-> 0, zombieClass |-> "none", zombieTrace |-> FALSE]
isDead(a) == heap[a].isa = "Zombie"

Classes == Class \cup {"Zombie", "none"}

ZombieTypeOK ==
  /\ heap \in [Address -> [life : 0 .. MaxLives, isa : Classes, count : 0 .. MaxRetained,
                           zombieClass : Classes, zombieTrace : BOOLEAN]]
  /\ refs \subseteq [at : Address, life : 1 .. MaxLives, class : Class]
  /\ lives \in 0 .. MaxLives
  /\ logged \in Classes
  /\ state \in {"runs", "trapped", "killed"}

ZombieInit ==
  /\ heap = [a \in Address |-> Nothing]
  /\ refs = {}
  /\ lives = 0
  /\ logged = "none"
  /\ state = "runs"

-------------------------------------------------------------------------------

\* +alloc and -init of Foundation.
Alloc(a, class) ==
  /\ heap[a].life = 0
  /\ lives < MaxLives
  /\ heap' = [heap EXCEPT ![a] = [life |-> lives + 1, isa |-> class, count |-> 1,
                                  zombieClass |-> "none", zombieTrace |-> FALSE]]
  /\ refs' = refs \cup {[at |-> a, life |-> lives + 1, class |-> class]}
  /\ lives' = lives + 1
  /\ UNCHANGED <<logged, state>>

\* MUTANT of zombie_dealloc: it goes on to NSObject's own, which frees the memory.
zombie_dealloc_through(a) == heap' = [heap EXCEPT ![a] = Nothing]

\* Of the object that is there: a zombie that is sent dealloc again has Zombie's class.
zombie_dealloc(a) ==
  heap' = [heap EXCEPT ![a] = [life |-> @.life, isa |-> "Zombie", count |-> 0,
                               zombieClass |-> @.isa, zombieTrace |-> TRUE]]

\* logCall: the class is looked up, the log is written and SIGTRAP raised.
logCall(a) ==
  /\ logged' = heap[a].zombieClass
  /\ state' = "trapped"
  /\ UNCHANGED <<heap, refs, lives>>

-------------------------------------------------------------------------------

\* retain and release of NSObject; the last release sends dealloc.
Retain(a) ==
  /\ heap[a].count < MaxRetained
  /\ heap' = [heap EXCEPT ![a].count = @ + 1]
  /\ UNCHANGED <<refs, lives, logged, state>>

Release(a) ==
  /\ IF heap[a].count = 1 THEN zombie_dealloc(a)
     ELSE heap' = [heap EXCEPT ![a].count = @ - 1]
  /\ UNCHANGED <<refs, lives, logged, state>>

\* What the Zombie class has methods for, and others: forwardInvocation: is sent for
\* those the class before death has.
Overridden == {"retain", "release", "class", "any other of NSObject's"}
Silent == {"doesNotRecognizeSelector:", "methodSignatureForSelector:"}
Messages == Overridden \cup Silent \cup {"own method", "unknown method"}

\* A method of a live object other than those of memory changes nothing here, and an
\* unknown one ends the process.
ToLive(a, message) ==
  CASE message = "retain" -> Retain(a)
    [] message = "release" -> Release(a)
    [] message \in {"unknown method", "doesNotRecognizeSelector:"} ->
         state' = "killed" /\ UNCHANGED <<heap, refs, lives, logged>>
    [] OTHER -> UNCHANGED zombieVars

\* To a dead one: an own method has a signature in the class that is remembered, and so
\* is forwarded; one without a signature comes to doesNotRecognizeSelector:.
ToDead(a, message) ==
  IF message \in Overridden \/ (message = "own method" /\ heap[a].zombieClass \in Class)
  THEN logCall(a)
  ELSE UNCHANGED zombieVars

\* dealloc sent by the program itself, or [super dealloc] once more: both find NSObject's.
Dealloc(a) == zombie_dealloc(a) /\ UNCHANGED <<refs, lives, logged, state>>

Send(a, message) == IF isDead(a) THEN ToDead(a, message) ELSE ToLive(a, message)

\* The debugger goes on, or the process is ended.
Resume ==
  /\ state = "trapped"
  /\ state' \in {"runs", "killed"}
  /\ UNCHANGED <<heap, refs, lives, logged>>

ZombieNext ==
  \/ /\ state = "runs"
     /\ \/ \E a \in Address, class \in Class : Alloc(a, class)
        \/ \E r \in refs :
             \/ \E message \in Messages : Send(r.at, message)
             \/ Dealloc(r.at)
  \/ Resume

ZombieSpec == ZombieInit /\ [][ZombieNext]_zombieVars

-------------------------------------------------------------------------------

(***************************************************************************)
(* However long after its death an object is used, what is found is the    *)
(* object that was meant, or what is left of it: its memory goes to no     *)
(* other, and it remembers its class, unless dealloc was sent again.       *)
(***************************************************************************)
ReferencesFindTheirObject ==
  \A r \in refs :
    /\ heap[r.at].life = r.life
    /\ isDead(r.at) => heap[r.at].zombieClass \in {r.class, "Zombie"} /\ heap[r.at].zombieTrace
    /\ ~isDead(r.at) => heap[r.at].isa = r.class /\ heap[r.at].count > 0

===============================================================================
