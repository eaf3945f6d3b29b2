----------------------------- MODULE ModuleManager -----------------------------
(***************************************************************************)
(* JavaScript/ModuleManager.js: modules are made and registered under a    *)
(* name.  The constructor of one may register and ask for others; an error *)
(* ends every constructor up to the one that catches it.                   *)
(*                                                                         *)
(* The table is an Array, so that it has the properties of arrays from the *)
(* beginning: their names are in BuiltIn.                                  *)
(***************************************************************************)
EXTENDS Naturals, Sequences

CONSTANTS Module,    \* names
          BuiltIn,   \* names of properties of arrays
          MaxMade,   \* bound on the objects made
          MaxNesting \* bound on the constructors that run at once

ASSUME ManagerAssumption == MaxMade \in Nat /\ MaxNesting \in Nat

VARIABLES _instance,      \* the manager, or null
          _moduleClasses, \* of the manager: what is under each name
          running,        \* constructors that run, each with its name and object
          made            \* number of objects made

moduleVars == <<_instance, _moduleClasses, running, made>>

null == "null"
undefined == 0
ofArrays == MaxMade + 1  \* what arrays have under the names in BuiltIn
Names == {running[i].name : i \in DOMAIN running}

\* new Array().
Array == [n \in Module \cup BuiltIn |-> IF n \in BuiltIn THEN ofArrays ELSE undefined]

ModuleTypeOK ==
  /\ _instance \in {null, "manager"}
  /\ _moduleClasses \in [Module \cup BuiltIn -> 0 .. ofArrays]
  /\ running \in Seq([name : Module \cup BuiltIn, object : 1 .. MaxMade])
  /\ made \in 0 .. MaxMade

ModuleInit ==
  /\ _instance = null
  /\ _moduleClasses = Array
  /\ running = <<>>
  /\ made = 0

-------------------------------------------------------------------------------

\* new ModuleManager: every one but the first is the first.
NewModuleManager ==
  /\ IF _instance # null THEN UNCHANGED <<_instance, _moduleClasses>>
     ELSE _instance' = "manager" /\ _moduleClasses' = Array
  /\ UNCHANGED <<running, made>>

getInstance == IF _instance = null THEN NewModuleManager ELSE UNCHANGED moduleVars

\* An error is caught in the code below some constructor, which does not return;
\* the script, at the bottom, ends and another begins.
Throw ==
  /\ \E k \in 0 .. Len(running) : running' = SubSeq(running, 1, k)
  /\ UNCHANGED <<_instance, _moduleClasses, made>>

\* MUTANT of registerModuleClass: whatever is under the name is replaced.
registerAgain(name) ==
  /\ made < MaxMade /\ Len(running) < MaxNesting
  /\ running' = Append(running, [name |-> name, object |-> made + 1])
  /\ made' = made + 1
  /\ UNCHANGED <<_instance, _moduleClasses>>

\* The name is looked up before the constructor runs.
registerModuleClass(name) ==
  IF _moduleClasses[name] # undefined THEN Throw
  ELSE /\ made < MaxMade /\ Len(running) < MaxNesting
       /\ running' = Append(running, [name |-> name, object |-> made + 1])
       /\ made' = made + 1
       /\ UNCHANGED <<_instance, _moduleClasses>>

\* The assignment of registerModuleClass, when the constructor comes back.
Constructed ==
  /\ running # <<>>
  /\ LET last == running[Len(running)]
     IN  _moduleClasses' = [_moduleClasses EXCEPT ![last.name] = last.object]
  /\ running' = SubSeq(running, 1, Len(running) - 1)
  /\ UNCHANGED <<_instance, made>>

\* What is under the name is returned, a property of arrays too.
getModule(name) == IF _moduleClasses[name] = undefined THEN Throw ELSE UNCHANGED moduleVars

\* Scripts, and the constructors they register, have the manager from getInstance; what
\* they register may fail, or be no constructor.
ModuleNext ==
  \/ NewModuleManager \/ getInstance
  \/ /\ _instance # null
     /\ \/ \E name \in Module \cup BuiltIn : registerModuleClass(name) \/ getModule(name)
        \/ Constructed
        \/ Throw

ModuleSpec == ModuleInit /\ [][ModuleNext]_moduleVars

-------------------------------------------------------------------------------

(***************************************************************************)
(* getModule gives the same object ever after, once a name is registered   *)
(* and no constructor for the name is running: neither constructors that   *)
(* register others nor errors in them change it.  (One that registers its  *)
(* own name is replaced when it comes back.)                               *)
(***************************************************************************)
RegisteredModulesStay ==
  [][\A n \in Module \cup BuiltIn :
       _moduleClasses[n] # undefined /\ n \notin Names =>
         _moduleClasses'[n] = _moduleClasses[n] /\ n \notin Names']_moduleVars

===============================================================================
