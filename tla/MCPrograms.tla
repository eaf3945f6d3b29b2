------------------------------- MODULE MCPrograms -------------------------------
(***************************************************************************)
(* Model-checking instance of five small programs that do not know of each *)
(* other.  They share a run: program says which of them it is that steps,  *)
(* the others stay where they began.                                       *)
(***************************************************************************)
EXTENDS Zombie, ModuleManager, MemAlloc, ProcessLookup

CONSTANT Last \* Gcd
CONSTANTS wanted, longer, other, short \* lines: that of the path, of a longer path, of
                                        \* another process, and one that is too short

ASSUME ThreadsAssumption == Last \in Nat

VARIABLES detached, target, argument, threads, written, ended

ofThreads == <<detached, target, argument, threads, written, ended>>

G == INSTANCE Gcd WITH i <- detached, foo <- target, str <- argument

VARIABLE program \* the one that runs

-------------------------------------------------------------------------------

MCInit ==
  /\ program \in {"ModuleManager", "zombie", "gcd", "mem_alloc", "process"}
  /\ ModuleInit /\ ZombieInit /\ G!GcdInit /\ MemInit /\ LookupInit

Manager ==
  /\ program = "ModuleManager"
  /\ ModuleNext
  /\ UNCHANGED <<zombieVars, ofThreads, memVars, lookupVars, program>>

Zombies ==
  /\ program = "zombie"
  /\ ZombieNext
  /\ UNCHANGED <<moduleVars, ofThreads, memVars, lookupVars, program>>

Threads ==
  /\ program = "gcd"
  /\ G!GcdNext
  /\ UNCHANGED <<moduleVars, zombieVars, memVars, lookupVars, program>>

Allocator ==
  /\ program = "mem_alloc"
  /\ MemNext
  /\ UNCHANGED <<moduleVars, zombieVars, ofThreads, lookupVars, program>>

Lookup ==
  /\ program = "process"
  /\ LookupNext
  /\ UNCHANGED <<moduleVars, zombieVars, ofThreads, memVars, program>>

MCNext == Manager \/ Zombies \/ Threads \/ Allocator \/ Lookup

allVars == <<moduleVars, zombieVars, ofThreads, memVars, lookupVars, program>>

MCSpec == MCInit /\ [][MCNext]_allVars

\* The parent of ps goes on when it can, and so does ps.
MCFairSpec ==
  /\ MCSpec
  /\ WF_allVars(Lookup /\ Parent)
  /\ WF_allVars(Lookup /\ Ps)

-------------------------------------------------------------------------------

\* The tables, objects, threads and memory of every program have their types; the blocks
\* the client of mem_alloc has are of a size it asked for (mem_alloc lines 191-195), and
\* what is read of the output of ps, and found in it, is lines (processInfosByPath:).
ProgramsTyped == ModuleTypeOK /\ ZombieTypeOK /\ G!GcdTypeOK /\ MemTypeOK /\ LookupTypeOK

\* A dead object is never taken for another, and threads keep what they were given: see
\* Zombie (zombie.m, zombie_dealloc) and Gcd (gcd.m, main).
ObjectsOutliveTheirUses == ReferencesFindTheirObject /\ G!ThreadsKeepTheirs

(***************************************************************************)
(* Output of ps that fits in the pipe is waited for, read and looked       *)
(* through: see ProcessLookup (process.m, processInfosByPath:).            *)
(***************************************************************************)
AnswersIfItFits == (program = "process" /\ ps # "none" /\ FitsInPipe) ~> pc = "done"

===============================================================================
