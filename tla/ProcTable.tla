------------------------------- MODULE ProcTable -------------------------------
(***************************************************************************)
(* Objective-C/proc.m: the processes of the system.  The size of the       *)
(* kernel's table is asked for, memory is allocated, and the table is      *)
(* read; processes begin and end between the two calls.                    *)
(*                                                                         *)
(* Lengths are in entries.  Of an entry only its process is kept.          *)
(***************************************************************************)
EXTENDS Naturals, SequencesExt

CONSTANTS Pid,
          Slop, \* what the kernel adds to the size: KERN_PROCSLOP
          Unset \* an entry of the memory that was not written

ASSUME SlopAssumption == Slop \in Nat

Nil == <<"nil">>

VARIABLES table,     \* of the kernel, the last process first
          processes, \* the memory, or Nil
          length,
          count,
          step,      \* of allProcesses
          array      \* what it answers: the processes, or Nil

procVars == <<table, processes, length, count, step, array>>

ProcTypeOK ==
  /\ table \in Seq(Pid)
  /\ processes \in Seq(Pid \cup {Unset}) \cup {Nil}
  /\ length \in Nat
  /\ count \in Nat
  /\ step \in {"asks", "allocates", "reads", "answers", "returned"}
  /\ array \in Seq(Pid \cup {Unset}) \cup {Nil}

ProcInit ==
  /\ table \in {<<p>> : p \in Pid}
  /\ processes = Nil
  /\ length = 0
  /\ count = 0
  /\ step = "asks"
  /\ array = Nil

-------------------------------------------------------------------------------

\* The kernel.
Begins(p) ==
  /\ p \notin ToSet(table)
  /\ table' = <<p>> \o table
  /\ UNCHANGED <<processes, length, count, step, array>>

Ends(p) ==
  /\ \E i \in DOMAIN table : table[i] = p /\ table' = RemoveAt(table, i)
  /\ UNCHANGED <<processes, length, count, step, array>>

-------------------------------------------------------------------------------

\* An error of any of the three calls: nil is answered.  The memory of a failed
\* read is freed.
Fails ==
  /\ processes' = Nil
  /\ array' = Nil
  /\ step' = "returned"
  /\ UNCHANGED <<table, length, count>>

\* The first sysctl.
AskLength ==
  /\ step = "asks"
  /\ \/ Fails
     \/ /\ length' = Len(table) + Slop
        /\ step' = "allocates"
        /\ UNCHANGED <<table, processes, count, array>>

Allocate ==
  /\ step = "allocates"
  /\ \/ Fails
     \/ /\ processes' = [i \in 1 .. length |-> Unset]
        /\ step' = "reads"
        /\ UNCHANGED <<table, length, count, array>>

\* MUTANT of ReadTable: the count is taken from the length that was asked for.
ReadTableCounted ==
  /\ step = "reads"
  /\ \/ Fails
     \/ /\ Len(table) <= length
        /\ processes' = [i \in 1 .. length |-> IF i <= Len(table) THEN table[i] ELSE Unset]
        /\ length' = Len(table)
        /\ count' = length
        /\ step' = "answers"
        /\ UNCHANGED <<table, array>>

\* The second sysctl, which sets length to what it has read, and fails if there is
\* more than there is memory for.
ReadTable ==
  /\ step = "reads"
  /\ \/ Fails
     \/ /\ Len(table) <= length
        /\ processes' = [i \in 1 .. length |-> IF i <= Len(table) THEN table[i] ELSE Unset]
        /\ length' = Len(table)
        /\ count' = length'
        /\ step' = "answers"
        /\ UNCHANGED <<table, array>>

\* The loop of allProcesses goes down from the last entry.
Answer ==
  /\ step = "answers"
  /\ array' = [i \in 1 .. count |-> processes[count - (i - 1)]]
  /\ processes' = Nil
  /\ step' = "returned"
  /\ UNCHANGED <<table, length, count>>

AllProcesses == AskLength \/ Allocate \/ ReadTable \/ Answer

ProcNext ==
  \/ AllProcesses
  \/ step # "returned" /\ \E p \in Pid : Begins(p) \/ Ends(p)

ProcSpec == ProcInit /\ [][ProcNext]_procVars

===============================================================================
