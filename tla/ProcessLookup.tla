----------------------------- MODULE ProcessLookup -----------------------------
(***************************************************************************)
(* Objective-C/process.m: a process is found by its path in the output of  *)
(* ps, which is launched with a pipe as its standard output.  The parent   *)
(* waits for ps to end before it reads the pipe.                           *)
(*                                                                         *)
(* The output is counted in lines, and so is what the pipe can hold.       *)
(***************************************************************************)
EXTENDS Naturals, Sequences, FiniteSetsExt

CONSTANTS Line,      \* the lines ps may print
          Matching,  \* those with the path, or a longer one, at column 25
          NoLine,    \* nil
          Capacity,  \* lines the pipe holds
          MaxLines   \* bound: lines ps prints

ASSUME LineAssumption == Matching \subseteq Line /\ NoLine \notin Line
ASSUME CapacityAssumption == Capacity \in Nat /\ MaxLines \in Nat

VARIABLES pc,       \* where processInfosByPath: is
          ps,       \* the state of the task
          listing,  \* what ps has to print
          printed,  \* how many lines of it are in the pipe
          data,     \* what readDataToEndOfFile answered
          result    \* the line that is returned

lookupVars == <<pc, ps, listing, printed, data, result>>

LookupTypeOK ==
  /\ pc \in {"launch", "wait", "read", "scan", "done"}
  /\ ps \in {"none", "running", "exited", "killed"}
  /\ listing \in Seq(Line)
  /\ printed \in 0 .. Len(listing)
  /\ printed <= Capacity
  /\ data \in Seq(Line)
  /\ result \in Line \cup {NoLine}

LookupInit ==
  /\ pc = "launch"
  /\ ps = "none"
  /\ listing = <<>>
  /\ printed = 0
  /\ data = <<>>
  /\ result = NoLine

-------------------------------------------------------------------------------

\* There are as many processes to list as there happen to be.
Launch ==
  /\ pc = "launch"
  /\ pc' = "wait"
  /\ ps' = "running"
  /\ listing' \in UNION {[1 .. k -> Line] : k \in 0 .. MaxLines}
  /\ UNCHANGED <<printed, data, result>>

\* MUTANT of PsWrites: a write does not block.
PsWritesOn ==
  /\ ps = "running"
  /\ printed < Len(listing)
  /\ printed' = printed + 1
  /\ UNCHANGED <<pc, ps, listing, data, result>>

(***************************************************************************)
(* ps: a write blocks while the pipe is full.                              *)
(***************************************************************************)
PsWrites ==
  /\ ps = "running"
  /\ printed < Len(listing)
  /\ printed < Capacity
  /\ printed' = printed + 1
  /\ UNCHANGED <<pc, ps, listing, data, result>>

PsExits ==
  /\ ps = "running"
  /\ printed = Len(listing)
  /\ ps' = "exited"
  /\ UNCHANGED <<pc, listing, printed, data, result>>

\* Somebody kills ps.
PsIsKilled ==
  /\ ps = "running"
  /\ ps' = "killed"
  /\ UNCHANGED <<pc, listing, printed, data, result>>

(***************************************************************************)
(* processInfosByPath:                                                     *)
(***************************************************************************)

\* MUTANT of Wait: the wait goes on after a task that did not exit by itself.
WaitForExit ==
  /\ pc = "wait"
  /\ ps = "exited"
  /\ printed < Capacity
  /\ pc' = "read"
  /\ UNCHANGED <<ps, listing, printed, data, result>>

\* The loop on isRunning ends.
Wait ==
  /\ pc = "wait"
  /\ ps # "running"
  /\ pc' = "read"
  /\ UNCHANGED <<ps, listing, printed, data, result>>

\* The end of the file is there: no process has the pipe open for writing.
Read ==
  /\ pc = "read"
  /\ data' = SubSeq(listing, 1, printed)
  /\ pc' = "scan"
  /\ UNCHANGED <<ps, listing, printed, result>>

\* MUTANT of First: the exception of a line that is too short ends the loop.
FirstOrShort(lines) ==
  IF lines # <<>> /\ lines[1] \in Matching THEN lines[1] ELSE NoLine

\* The first line with the path; one too short raises an exception, which is
\* caught, and the loop continues with the next.
First(lines) ==
  LET found == {k \in DOMAIN lines : lines[k] \in Matching}
  IN  IF found = {} THEN NoLine ELSE lines[Min(found)]

Scan ==
  /\ pc = "scan"
  /\ result' = First(data)
  /\ pc' = "done"
  /\ UNCHANGED <<ps, listing, printed, data>>

\* Both processes are scheduled; nobody has to kill ps.
Parent == Launch \/ Wait \/ Read \/ Scan
Ps == PsWrites \/ PsExits

LookupNext == Parent \/ Ps \/ PsIsKilled

-------------------------------------------------------------------------------

FitsInPipe == Len(listing) <= Capacity

(***************************************************************************)
(* Unless ps was killed, the answer is a line of its output with the path, *)
(* and nil only if there is none: no line was left in the pipe.            *)
(***************************************************************************)
AnswerIsComplete ==
  pc = "done" /\ ps # "killed" =>
    IF result = NoLine
    THEN \A i \in DOMAIN listing : listing[i] \notin Matching
    ELSE /\ result \in Matching
         /\ \E i \in DOMAIN listing : listing[i] = result
===============================================================================
