-------------------------------- MODULE MCSystem --------------------------------
(***************************************************************************)
(* Model-checking instance of seven small programs that do not know of     *)
(* each other, but each share something with others: threads, signals, the *)
(* file system, the table of processes, ports.  They share a run: program  *)
(* says which of them it is that steps.  Five of them are extended, and    *)
(* the two whose names would clash are instances.                          *)
(***************************************************************************)
EXTENDS DirAccess, FsMonitor, MessagePort, ProcTable, PtrValid

CONSTANTS Full, Length,                              \* ProgressBar
          Thread, NoClient, MaxClients, MaxMessages, \* Clog
          \* values of ProcTable, DirAccess, MessagePort and Clog
          p1, p2, p3, f1, f2, s1, s2, c1, c2, c3, t1, t2

\* What the arithmetic of the bar needs of its two numbers: with others its width would
\* change at 1 % or at 2 %.
ASSUME BarAssumption == {Full, Length} \subseteq Nat /\ Length < Full /\ Full <= 2 * Length

ASSUME ClogAssumption ==
  MaxClients \in Nat /\ MaxMessages \in Nat /\ NoClient \notin 1 .. MaxClients

VARIABLES percent, main, thread, local, gear, screen, line,
          aslclient, logging, messages, opened, refused, toLog, exited

ofProgress == <<percent, main, thread, local, gear, screen, line>>
ofLog == <<aslclient, logging, messages, opened, refused, toLog, exited>>

B == INSTANCE ProgressBar
L == INSTANCE Clog WITH client <- aslclient, sent <- toLog

VARIABLES program, \* the one that runs
          atRead   \* history: the table of the kernel when ProcTable read it

allVars ==
  <<ofProgress, procVars, dirVars, ptrVars, fsVars, portVars, ofLog, program, atRead>>

\* An entry for each way through the tests of dir-read-access.m, and through the kernel's.
en(owner, group, mode) == [owner |-> owner, group |-> group, mode |-> mode]

EntriesOfEachKind ==
  {en("uid", "gid", {"S_IRUSR"}), en("uid", "gid", {"S_IRGRP"}),
   en("other", "gid", {"S_IRGRP"}), en("other", "gid", {"S_IROTH"}),
   en("other", "second", {"S_IRGRP"}), en("other", "second", {"S_IRGRP", "S_IROTH"}),
   en("other", "other", {"S_IRGRP"}), en("other", "other", {"S_IROTH"}),
   en("other", "other", {"S_IRGRP", "S_IROTH"})}

\* The programs that do not run are in one of their initial states.
MCInit ==
  /\ program \in {"progressbar", "proc", "dir-read-access", "ptr-valid", "fsmonitor",
                  "CFMessagePort", "clog"}
  /\ B!BarInit /\ ProcInit /\ DirInit /\ PtrInit /\ FsInit /\ PortInit /\ L!ClogInit
  /\ program # "progressbar" => thread = "reads"
  /\ program # "proc" => table = <<p1>>
  /\ program # "dir-read-access" => /\ path = "nothing" /\ file = f1 /\ searchable = {}
                                    /\ entry[f1] = NoStat /\ entry[f2] = NoStat
  /\ program # "ptr-valid" => \A s \in Signal : before[s] = "own"
  /\ program # "fsmonitor" => data.flags = "unset" /\ fits
  /\ atRead = Nil

Progress ==
  /\ program = "progressbar"
  /\ B!BarNext
  /\ UNCHANGED <<procVars, dirVars, ptrVars, fsVars, portVars, ofLog, program, atRead>>

Proc ==
  /\ program = "proc"
  /\ ProcNext
  /\ atRead' = IF step = "reads" /\ step' = "answers" THEN table ELSE atRead
  /\ UNCHANGED <<ofProgress, dirVars, ptrVars, fsVars, portVars, ofLog, program>>

Directory ==
  /\ program = "dir-read-access"
  /\ DirNext
  /\ UNCHANGED <<ofProgress, procVars, ptrVars, fsVars, portVars, ofLog, program, atRead>>

Pointers ==
  /\ program = "ptr-valid"
  /\ PtrNext
  /\ UNCHANGED <<ofProgress, procVars, dirVars, fsVars, portVars, ofLog, program, atRead>>

Files ==
  /\ program = "fsmonitor"
  /\ FsNext
  /\ UNCHANGED <<ofProgress, procVars, dirVars, ptrVars, portVars, ofLog, program, atRead>>

Ports ==
  /\ program = "CFMessagePort"
  /\ PortNext
  /\ UNCHANGED <<ofProgress, procVars, dirVars, ptrVars, fsVars, ofLog, program, atRead>>

Log ==
  /\ program = "clog"
  /\ L!ClogNext
  /\ UNCHANGED <<ofProgress, procVars, dirVars, ptrVars, fsVars, portVars, program, atRead>>

MCNext == Progress \/ Proc \/ Directory \/ Pointers \/ Files \/ Ports \/ Log

\* FsFair and PortFair, of the program that runs.
MCFair ==
  /\ WF_allVars(Files /\ Monitor)
  /\ \A c \in Client : WF_allVars(Ports /\ client[c] = "sends" /\ Request(c))

MCSpec == MCInit /\ [][MCNext]_allVars /\ MCFair

-------------------------------------------------------------------------------

\* What each of the seven programs keeps is of its type.
SystemTyped ==
  B!BarTypeOK /\ ProcTypeOK /\ DirTypeOK /\ PtrTypeOK /\ FsTypeOK /\ PortTypeOK /\ L!ClogTypeOK

(***************************************************************************)
(* What +allProcesses of proc.m answers, nil apart, was the whole table of *)
(* the kernel at the moment of the second call, from the oldest process to *)
(* the last, though processes begin and end between its steps.             *)
(***************************************************************************)
AnswerIsOneMoment ==
  step = "returned" /\ array # Nil => Reverse(array) = atRead

(***************************************************************************)
(* What is read of others while they change it is answered as it was: bar, *)
(* number and tail on the screen are of one moment (ProgressBar, of        *)
(* C/progressbar.c), and so is the table of processes; a directory with    *)
(* files that lstat found not to be readable is not said to be readable    *)
(* (DirAccess, of dir-read-access.m).                                      *)
(***************************************************************************)
AnswersAreTrue == B!ScreenIsOneMoment /\ AnswerIsOneMoment /\ AccessIsTrue

(***************************************************************************)
(* What is handed over to others is neither lost nor doubled on the way: a *)
(* change of the file is noted until it is printed (FsMonitor, of          *)
(* fsmonitor.m), a request is shown once or lost with its server           *)
(* (MessagePort, of C/CFMessagePort), and a message for the log is sent    *)
(* through a client that is there, or the process ends (Clog, of clog.c).  *)
(***************************************************************************)
NothingGetsLost == NoneIsForgotten /\ NoneTwice /\ L!MessagesAreSent

===============================================================================
