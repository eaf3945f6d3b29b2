------------------------------- MODULE FsMonitor -------------------------------
(***************************************************************************)
(* Objective-C/fsmonitor.m: a file is watched through a kernel queue, and  *)
(* every second, or sooner, it is printed what happened to it.             *)
(*                                                                         *)
(* The kernel adds up what happens between two calls of kevent.  The       *)
(* filter is added again by each call, which may fail; then the error is   *)
(* the event.  An old kernel sets the flags of such an event to EV_ERROR,  *)
(* a new one adds EV_ERROR to those of the request.                        *)
(*                                                                         *)
(* Each event has the path with it, which is printed into an array.        *)
(***************************************************************************)
EXTENDS Integers

CONSTANT Note \* what may happen: some of NOTE_WRITE, NOTE_DELETE, ...

VARIABLES monitor, \* what main does next
          added,   \* the filter is in the queue
          notes,   \* of the kernel: what happened since the last event
          data,    \* the event that was received last
          n,       \* what kevent answered
          fits,    \* the path of the file leaves room in the text of an event
          unseen,  \* history: what happened since the filter was added, and is not printed
          failed   \* history: the first call that failed, or "none"

fsVars == <<monitor, added, notes, data, n, fits, unseen, failed>>

Flags == {"as added", "error", "added error", "unset"}

FsTypeOK ==
  /\ monitor \in {"opens", "adds", "waits", "looks", "ended", "crashed"}
  /\ added \in BOOLEAN
  /\ notes \subseteq Note /\ unseen \subseteq Note
  /\ data \in [flags : Flags, fflags : SUBSET Note]
  /\ n \in {-1, 0, 1} /\ fits \in BOOLEAN
  /\ failed \in {"none", "open", "kevent"}

\* data is not initialised, and may look like an error.
FsInit ==
  /\ monitor = "opens"
  /\ added = FALSE
  /\ notes = {} /\ unseen = {}
  /\ data \in [flags : {"unset", "error"}, fflags : {{}}]
  /\ n = 0 /\ fits \in BOOLEAN
  /\ failed = "none"

-------------------------------------------------------------------------------

\* The file changes; nobody keeps what happens before the filter is added.
Change(note) ==
  /\ monitor \in {"opens", "adds", "waits", "looks"}
  /\ notes' = IF added THEN notes \cup {note} ELSE notes
  /\ unseen' = IF added THEN unseen \cup {note} ELSE unseen
  /\ UNCHANGED <<monitor, added, data, n, fits, failed>>

\* kqueue and open, and the test of their results.
Open ==
  /\ monitor = "opens"
  /\ \/ monitor' = "adds" /\ UNCHANGED failed
     \/ monitor' = "ended" /\ failed' = "open"
  /\ UNCHANGED <<added, notes, data, n, fits, unseen>>

\* The beginning of kevent.
Add ==
  /\ monitor = "adds"
  /\ \/ /\ added' = TRUE /\ monitor' = "waits"
        /\ UNCHANGED <<data, n, failed>>
     \/ /\ \E flags \in {"error", "added error"} : data' = [flags |-> flags, fflags |-> {}]
        /\ n' = 1 /\ failed' = "kevent" /\ monitor' = "looks"
        /\ UNCHANGED added
  /\ UNCHANGED <<notes, fits, unseen>>

\* ... and its end: an event, which clears the notes (EV_CLEAR), the timeout, or an error.
Wait ==
  /\ monitor = "waits"
  /\ \/ /\ notes # {}
        /\ data' = [flags |-> "as added", fflags |-> notes]
        /\ notes' = {} /\ n' = 1 /\ UNCHANGED failed
     \/ notes = {} /\ n' = 0 /\ UNCHANGED <<data, notes, failed>>
     \/ n' = -1 /\ failed' = "kevent" /\ UNCHANGED <<data, notes>>
  /\ monitor' = "looks"
  /\ UNCHANGED <<added, fits, unseen>>

\* MUTANT of Break: a timeout is taken for an error.
BreakAtTimeout == n <= 0 \/ data.flags = "error"

\* An error is the answer of kevent, or the event; data is that of the last event if
\* there was none now.
Break == n < 0 \/ data.flags = "error"

\* MUTANT of Show: one only of the notes of an event is printed.
ShowOne ==
  IF n > 0 /\ (data.flags = "added error" \/ ~fits)
  THEN monitor' = "crashed" /\ UNCHANGED unseen
  ELSE /\ \/ n = 0 /\ UNCHANGED unseen
          \/ n > 0 /\ \E note \in data.fflags : unseen' = (unseen \ {note}) \cup notes
       /\ monitor' = "adds"

\* __printKEvent writes the path into an array of 512 characters, and takes the data of
\* the event for the address of a string, or NULL: of a change it is 0, of an error its
\* number.  What happened again since is not printed.
Show ==
  IF n > 0 /\ (data.flags = "added error" \/ ~fits)
  THEN monitor' = "crashed" /\ UNCHANGED unseen
  ELSE /\ unseen' = IF n > 0 THEN (unseen \ data.fflags) \cup notes ELSE unseen
       /\ monitor' = "adds"

\* The rest of the loop.
Look ==
  /\ monitor = "looks"
  /\ IF Break THEN monitor' = "ended" /\ UNCHANGED unseen ELSE Show
  /\ UNCHANGED <<added, notes, data, n, fits, failed>>

Monitor == Open \/ Add \/ Wait \/ Look

FsNext == Monitor \/ \E note \in Note : Change(note)

\* The process runs; nothing has to happen to the file.
FsFair == WF_fsVars(Monitor)

FsSpec == FsInit /\ [][FsNext]_fsVars /\ FsFair

-------------------------------------------------------------------------------

Ended == monitor \in {"ended", "crashed"}

\* There is an event, and it is going to be printed.
Received == monitor = "looks" /\ n = 1 /\ ~Break

(***************************************************************************)
(* What happens to the file while the filter is there is not forgotten:    *)
(* before it is printed it is noted in the kernel or in the event that was *)
(* received, and nothing else is; unless the monitor crashes, which it     *)
(* does but for an event that is an error, or a path that is too long.     *)
(***************************************************************************)
NoneIsForgotten ==
  IF monitor = "crashed" THEN ~fits \/ failed # "none"
  ELSE unseen = notes \cup IF Received THEN data.fflags ELSE {}

(***************************************************************************)
(* The event received last is looked at after every call, whether or not   *)
(* it is a new one.  That ends the monitor only after a call has failed,   *)
(* or for what was in memory before there was an event.                    *)
(***************************************************************************)
OldEventsAreHarmless ==
  [][monitor' = "ended" => failed' # "none" \/ data.fflags = {}]_fsVars

(***************************************************************************)
(* Every change comes to be printed, or the monitor ends.                  *)
(***************************************************************************)
ChangesArePrinted ==
  \A note \in Note : note \in unseen ~> Ended \/ (Received /\ note \in data.fflags)

\* What the monitor comes to (fsmonitor.m, main): both.
ChangesAreReported == OldEventsAreHarmless /\ ChangesArePrinted

===============================================================================
