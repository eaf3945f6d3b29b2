------------------------------ MODULE SystemProofs ------------------------------
(***************************************************************************)
(* What holds of the seven programs of MCSystem for any processes, files,  *)
(* notes, entries, classes, servers, clients and threads, and any width of *)
(* the bar between half of its full and its full.                          *)
(***************************************************************************)
EXTENDS MCSystem, SequenceTheorems, FiniteSetTheorems, TLAPS

-------------------------------------------------------------------------------

\* FsMonitor: an event that looks like an error has nothing else in it, and comes, but
\* for the memory of the beginning, from a call that failed; and so does the answer -1.
ErrorsAreEmpty ==
  /\ data.flags = "error" => data.fflags = {}
  /\ data.flags = "added error" => failed # "none"
  /\ n \notin {0, 1} => failed # "none"

FsIInv == FsTypeOK /\ NoneIsForgotten /\ ErrorsAreEmpty

THEOREM FsInitEstablishes == FsInit => FsIInv
  <1> SUFFICES ASSUME FsInit PROVE FsIInv
    OBVIOUS
  <1>1. n \in {-1, 0, 1} /\ ~(n < 0)
    BY DEF FsInit
  <1>2. data \in [flags : Flags, fflags : SUBSET Note] /\ data.fflags = {}
    BY DEF FsInit, Flags
  <1> QED BY <1>1, <1>2 DEF FsInit, FsIInv, FsTypeOK, NoneIsForgotten, ErrorsAreEmpty, Received

LEMMA ChangeStep ==
  ASSUME FsIInv, NEW note \in Note, Change(note)
  PROVE  FsIInv'
  <1>1. FsTypeOK' /\ ErrorsAreEmpty'
    BY DEF FsIInv, FsTypeOK, ErrorsAreEmpty, Change
  <1>2. NoneIsForgotten'
    BY DEF FsIInv, NoneIsForgotten, Received, Break, Change
  <1> QED BY <1>1, <1>2 DEF FsIInv

LEMMA AddStep ==
  ASSUME FsIInv, Add
  PROVE  FsIInv'
  <1>1. CASE added' = TRUE /\ monitor' = "waits" /\ UNCHANGED <<data, n, failed, notes, fits, unseen>>
    BY <1>1 DEF FsIInv, FsTypeOK, NoneIsForgotten, ErrorsAreEmpty, Received, Break, Add
  <1>2. ASSUME NEW flags \in {"error", "added error"}, data' = [flags |-> flags, fflags |-> {}],
               n' = 1, failed' = "kevent", monitor' = "looks", UNCHANGED <<added, notes, fits, unseen>>
        PROVE  FsIInv'
    <2>1. data' \in [flags : Flags, fflags : SUBSET Note] /\ data'.fflags = {}
      BY <1>2 DEF Flags
    <2>2. n' \in {-1, 0, 1}
      BY <1>2
    <2>3. FsTypeOK'
      BY <1>2, <2>1, <2>2 DEF FsIInv, FsTypeOK
    <2>4. unseen = notes
      BY DEF FsIInv, NoneIsForgotten, Received, Add
    <2>5. NoneIsForgotten'
      BY <1>2, <2>1, <2>4 DEF NoneIsForgotten
    <2>6. ErrorsAreEmpty'
      BY <1>2, <2>1 DEF ErrorsAreEmpty
    <2> QED BY <2>3, <2>5, <2>6 DEF FsIInv
  <1> QED BY <1>1, <1>2 DEF Add

LEMMA WaitStep ==
  ASSUME FsIInv, Wait
  PROVE  FsIInv'
  <1>1. monitor = "waits" /\ monitor' = "looks" /\ UNCHANGED <<added, fits, unseen>>
    BY DEF Wait
  <1>2. unseen = notes
    BY <1>1 DEF FsIInv, NoneIsForgotten, Received
  <1>3. CASE data' = [flags |-> "as added", fflags |-> notes] /\ notes' = {} /\ n' = 1 /\ UNCHANGED failed
    <2>1. data' \in [flags : Flags, fflags : SUBSET Note]
          /\ data'.fflags = notes /\ data'.flags = "as added"
      BY <1>3 DEF FsIInv, FsTypeOK, Flags
    <2>2. n' \in {-1, 0, 1}
      BY <1>3
    <2>3. FsTypeOK'
      BY <1>1, <1>3, <2>1, <2>2 DEF FsIInv, FsTypeOK
    <2>4. Received'
      <3> n' = 1
        BY <1>3
      <3>1. ~(n' < 0)
        OBVIOUS
      <3> QED BY <1>1, <1>3, <2>1, <3>1 DEF Received, Break
    <2>5. NoneIsForgotten'
      BY <1>1, <1>2, <1>3, <2>1, <2>4 DEF NoneIsForgotten
    <2>6. ErrorsAreEmpty'
      BY <1>3, <2>1 DEF ErrorsAreEmpty
    <2> QED BY <2>3, <2>5, <2>6 DEF FsIInv
  <1>4. CASE notes = {} /\ n' = 0 /\ UNCHANGED <<data, notes, failed>>
    <2>1. n' \in {-1, 0, 1} /\ n' # 1 /\ ~(n' < 0)
      BY <1>4
    <2> QED BY <1>1, <1>2, <1>4, <2>1
        DEF FsIInv, FsTypeOK, NoneIsForgotten, ErrorsAreEmpty, Received
  <1>5. CASE n' = -1 /\ failed' = "kevent" /\ UNCHANGED <<data, notes>>
    <2>1. n' \in {-1, 0, 1} /\ n' # 1
      BY <1>5
    <2> QED BY <1>1, <1>2, <1>5, <2>1
        DEF FsIInv, FsTypeOK, NoneIsForgotten, ErrorsAreEmpty, Received
  <1> QED BY <1>3, <1>4, <1>5 DEF Wait

LEMMA LookStep ==
  ASSUME FsIInv, Look
  PROVE  FsIInv'
  <1>1. monitor = "looks" /\ UNCHANGED <<added, notes, data, n, fits, failed>>
    BY DEF Look
  <1>2. ErrorsAreEmpty'
    BY <1>1 DEF FsIInv, ErrorsAreEmpty
  <1>3. ~Received'
    BY DEF Received, Look, Show
  <1>4. CASE Break
    <2>1. monitor' = "ended" /\ UNCHANGED unseen /\ unseen = notes
      BY <1>1, <1>4 DEF FsIInv, NoneIsForgotten, Received, Look
    <2> QED BY <1>1, <1>2, <1>3, <2>1 DEF FsIInv, FsTypeOK, NoneIsForgotten
  <1>5. CASE ~Break /\ monitor' = "crashed"
    <2>1. UNCHANGED unseen /\ (data.flags = "added error" \/ ~fits)
      BY <1>5 DEF Look, Show
    <2>2. NoneIsForgotten'
      BY <1>1, <1>5, <2>1 DEF FsIInv, ErrorsAreEmpty, NoneIsForgotten
    <2>3. FsTypeOK'
      BY <1>1, <1>5, <2>1 DEF FsIInv, FsTypeOK
    <2> QED BY <1>2, <2>2, <2>3 DEF FsIInv
  <1>6. CASE ~Break /\ monitor' # "crashed"
    <2>1. monitor' = "adds" /\ unseen' = IF n > 0 THEN (unseen \ data.fflags) \cup notes ELSE unseen
      BY <1>6 DEF Look, Show
    <2>2. n = 0 \/ n = 1
      BY <1>6 DEF FsIInv, FsTypeOK, Break
    <2>3. unseen = notes \cup IF n = 1 THEN data.fflags ELSE {}
      BY <1>1, <1>6 DEF FsIInv, NoneIsForgotten, Received
    <2>4. unseen' = notes
      BY <2>1, <2>2, <2>3
    <2> QED BY <1>1, <1>2, <1>3, <2>1, <2>4 DEF FsIInv, FsTypeOK, NoneIsForgotten
  <1> QED BY <1>4, <1>5, <1>6

THEOREM FsStepPreserves == FsIInv /\ [FsNext]_fsVars => FsIInv'
  <1> SUFFICES ASSUME FsIInv, [FsNext]_fsVars PROVE FsIInv'
    OBVIOUS
  <1>1. CASE Open
    BY <1>1 DEF FsIInv, FsTypeOK, NoneIsForgotten, ErrorsAreEmpty, Received, Break, Open
  <1>2. CASE UNCHANGED fsVars
    BY <1>2 DEF FsIInv, FsTypeOK, NoneIsForgotten, ErrorsAreEmpty, Received, Break, fsVars
  <1> QED BY <1>1, <1>2, ChangeStep, AddStep, WaitStep, LookStep DEF FsNext, Monitor

(***************************************************************************)
(* Whatever may happen to the file, it is in the kernel or in the event    *)
(* until it is printed (fsmonitor.m, main).                                *)
(***************************************************************************)
THEOREM ChangesAreNoted == FsSpec => []NoneIsForgotten
  <1>1. FsIInv => NoneIsForgotten
    BY DEF FsIInv
  <1> QED BY <1>1, FsInitEstablishes, FsStepPreserves, PTL DEF FsSpec

(***************************************************************************)
(* The monitor ends only after a call that failed, or for the memory of    *)
(* the beginning, though it looks at an old event when there is no new one *)
(* (fsmonitor.m, main).                                                    *)
(***************************************************************************)
THEOREM OldEventsStayHarmless == FsSpec => OldEventsAreHarmless
  <1>1. FsIInv /\ [FsNext]_fsVars =>
          [monitor' = "ended" => failed' # "none" \/ data.fflags = {}]_fsVars
    <2> SUFFICES ASSUME FsIInv, FsNext, monitor' = "ended"
                 PROVE  failed' # "none" \/ data.fflags = {} \/ UNCHANGED fsVars
      OBVIOUS
    <2>1. CASE Look
      <3>1. Break /\ UNCHANGED <<data, failed>>
        BY <2>1 DEF Look, Show
      <3>2. CASE data.flags = "error"
        BY <3>2 DEF FsIInv, ErrorsAreEmpty
      <3>3. CASE n < 0
        <4>1. n \notin {0, 1}
          BY <3>3 DEF FsIInv, FsTypeOK
        <4> QED BY <3>1, <4>1 DEF FsIInv, ErrorsAreEmpty
      <3> QED BY <3>1, <3>2, <3>3 DEF Break
    <2>2. CASE Open
      BY <2>2 DEF Open
    <2>3. ~Wait /\ \A note \in Note : ~Change(note)
      BY DEF Wait, Change
    <2>4. ~Add
      BY DEF Add
    <2> QED BY <2>1, <2>2, <2>3, <2>4 DEF FsNext, Monitor
  <1> QED BY <1>1, FsInitEstablishes, FsStepPreserves, PTL DEF FsSpec, OldEventsAreHarmless

-------------------------------------------------------------------------------

\* DirAccess: what a file is now, it was at some moment.
MomentsAreKept == Readable \subseteq could /\ There \ Readable \subseteq could_not

\* Of the files that are there, those the enumerator has given, and lstat was called
\* for, could be read at that moment, or lstat failed.
SeenCouldBeRead ==
  path = "open" /\ access \in {"enumerates", "stats", "YES"} =>
    \A f \in There \ dir : f \in could \cup missed \/ (access = "stats" /\ f = file)

\* The enumerator gives nothing of a directory that is not open.
ClosedIsEmpty == path # "open" => dir = {} /\ access # "stats"

\* What lstat filled in has passed the tests, or there was an answer.
LastHasPassed == access \in {"enumerates", "stats"} => sb = NoStat \/ ~Denied(sb)

DirIInv ==
  /\ entry \in [File -> Entries \cup {NoStat}] /\ dir \subseteq File /\ file \in File
  /\ sb \in Entries \cup {NoStat}
  /\ MomentsAreKept /\ SeenCouldBeRead /\ ClosedIsEmpty /\ LastHasPassed
  /\ access = "starts" => sb = NoStat
  /\ access = "YES" => dir = {}
  /\ AccessIsTrue

\* An entry that passes the tests is granted, and one that does not is not, if it is of
\* the user or of the first group.
LEMMA TestsAgree ==
  ASSUME NEW s \in Entry
  PROVE  /\ ~Denied(s) => Granted(s)
         /\ Denied(s) /\ (s.owner = "uid" \/ s.group = "gid") => ~Granted(s)
  BY DEF Entry, Denied, Granted

THEOREM DirInitEstablishes == DirInit => DirIInv
  BY DEF DirInit, DirIInv, MomentsAreKept, SeenCouldBeRead, ClosedIsEmpty, LastHasPassed,
     AccessIsTrue

LEMMA StatStep ==
  ASSUME DirIInv, Stat
  PROVE  DirIInv'
  <1> PICK s \in IF ~LstatFails THEN {entry[file]} ELSE IF sb = NoStat THEN Entries ELSE {sb} :
        /\ sb' = IF LstatFails THEN sb ELSE s
        /\ access' = IF Denied(s) THEN "NO" ELSE "enumerates"
    BY DEF Stat
  <1>1. /\ access = "stats" /\ guessed' = (guessed \/ (LstatFails /\ sb = NoStat))
        /\ missed' = IF LstatFails THEN missed \cup {file} ELSE missed
        /\ UNCHANGED <<path, entry, searchable, dir, file, could, could_not>>
    BY DEF Stat
  <1>2. path = "open" /\ access' # "starts" /\ access' # "YES"
    BY <1>1 DEF DirIInv, ClosedIsEmpty
  <1>3. There' = There /\ Readable' = Readable
    BY <1>1 DEF There, Readable
  <1>4. MomentsAreKept' /\ ClosedIsEmpty'
    BY <1>1, <1>2, <1>3 DEF DirIInv, MomentsAreKept, ClosedIsEmpty
  <1>5. CASE ~LstatFails
    <2>1. s = entry[file] /\ s \in Entry /\ s \in Entries /\ file \in There \cap searchable
      BY <1>5, EntriesAssumption DEF DirIInv, There, LstatFails
    <2>2. file \in Readable <=> Granted(s)
      BY <2>1 DEF Readable
    <2>3. SeenCouldBeRead'
      <3>1. ~Denied(s) => file \in could
        BY <2>1, <2>2, TestsAgree DEF DirIInv, MomentsAreKept
      <3> QED BY <1>1, <1>2, <1>3, <1>5, <3>1 DEF DirIInv, SeenCouldBeRead
    <2>4. AccessIsTrue'
      <3>1. Denied(s) /\ (entry[file].owner = "uid" \/ entry[file].group = "gid")
              => file \in could_not
        BY <2>1, <2>2, TestsAgree DEF DirIInv, MomentsAreKept
      <3>2. file \in File
        BY DEF DirIInv
      <3> QED BY <1>1, <1>2, <3>1, <3>2 DEF AccessIsTrue
    <2>5. sb' \in Entries \cup {NoStat} /\ LastHasPassed'
      BY <1>5, <2>1 DEF LastHasPassed
    <2> QED BY <1>1, <1>2, <1>4, <2>3, <2>4, <2>5 DEF DirIInv
  <1>6. CASE LstatFails
    <2>1. SeenCouldBeRead'
      BY <1>1, <1>2, <1>3, <1>6 DEF DirIInv, SeenCouldBeRead
    <2>2. sb' = sb /\ (access' = "NO" => guessed')
      BY <1>1, <1>6 DEF DirIInv, LastHasPassed
    <2>3. AccessIsTrue' /\ LastHasPassed'
      BY <1>1, <1>2, <2>2 DEF DirIInv, AccessIsTrue, LastHasPassed
    <2> QED BY <1>1, <1>2, <1>4, <2>1, <2>2, <2>3 DEF DirIInv
  <1> QED BY <1>5, <1>6

LEMMA OthersStep ==
  ASSUME DirIInv, Others
  PROVE  DirIInv'
  <1>1. access \in {"enumerates", "stats"} /\ UNCHANGED <<path, dir, file, sb, access, missed, guessed>>
    BY DEF Others, Unlink, ChangeMode, ChangeSearch
  <1>2. AccessIsTrue' /\ ClosedIsEmpty' /\ LastHasPassed'
    BY <1>1 DEF DirIInv, AccessIsTrue, ClosedIsEmpty, LastHasPassed, Denied
  <1>3. ASSUME entry' \in [File -> Entries \cup {NoStat}], There' \subseteq There,
               could \subseteq could', MomentsAreKept'
        PROVE  DirIInv'
    <2>1. SeenCouldBeRead'
      BY <1>1, <1>3 DEF DirIInv, SeenCouldBeRead
    <2> QED BY <1>1, <1>2, <1>3, <2>1 DEF DirIInv
  <1>4. Remember => MomentsAreKept' /\ could \subseteq could'
    BY DEF Remember, MomentsAreKept
  <1>5. ASSUME NEW f \in File, Unlink(f)
        PROVE  DirIInv'
    <2>1. /\ entry' = [entry EXCEPT ![f] = NoStat] /\ UNCHANGED <<searchable, could, could_not>>
      BY <1>5 DEF Unlink
    <2>2. entry' \in [File -> Entries \cup {NoStat}] /\ There' = There \ {f}
          /\ \A g \in There' : entry'[g] = entry[g]
      BY <2>1 DEF DirIInv, There
    <2>3. Readable' = Readable \ {f}
      BY <2>1, <2>2 DEF Readable, Granted
    <2>4. MomentsAreKept'
      BY <2>1, <2>2, <2>3 DEF DirIInv, MomentsAreKept
    <2> QED BY <1>3, <2>1, <2>2, <2>4
  <1>6. ASSUME NEW f \in File, ChangeMode(f)
        PROVE  DirIInv'
    <2> PICK e \in Entries : entry' = [entry EXCEPT ![f] = e]
      BY <1>6 DEF ChangeMode
    <2>1. f \in There /\ Remember
      BY <1>6 DEF ChangeMode
    <2>2. entry' \in [File -> Entries \cup {NoStat}] /\ There' \subseteq There
      BY <2>1 DEF DirIInv, There
    <2> QED BY <1>3, <1>4, <2>1, <2>2
  <1>7. ASSUME NEW files \in SUBSET File, ChangeSearch(files)
        PROVE  DirIInv'
    <2>1. UNCHANGED entry /\ There' = There /\ Remember
      BY <1>7 DEF ChangeSearch, There
    <2>2. entry' \in [File -> Entries \cup {NoStat}]
      BY <2>1 DEF DirIInv
    <2> QED BY <1>3, <1>4, <2>1, <2>2
  <1> QED BY <1>5, <1>6, <1>7 DEF Others

THEOREM DirStepPreserves == DirIInv /\ [DirNext]_dirVars => DirIInv'
  <1> SUFFICES ASSUME DirIInv, [DirNext]_dirVars PROVE DirIInv'
    OBVIOUS
  <1>1. ASSUME UNCHANGED <<path, entry, searchable, sb, could, could_not, missed, guessed>>
        PROVE  There' = There /\ MomentsAreKept'
    BY <1>1 DEF DirIInv, MomentsAreKept, There, Readable, Granted
  <1>2. CASE Start
    <2>1. UNCHANGED <<path, entry, searchable, sb, could, could_not, missed, guessed>>
      BY <1>2 DEF Start
    <2>2. There' = There /\ MomentsAreKept' /\ There \subseteq File
      BY <1>1, <2>1 DEF There
    <2> QED BY <1>2, <2>1, <2>2
        DEF DirIInv, SeenCouldBeRead, ClosedIsEmpty, LastHasPassed, AccessIsTrue, Start
  <1>3. CASE Enumerate
    <2>1. UNCHANGED <<path, entry, searchable, sb, could, could_not, missed, guessed>>
      BY <1>3 DEF Enumerate
    <2>2. There' = There /\ MomentsAreKept'
      BY <1>1, <2>1
    <2>3. access = "enumerates" /\ (sb' = NoStat \/ ~Denied(sb)')
      BY <1>3, <2>1 DEF Enumerate, DirIInv, LastHasPassed, Denied
    <2>4. LastHasPassed'
      BY <2>3 DEF LastHasPassed
    <2> QED BY <1>3, <2>1, <2>2, <2>4
        DEF DirIInv, SeenCouldBeRead, ClosedIsEmpty, AccessIsTrue, Enumerate
  <1>4. CASE UNCHANGED dirVars
    BY <1>4 DEF dirVars, DirIInv, MomentsAreKept, SeenCouldBeRead, ClosedIsEmpty, LastHasPassed,
       AccessIsTrue, There, Readable, Granted, Denied
  <1> QED BY <1>2, <1>3, <1>4, StatStep, OthersStep DEF DirNext

(***************************************************************************)
(* For any files and entries, in directories that may be searched or not,  *)
(* and any removals and changes of modes: YES is not said with a file that *)
(* could at no moment be read, but for those lstat failed for, and NO, of  *)
(* files of the user and of the first group, not without one that could    *)
(* not (dir-read-access.m).                                                *)
(***************************************************************************)
THEOREM AccessStaysTrue == DirSpec => []AccessIsTrue
  <1>1. DirIInv => AccessIsTrue
    BY DEF DirIInv
  <1> QED BY <1>1, DirInitEstablishes, DirStepPreserves, PTL DEF DirSpec

-------------------------------------------------------------------------------

\* PtrValid: where the handler of each signal is the jump.
Caught(s) ==
  \/ next \in {"memcpy", "isa", "count", "list", "free", "back SIGSEGV", "first SIGSEGV"}
  \/ next = "SIGBUS" /\ s = "SIGSEGV"
  \/ next \in {"back SIGBUS", "then SIGBUS"} /\ s = "SIGBUS"

\* The steps to the answer YES, and those after the isa was read.
Forward == Steps \cup {"back SIGSEGV", "back SIGBUS"}
AfterIsa == {"count", "list", "free", "back SIGSEGV", "back SIGBUS"}

\* What the test does when it has installed its handler.
IsFollowedBy(s, then) ==
  \/ s = "SIGSEGV" /\ then = "SIGBUS"
  \/ s = "SIGBUS" /\ then = "memcpy"

\* Of each signal the test has the handler that was there, or NULL, and the handler is
\* that, the one of the test while it is caught, or the default after a jump.
HandlersAreKept ==
  \A s \in Signal :
    /\ next # "returned" => saved[s] \in {before[s], "default"}
    /\ handler[s] \in {before[s], "default"} \cup IF Caught(s) THEN {"jump"} ELSE {}
    /\ next \in Forward /\ handler[s] = "jump" => saved[s] = before[s]
    /\ next \in Forward /\ handler[s] # "jump" => handler[s] = before[s]
    /\ next \in Forward /\ Caught(s) => handler[s] = "jump"

\* The list had room for all classes.
Complete == classes <= room

LEMMA EmptyIsShort == classes \in Nat \ {0} /\ room = 0 => ~(classes <= room)
  OBVIOUS

\* What has been read so far was there, and after a jump that no other process caused it
\* was not, or the list is not known.
ReadsAreTrue ==
  /\ next # "returned" => ~answer /\ ptr # "null"
  /\ next = "isa" => ptr \in {"edge", "data", "object"}
  /\ next \in AfterIsa => ptr \in Valid
  /\ next \in {"isa", "count", "list", "free"} => test = "is_valid_objc_instance"
  /\ /\ next \in {"free", "back SIGSEGV", "back SIGBUS"}
     /\ test = "is_valid_objc_instance" /\ ptr = "object" /\ Complete
     => found
  /\ next \in {"first SIGSEGV", "then SIGBUS"} /\ ~sent =>
       \/ ptr \notin IF test = "is_valid_ptr" THEN Valid ELSE {"object"}
       \/ test = "is_valid_objc_instance" /\ room = 0

\* PtrTypeOK, without the bound on the classes.
PtrTypes ==
  /\ handler \in [Signal -> {"default", "own", "jump"}]
  /\ before \in [Signal -> {"default", "own"}]
  /\ saved \in [Signal -> {"default", "own"}]
  /\ test \in Test /\ ptr \in Pointer
  /\ next \in Steps \cup Undo \cup {"returned"}
  /\ classes \in Nat \ {0} /\ room \in Nat

Truths == found \in BOOLEAN /\ answer \in BOOLEAN /\ sent \in BOOLEAN

PtrIInv == PtrTypes /\ Truths /\ HandlersAreKept /\ ReadsAreTrue /\ HandlersComeBack

THEOREM PtrInitEstablishes == PtrInit => PtrIInv
  <1> SUFFICES ASSUME PtrInit PROVE PtrIInv
    OBVIOUS
  <1>1. /\ next = "returned" /\ test = "is_valid_ptr" /\ ptr = "null" /\ answer = TRUE /\ sent = FALSE
        /\ handler = before /\ before \in [Signal -> {"default", "own"}] /\ fate = "runs"
        /\ saved = [s \in Signal |-> "default"] /\ found = FALSE /\ classes = 1 /\ room = 0
    BY DEF PtrInit
  <1>2. HandlersAreKept
    BY <1>1 DEF HandlersAreKept, Caught, Forward, Steps
  <1>3. ReadsAreTrue
    <2>1. next = "returned"
      BY <1>1
    <2> QED BY <2>1 DEF ReadsAreTrue, AfterIsa
  <1>4. HandlersComeBack
    BY <1>1 DEF HandlersComeBack, Valid
  <1>5. PtrTypes
    BY <1>1 DEF PtrTypes, Test, Pointer
  <1>6. Truths
    BY <1>1 DEF Truths
  <1> QED BY <1>2, <1>3, <1>4, <1>5, <1>6 DEF PtrIInv

\* A jump may come wherever the handler is there.
LEMMA JumpStep ==
  ASSUME PtrIInv, next # "returned", NEW s \in Signal, handler[s] = "jump", Jump, sent' \in BOOLEAN,
         sent \/ sent' \/ ptr \notin (IF test = "is_valid_ptr" THEN Valid ELSE {"object"})
           \/ test = "is_valid_objc_instance",
         sent => sent'
  PROVE  PtrIInv'
  <1>1. /\ next' = "first SIGSEGV" /\ room' = 0
        /\ UNCHANGED <<handler, before, test, ptr, classes, found, answer, fate>>
        /\ saved' \in [Signal -> {"default", "own"}]
        /\ \A q \in Signal : saved'[q] \in {saved[q], "default"}
    BY DEF Jump
  <1>2. HandlersAreKept'
    BY <1>1 DEF PtrIInv, PtrTypes, HandlersAreKept, Caught, Forward, Steps
  <1>3. ReadsAreTrue'
    <2>1. ~answer' /\ ptr' # "null"
      BY <1>1 DEF PtrIInv, ReadsAreTrue
    <2>2. ~sent' => \/ ptr' \notin IF test' = "is_valid_ptr" THEN Valid' ELSE {"object"}
                    \/ test' = "is_valid_objc_instance" /\ room' = 0
      BY <1>1 DEF PtrIInv, PtrTypes, Test, Valid
    <2>3. next' = "first SIGSEGV"
      BY <1>1
    <2> QED BY <2>1, <2>2, <2>3 DEF ReadsAreTrue, AfterIsa
  <1>4. HandlersComeBack'
    BY <1>1 DEF PtrIInv, HandlersComeBack
  <1>5. PtrTypes'
    BY <1>1 DEF PtrIInv, PtrTypes, Undo
  <1>6. Truths'
    BY <1>1 DEF PtrIInv, Truths
  <1> QED BY <1>2, <1>3, <1>4, <1>5, <1>6 DEF PtrIInv

\* A signal, from elsewhere or for what was read, finds the jump only while a test runs.
LEMMA SignalStep ==
  ASSUME PtrIInv, NEW s \in Signal, Signalled(s), sent' \in BOOLEAN, sent => sent',
         sent' \/ ptr \notin (IF test = "is_valid_ptr" THEN Valid ELSE {"object"})
           \/ test = "is_valid_objc_instance"
  PROVE  PtrIInv'
  <1>1. handler[s] = "jump" => next # "returned"
    BY DEF PtrIInv, PtrTypes, HandlersAreKept, Caught
  <1>2. CASE handler[s] = "jump"
    BY <1>1, <1>2, JumpStep DEF Signalled
  <1>3. CASE handler[s] # "jump"
    <2>1. /\ UNCHANGED <<handler, before, test, ptr, next, saved, classes, room, found, answer>>
          /\ fate' \in {fate, "killed"}
      BY <1>3 DEF Signalled
    <2>2. HandlersAreKept'
      BY <2>1 DEF PtrIInv, HandlersAreKept, Caught
    <2>3. PtrTypes' /\ Truths'
      BY <2>1 DEF PtrIInv, PtrTypes, Truths
    <2>4. ReadsAreTrue'
      BY <2>1 DEF PtrIInv, Truths, ReadsAreTrue, Complete, Valid
    <2>5. HandlersComeBack'
      BY <2>1 DEF PtrIInv, Truths, HandlersComeBack, Valid
    <2> QED BY <2>2, <2>3, <2>4, <2>5 DEF PtrIInv
  <1> QED BY <1>2, <1>3

\* While a test runs, no answer is looked at.
LEMMA RunningIsFine ==
  ASSUME next # "returned", fate # "undefined"
  PROVE  HandlersComeBack
  BY DEF HandlersComeBack

\* The program chooses a handler.
LEMMA InstallStep ==
  ASSUME PtrIInv, NEW s \in Signal, NEW h \in {"default", "own"}, Install(s, h)
  PROVE  PtrIInv'
  <1>1. /\ next = "returned" /\ handler' = [handler EXCEPT ![s] = h] /\ before' = [before EXCEPT ![s] = h]
        /\ UNCHANGED <<test, ptr, next, saved, classes, room, found, answer, sent, fate>>
    BY DEF Install
  <1>2. \A q \in Signal : /\ handler'[q] = IF q = s THEN h ELSE handler[q]
                          /\ before'[q] = IF q = s THEN h ELSE before[q]
    BY <1>1 DEF PtrIInv, PtrTypes
  <1>3. PtrTypes' /\ Truths'
    BY <1>1 DEF PtrIInv, PtrTypes, Truths
  <1>4. HandlersAreKept'
    BY <1>1, <1>2 DEF PtrIInv, HandlersAreKept, Caught, Forward, Steps
  <1>5. ReadsAreTrue'
    <2>1. next' = "returned"
      BY <1>1
    <2> QED BY <2>1 DEF ReadsAreTrue, AfterIsa
  <1>6. HandlersComeBack'
    <2>1. Valid' = Valid
      BY <1>1 DEF Valid
    <2>2. \A q \in Signal : handler[q] \in {before[q]} \cup (IF answer THEN {} ELSE {"default"})
      BY <1>1 DEF PtrIInv, HandlersComeBack
    <2>3. \A q \in Signal : handler'[q] \in {before'[q]} \cup (IF answer' THEN {} ELSE {"default"})
      BY <1>1, <1>2, <2>2
    <2> QED BY <1>1, <2>1, <2>3 DEF PtrIInv, HandlersComeBack
  <1> QED BY <1>3, <1>4, <1>5, <1>6 DEF PtrIInv

\* A test begins: what there is now is what it is to bring back.
LEMMA BeginStep ==
  ASSUME PtrIInv, NEW t \in Test, NEW p \in Pointer, Begin(t, p)
  PROVE  PtrIInv'
  <1>1. /\ next = "returned" /\ test' = t /\ ptr' = p /\ before' = handler
        /\ next' = (IF p = "null" THEN "returned" ELSE "SIGSEGV")
        /\ saved' = [s \in Signal |-> "default"] /\ room' = 0
        /\ UNCHANGED <<handler, classes, fate>>
    BY DEF Begin
  <1>2. answer' = (p = "null") /\ found' = FALSE /\ sent' = FALSE
    BY DEF Begin
  <1>3. handler \in [Signal -> {"default", "own"}]
    BY <1>1 DEF PtrIInv, PtrTypes, HandlersAreKept, Caught
  <1>4. PtrTypes'
    BY <1>1, <1>3 DEF PtrIInv, PtrTypes, Steps
  <1>5. Truths'
    BY <1>2 DEF Truths
  <1>6. HandlersAreKept'
    BY <1>1, <1>3 DEF HandlersAreKept, Caught, Forward, Steps
  <1>7. ReadsAreTrue'
    <2>1. next' \in {"returned", "SIGSEGV"} /\ (next' # "returned" => ~answer' /\ ptr' # "null")
      BY <1>1, <1>2
    <2> QED BY <2>1 DEF ReadsAreTrue, AfterIsa
  <1>8. HandlersComeBack'
    <2>1. CASE p = "null"
      BY <1>1, <1>2, <2>1 DEF PtrIInv, HandlersComeBack
    <2>2. CASE p # "null"
      BY <1>1, <2>2, RunningIsFine DEF PtrIInv, HandlersComeBack
    <2> QED BY <2>1, <2>2
  <1> QED BY <1>4, <1>5, <1>6, <1>7, <1>8 DEF PtrIInv

\* The steps that the test makes in its order, with the handlers as they are.
LEMMA QuietStep ==
  ASSUME PtrIInv, fate # "undefined", ReadsAreTrue', room' \in Nat, found' \in BOOLEAN,
         UNCHANGED <<handler, before, test, ptr, saved, classes, answer, sent, fate>>,
         next \in {"memcpy", "isa", "count", "list", "free"},
         next' \in {"isa", "count", "list", "free", "back SIGSEGV"}
  PROVE  PtrIInv'
  <1>1. PtrTypes' /\ Truths'
    BY DEF PtrIInv, PtrTypes, Truths, Steps, Undo
  <1>2. HandlersAreKept'
    BY DEF PtrIInv, HandlersAreKept, Caught, Forward, Steps
  <1>3. HandlersComeBack'
    BY DEF HandlersComeBack
  <1> QED BY <1>1, <1>2, <1>3 DEF PtrIInv

LEMMA CatchStep ==
  ASSUME PtrIInv, NEW s \in Signal, NEW then, Catch(s, then), IsFollowedBy(s, then)
  PROVE  PtrIInv'
  <1>1. /\ (s = "SIGSEGV" /\ then = "SIGBUS") \/ (s = "SIGBUS" /\ then = "memcpy")
        /\ next = s /\ next' = then
        /\ saved' = [saved EXCEPT ![s] = handler[s]]
        /\ handler' = [handler EXCEPT ![s] = "jump"]
        /\ UNCHANGED <<before, test, ptr, classes, room, found, answer, sent, fate>>
    BY DEF Catch, IsFollowedBy
  <1>2. handler[s] = before[s] /\ before[s] \in {"default", "own"}
    BY <1>1 DEF PtrIInv, PtrTypes, HandlersAreKept, Caught, Forward, Steps
  <1>3. \A q \in Signal : /\ handler'[q] = IF q = s THEN "jump" ELSE handler[q]
                          /\ saved'[q] = IF q = s THEN before[q] ELSE saved[q]
    BY <1>1, <1>2 DEF PtrIInv, PtrTypes
  <1>4. PtrTypes'
    BY <1>1, <1>2 DEF PtrIInv, PtrTypes, Steps
  <1>5. Truths'
    BY <1>1 DEF PtrIInv, Truths
  <1>6. HandlersAreKept'
    <2>1. CASE s = "SIGSEGV"
      <3>1. next = "SIGSEGV" /\ next' = "SIGBUS" /\ UNCHANGED before
        BY <1>1, <2>1
      <3>2. \A q \in Signal : /\ saved[q] \in {before[q], "default"}
                              /\ handler[q] = before[q] /\ before[q] # "jump"
        BY <3>1 DEF PtrIInv, PtrTypes, HandlersAreKept, Caught, Forward, Steps
      <3> QED BY <1>3, <2>1, <3>1, <3>2 DEF HandlersAreKept, Caught, Forward, Steps
    <2>2. CASE s = "SIGBUS"
      <3>1. next = "SIGBUS" /\ next' = "memcpy" /\ UNCHANGED before
        BY <1>1, <2>2
      <3>2. \A q \in Signal : q # s => handler[q] = "jump" /\ saved[q] = before[q]
        BY <2>2, <3>1 DEF PtrIInv, HandlersAreKept, Caught, Forward, Steps, Signal
      <3> QED BY <1>3, <2>2, <3>1, <3>2 DEF HandlersAreKept, Caught, Forward, Steps
    <2> QED BY <1>1, <2>1, <2>2
  <1>7. ReadsAreTrue'
    <2>1. next' \in {"SIGBUS", "memcpy"} /\ ~answer' /\ ptr' # "null"
      BY <1>1 DEF PtrIInv, ReadsAreTrue, Signal
    <2> QED BY <2>1 DEF ReadsAreTrue, AfterIsa
  <1>8. HandlersComeBack'
    BY <1>1 DEF PtrIInv, HandlersComeBack
  <1> QED BY <1>4, <1>5, <1>6, <1>7, <1>8 DEF PtrIInv

\* The first byte, and the isa.
LEMMA ReadStep ==
  ASSUME PtrIInv, fate = "runs", Read \/ ReadIsa
  PROVE  PtrIInv'
  <1>1. ptr \in {"unmapped", "protected", "edge", "data", "object"}
    BY DEF PtrIInv, PtrTypes, ReadsAreTrue, Pointer, Read, ReadIsa, Touch
  <1>2. CASE next = "memcpy" /\ ptr \in {"unmapped", "protected"}
    <2>1. PICK s \in Signal : Signalled(s) /\ UNCHANGED sent
      BY <1>2 DEF Read, ReadIsa, Touch, Signal
    <2>2. ptr \notin Valid \cup {"object"}
      BY <1>2 DEF Valid
    <2> QED BY <2>1, <2>2, SignalStep DEF PtrIInv, Truths
  <1>3. CASE next = "isa" /\ ptr = "edge"
    <2>1. PICK s \in Signal : Signalled(s) /\ UNCHANGED sent
      BY <1>3 DEF Read, ReadIsa, Touch, Signal
    <2>2. test = "is_valid_objc_instance"
      BY <1>3 DEF PtrIInv, ReadsAreTrue
    <2> QED BY <2>1, <2>2, SignalStep DEF PtrIInv, Truths
  <1>4. CASE next = "memcpy" /\ ptr \notin {"unmapped", "protected"}
    <2>1. /\ next' = IF test = "is_valid_ptr" THEN "back SIGSEGV" ELSE "isa"
          /\ UNCHANGED <<handler, before, test, ptr, saved, classes, room, found, answer, sent, fate>>
      BY <1>4 DEF Read, ReadIsa, Touch
    <2>2. test' \in Test /\ ~answer' /\ ptr' # "null" /\ ptr' \in {"edge", "data", "object"}
      BY <1>1, <1>4, <2>1 DEF PtrIInv, PtrTypes, ReadsAreTrue
    <2>3. ReadsAreTrue'
      BY <2>1, <2>2 DEF ReadsAreTrue, AfterIsa, Valid, Test
    <2> QED BY <1>4, <2>1, <2>3, QuietStep DEF PtrIInv, PtrTypes, Truths
  <1>5. CASE next = "isa" /\ ptr # "edge"
    <2>1. /\ next' = "count"
          /\ UNCHANGED <<handler, before, test, ptr, saved, classes, room, found, answer, sent, fate>>
      BY <1>5 DEF Read, ReadIsa, Touch
    <2>2. /\ test' = "is_valid_objc_instance" /\ ~answer' /\ ptr' # "null"
          /\ ptr' \in {"data", "object"}
      BY <1>5, <2>1 DEF PtrIInv, ReadsAreTrue
    <2>3. ReadsAreTrue'
      BY <2>1, <2>2 DEF ReadsAreTrue, AfterIsa, Valid
    <2> QED BY <1>5, <2>1, <2>3, QuietStep DEF PtrIInv, PtrTypes, Truths
  <1> QED BY <1>1, <1>2, <1>3, <1>4, <1>5 DEF Read, ReadIsa, Touch

\* The list of classes.
LEMMA ListStep ==
  ASSUME PtrIInv, fate = "runs", CountClasses \/ LookForClass \/ FreeList
  PROVE  PtrIInv'
  <1>1. /\ next \in {"count", "list", "free"} /\ test = "is_valid_objc_instance"
        /\ ~answer /\ ptr \in Valid /\ ptr # "null"
    BY DEF PtrIInv, ReadsAreTrue, AfterIsa, CountClasses, LookForClass, FreeList
  <1>2. CASE CountClasses
    <2>1. next = "count" /\ room' = classes /\ next' = "list"
          /\ UNCHANGED <<handler, before, test, ptr, saved, classes, found, answer, sent, fate>>
      BY <1>2 DEF CountClasses
    <2>2. ReadsAreTrue'
      BY <1>1, <2>1 DEF ReadsAreTrue, AfterIsa, Valid
    <2> QED BY <2>1, <2>2, QuietStep DEF PtrIInv, PtrTypes, Truths
  <1>3. CASE next = "list" /\ \E s \in Signal : Signalled(s) /\ UNCHANGED sent
    BY <1>1, <1>3, SignalStep DEF PtrIInv, Truths
  <1>4. CASE /\ next = "list" /\ next' = "free"
             /\ found' \in IF ptr = "object" /\ classes <= room THEN {TRUE} ELSE BOOLEAN
             /\ UNCHANGED <<handler, before, test, ptr, saved, classes, room, answer, sent, fate>>
    <2>1. ptr' = "object" /\ Complete' => found'
      BY <1>4 DEF Complete
    <2>2. found' \in BOOLEAN
      BY <1>4
    <2>3. ReadsAreTrue'
      BY <1>1, <1>4, <2>1 DEF ReadsAreTrue, AfterIsa, Valid
    <2> QED BY <1>4, <2>2, <2>3, QuietStep DEF PtrIInv, PtrTypes
  <1>5. CASE FreeList
    <2>1. next = "free" /\ next' = "back SIGSEGV"
          /\ UNCHANGED <<handler, before, test, ptr, saved, classes, room, found, answer, sent, fate>>
      BY <1>5 DEF FreeList
    <2>2. Complete' = Complete /\ Valid' = Valid
      BY <2>1 DEF Complete, Valid
    <2>3. ReadsAreTrue'
      BY <1>1, <2>1, <2>2 DEF PtrIInv, ReadsAreTrue, AfterIsa
    <2> QED BY <2>1, <2>3, QuietStep DEF PtrIInv, PtrTypes, Truths
  <1> QED BY <1>2, <1>3, <1>4, <1>5 DEF LookForClass

\* A class is loaded: the list may be short of it now.
LEMMA LoadStep ==
  ASSUME PtrIInv, fate = "runs", Load
  PROVE  PtrIInv'
  <1>1. /\ next # "returned" /\ classes' = classes + 1
        /\ UNCHANGED <<handler, before, test, ptr, next, saved, room, found, answer, sent, fate>>
    BY DEF Load
  <1>2. PtrTypes' /\ Truths'
    BY <1>1 DEF PtrIInv, PtrTypes, Truths
  <1>3. HandlersAreKept'
    BY <1>1 DEF PtrIInv, HandlersAreKept, Caught
  <1>4. (Complete' => Complete) /\ Valid' = Valid
    BY <1>1 DEF PtrIInv, PtrTypes, Complete, Valid
  <1>5. ReadsAreTrue'
    BY <1>1, <1>4 DEF PtrIInv, ReadsAreTrue
  <1>6. HandlersComeBack'
    BY <1>1 DEF HandlersComeBack
  <1> QED BY <1>2, <1>3, <1>5, <1>6 DEF PtrIInv

\* The first handler is put back, after a test that read or after a jump.
LEMMA RestoreFirstStep ==
  ASSUME PtrIInv, fate = "runs",
         \/ Restore("back SIGSEGV", "SIGSEGV", "back SIGBUS", FALSE)
         \/ Restore("first SIGSEGV", "SIGSEGV", "then SIGBUS", FALSE)
  PROVE  PtrIInv'
  <1>1. /\ \/ next = "back SIGSEGV" /\ next' = "back SIGBUS"
           \/ next = "first SIGSEGV" /\ next' = "then SIGBUS"
        /\ handler' = [handler EXCEPT !["SIGSEGV"] = saved["SIGSEGV"]]
        /\ UNCHANGED <<before, test, ptr, saved, classes, room, found, answer, sent, fate>>
    BY DEF Restore
  <1>2. \A q \in Signal : handler'[q] = IF q = "SIGSEGV" THEN saved[q] ELSE handler[q]
    BY <1>1 DEF PtrIInv, PtrTypes
  <1>3. PtrTypes'
    BY <1>1, <1>2 DEF PtrIInv, PtrTypes, Steps, Undo, Signal
  <1>4. Truths'
    BY <1>1 DEF PtrIInv, Truths
  <1>5. HandlersAreKept'
    BY <1>1, <1>2 DEF PtrIInv, HandlersAreKept, Caught, Forward, Steps, Signal
  <1>6. Complete' = Complete /\ Valid' = Valid
    BY <1>1 DEF Complete, Valid
  <1>7. ReadsAreTrue'
    BY <1>1, <1>6 DEF PtrIInv, ReadsAreTrue, AfterIsa
  <1>8. HandlersComeBack'
    BY <1>1 DEF HandlersComeBack
  <1> QED BY <1>3, <1>4, <1>5, <1>7, <1>8 DEF PtrIInv

\* The second handler, and the answer.
LEMMA RestoreSecondStep ==
  ASSUME PtrIInv, fate = "runs",
         \/ Restore("back SIGBUS", "SIGBUS", "returned", test = "is_valid_ptr" \/ found)
         \/ Restore("then SIGBUS", "SIGBUS", "returned", FALSE)
  PROVE  PtrIInv'
  <1>1. /\ next \in {"back SIGBUS", "then SIGBUS"} /\ next' = "returned"
        /\ handler' = [handler EXCEPT !["SIGBUS"] = saved["SIGBUS"]]
        /\ UNCHANGED <<before, test, ptr, saved, classes, room, found, sent, fate>>
        /\ answer' = IF next = "back SIGBUS" THEN test = "is_valid_ptr" \/ found ELSE FALSE
    BY DEF Restore
  <1>2. \A q \in Signal : handler'[q] = IF q = "SIGBUS" THEN saved[q] ELSE handler[q]
    BY <1>1 DEF PtrIInv, PtrTypes
  <1>3. PtrTypes'
    BY <1>1, <1>2 DEF PtrIInv, PtrTypes, Steps, Undo, Signal
  <1>4. Truths'
    BY <1>1 DEF PtrIInv, Truths
  <1>5. \A q \in Signal : /\ handler'[q] \in {before[q], "default"}
                          /\ next = "back SIGBUS" => handler'[q] = before[q]
    <2>1. /\ saved["SIGBUS"] \in {before["SIGBUS"], "default"}
          /\ next = "back SIGBUS" => saved["SIGBUS"] = before["SIGBUS"]
      BY <1>1 DEF PtrIInv, HandlersAreKept, Caught, Forward, Signal
    <2>2. /\ handler["SIGSEGV"] \in {before["SIGSEGV"], "default"}
          /\ next = "back SIGBUS" => handler["SIGSEGV"] = before["SIGSEGV"]
      BY <1>1 DEF PtrIInv, PtrTypes, HandlersAreKept, Caught, Forward, Signal
    <2> QED BY <1>2, <2>1, <2>2 DEF Signal
  <1>6. HandlersAreKept'
    BY <1>1, <1>5 DEF PtrIInv, HandlersAreKept, Caught, Forward, Steps
  <1>7. ReadsAreTrue'
    BY <1>1 DEF ReadsAreTrue, AfterIsa
  <1>8. HandlersComeBack'
    <2>1. CASE next = "back SIGBUS"
      <3>1. ptr \in Valid
        BY <2>1 DEF PtrIInv, ReadsAreTrue, AfterIsa
      <3>2. ~answer' => test = "is_valid_objc_instance" /\ (ptr = "object" => ~Complete)
        BY <1>1, <2>1 DEF PtrIInv, PtrTypes, Truths, ReadsAreTrue, Test
      <3>3. Valid' = Valid
        BY <1>1 DEF Valid
      <3> QED BY <1>1, <1>5, <2>1, <3>1, <3>2, <3>3 DEF HandlersComeBack, Complete
    <2>2. CASE next = "then SIGBUS"
      <3>1. answer' = FALSE
        BY <1>1, <2>2
      <3>2. ~sent => \/ ptr \notin IF test = "is_valid_ptr" THEN Valid ELSE {"object"}
                     \/ test = "is_valid_objc_instance" /\ ~(classes <= room)
        <4>1. classes \in Nat \ {0}
          BY DEF PtrIInv, PtrTypes
        <4>2. room = 0 => ~(classes <= room)
          BY <4>1, EmptyIsShort
        <4> QED BY <2>2, <4>2 DEF PtrIInv, ReadsAreTrue
      <3>3. Valid' = Valid
        BY <1>1 DEF Valid
      <3> QED BY <1>1, <1>5, <3>1, <3>2, <3>3 DEF HandlersComeBack
    <2> QED BY <1>1, <2>1, <2>2
  <1> QED BY <1>3, <1>4, <1>6, <1>7, <1>8 DEF PtrIInv

THEOREM PtrStepPreserves == PtrIInv /\ [PtrNext]_ptrVars => PtrIInv'
  <1> SUFFICES ASSUME PtrIInv, [PtrNext]_ptrVars PROVE PtrIInv'
    OBVIOUS
  <1>1. ASSUME NEW s \in Signal, KillSends(s)
        PROVE  PtrIInv'
    BY <1>1, SignalStep DEF KillSends
  <1>2. CASE fate = "runs" /\ is_valid
    <2>1. Catch("SIGSEGV", "SIGBUS") \/ Catch("SIGBUS", "memcpy") => PtrIInv'
      <3>1. "SIGSEGV" \in Signal /\ "SIGBUS" \in Signal
        BY DEF Signal
      <3>2. IsFollowedBy("SIGSEGV", "SIGBUS")
        BY DEF IsFollowedBy
      <3>3. IsFollowedBy("SIGBUS", "memcpy")
        BY DEF IsFollowedBy
      <3> QED BY <3>1, <3>2, <3>3, CatchStep
    <2> QED BY <1>2, <2>1, ReadStep, ListStep, RestoreFirstStep, RestoreSecondStep DEF is_valid
  <1>3. CASE UNCHANGED ptrVars
    <2>1. PtrTypes' /\ Truths' /\ HandlersAreKept'
      BY <1>3 DEF ptrVars, PtrIInv, PtrTypes, Truths, HandlersAreKept, Caught
    <2>2. ReadsAreTrue' /\ HandlersComeBack'
      BY <1>3 DEF ptrVars, PtrIInv, Truths, ReadsAreTrue, HandlersComeBack, Complete, Valid
    <2> QED BY <2>1, <2>2 DEF PtrIInv
  <1> QED BY <1>1, <1>2, <1>3, InstallStep, BeginStep, LoadStep DEF PtrNext

(***************************************************************************)
(* Wherever signals come, the jump does not outlive the test, handlers     *)
(* come back and answers are right, for any number of classes (ptr-valid.c *)
(* and ptr-valid.m).                                                       *)
(***************************************************************************)
THEOREM HandlersAlwaysComeBack == PtrSpec => []HandlersComeBack
  <1>1. PtrIInv => HandlersComeBack
    BY DEF PtrIInv
  <1> QED BY <1>1, PtrInitEstablishes, PtrStepPreserves, PTL DEF PtrSpec

-------------------------------------------------------------------------------

\* ProgressBar: what has been drawn so far of the line, and what the thread knows.
BarIInv ==
  /\ B!BarTypeOK /\ B!ScreenIsOneMoment
  /\ line.cells = Length
  /\ line.number <= line.bar /\ line.bar <= local /\ local <= percent
  /\ thread \in {"absent", "reads", "bar", "sleeps", "ended"} => line.number = line.bar
  /\ thread \in {"number", "tail", "flushes"} => line.bar = local
  /\ thread \in {"tail", "flushes"} => line.number = local
  /\ thread = "flushes" /\ local = Full => line.tail = "[DONE]"
  /\ line.tail = "[DONE]" => line.number = Full /\ thread \in {"flushes", "ended"}


\* Every bar has the same width: the two loops round alike.
LEMMA CellsAreLength ==
  ASSUME NEW p \in 0 .. Full
  PROVE  B!Cells(p) = Length
  <1> DEFINE exact == Length * p
             whole == exact \div Full
  <1>1. /\ Full \in Nat \ {0} /\ Length \in Nat \ {0} /\ p \in Nat
        /\ Length < Full /\ Full <= 2 * Length
    BY BarAssumption
  <1>2. exact \in Nat /\ whole \in Int
    BY <1>1
  <1>3. CASE p <= 1
    <2>1. exact = 0 \/ exact = Length
      BY <1>1, <1>3
    <2>2. whole = 0 /\ exact < 2 * Full
      BY <1>1, <1>2, <2>1
    <2> QED BY <1>1, <1>3, <2>2 DEF B!Cells
  <1>4. CASE p > 1 /\ exact < 2 * Full
    <2>1. Full <= exact
      BY <1>1, <1>4
    <2> HIDE DEF exact
    <2>2. whole = 1
      BY <1>1, <1>2, <1>4, <2>1
    <2> HIDE DEF whole
    <2>3. B!Cells(p) = 0 + 1 + (Length - whole)
      BY <1>4 DEF B!Cells, exact, whole
    <2> QED BY <1>1, <2>2, <2>3
  <1>5. CASE p > 1 /\ ~(exact < 2 * Full)
    <2> HIDE DEF exact, whole
    <2>1. B!Cells(p) = (whole - 1) + 1 + (Length - whole)
      BY <1>5 DEF B!Cells, exact, whole
    <2> QED BY <1>1, <1>2, <2>1
  <1> QED BY <1>1, <1>3, <1>4, <1>5

LEMMA BarInitEstablishes == B!BarInit => BarIInv
  <1> SUFFICES ASSUME B!BarInit PROVE BarIInv
    OBVIOUS
  <1>1. Full \in Nat \ {0} /\ Length \in Nat
    BY BarAssumption
  <1>2. 0 \in 0 .. Full
    BY <1>1
  <1>3. /\ screen = [bar |-> 0, cells |-> Length, number |-> 0, tail |-> "none"]
        /\ line = screen
    BY DEF B!BarInit
  <1>4. B!BarTypeOK
    BY <1>1, <1>2, <1>3 DEF B!BarInit, B!BarTypeOK, B!Gear
  <1>5. B!ScreenIsOneMoment
    BY <1>1, <1>3 DEF B!BarInit, B!ScreenIsOneMoment
  <1> QED BY <1>1, <1>3, <1>4, <1>5 DEF B!BarInit, BarIInv

LineType == [bar : 0 .. Full, cells : Nat, number : 0 .. Full, tail : B!Gear \cup {"[DONE]"}]

\* The three parts of a line are written in their order, of one percentage.
LEMMA DrawStep ==
  ASSUME BarIInv, main = "works",
         B!Draw("bar", "number") \/ B!Draw("number", "tail") \/ B!Draw("tail", "flushes")
  PROVE  BarIInv'
  <1>1. /\ line \in LineType /\ screen \in LineType /\ gear \in B!Gear
        /\ local \in 0 .. Full /\ percent \in 0 .. Full /\ Full \in Nat
    BY BarAssumption DEF BarIInv, B!BarTypeOK, LineType
  <1>2. UNCHANGED <<percent, main, local, gear, screen>>
    BY DEF B!Draw
  <1>3. B!ScreenIsOneMoment'
    BY <1>2 DEF BarIInv, B!ScreenIsOneMoment
  <1>4. line.tail # "[DONE]"
    BY DEF BarIInv, B!Draw
  <1>5. CASE B!Draw("bar", "number")
    <2>1. thread = "bar" /\ thread' = "number"
      BY <1>5 DEF B!Draw
    <2>2. line' = [line EXCEPT !.bar = local, !.cells = B!Cells(local)]
      BY <1>5 DEF B!Draw, B!Written
    <2>3. B!Cells(local) = Length /\ Length \in Nat
      BY <1>1, CellsAreLength, BarAssumption
    <2>4. line' \in LineType /\ line'.bar = local /\ line'.cells = Length
          /\ line'.number = line.number /\ line'.tail = line.tail
      BY <1>1, <2>2, <2>3 DEF LineType
    <2>5. B!BarTypeOK'
      BY <1>1, <1>2, <2>1, <2>4 DEF BarIInv, B!BarTypeOK, LineType
    <2>6. line'.number <= line'.bar /\ line'.bar <= local' /\ local' <= percent'
      BY <1>1, <1>2, <2>4 DEF BarIInv, LineType
    <2> QED BY <1>2, <1>3, <1>4, <2>1, <2>4, <2>5, <2>6 DEF BarIInv
  <1>6. CASE B!Draw("number", "tail")
    <2>1. thread = "number" /\ thread' = "tail"
      BY <1>6 DEF B!Draw
    <2>2. PICK t \in {"none", line.tail} : line' = [line EXCEPT !.number = local, !.tail = t]
      BY <1>6 DEF B!Draw, B!Written
    <2>3. t \in B!Gear
      BY <1>1, <1>4, <2>2 DEF LineType, B!Gear
    <2>4. line' \in LineType /\ line'.bar = line.bar /\ line'.cells = line.cells
          /\ line'.number = local /\ line'.tail # "[DONE]"
      BY <1>1, <1>4, <2>2, <2>3 DEF LineType, B!Gear
    <2>5. B!BarTypeOK'
      BY <1>1, <1>2, <2>1, <2>4 DEF BarIInv, B!BarTypeOK, LineType
    <2>6. line.bar = local
      BY <2>1 DEF BarIInv
    <2>7. line'.number <= line'.bar /\ line'.bar <= local' /\ local' <= percent'
      BY <1>1, <1>2, <2>4, <2>6 DEF BarIInv
    <2> QED BY <1>2, <1>3, <2>1, <2>4, <2>5, <2>6, <2>7 DEF BarIInv
  <1>7. CASE B!Draw("tail", "flushes")
    <2>1. thread = "tail" /\ thread' = "flushes"
      BY <1>7 DEF B!Draw
    <2>2. PICK t \in B!Gear \cup {"[DONE]"} :
            /\ line' = [line EXCEPT !.tail = t]
            /\ t = "[DONE]" <=> local = Full
      <3>1. CASE local = Full
        BY <1>7, <3>1 DEF B!Draw, B!Written, B!complete
      <3>2. CASE local # Full
        <4>1. line' = [line EXCEPT !.tail = IF gear # "none" THEN gear ELSE line.tail]
          BY <1>7, <3>2 DEF B!Draw, B!Written, B!complete
        <4>2. line.tail \in B!Gear /\ "[DONE]" \notin B!Gear
          BY <1>1, <1>4 DEF LineType, B!Gear
        <4> QED BY <1>1, <3>2, <4>1, <4>2
      <3> QED BY <3>1, <3>2
    <2>3. line' \in LineType /\ line'.bar = line.bar /\ line'.cells = line.cells
          /\ line'.number = line.number /\ line'.tail = t
      BY <1>1, <2>2 DEF LineType
    <2>4. B!BarTypeOK'
      BY <1>1, <1>2, <2>1, <2>3 DEF BarIInv, B!BarTypeOK, LineType
    <2>5. line.bar = local /\ line.number = local
      BY <2>1 DEF BarIInv
    <2> QED BY <1>2, <1>3, <2>1, <2>2, <2>3, <2>4, <2>5 DEF BarIInv
  <1> QED BY <1>5, <1>6, <1>7

LEMMA BarStepPreserves == BarIInv /\ [B!BarNext]_ofProgress => BarIInv'
  <1> SUFFICES ASSUME BarIInv, [B!BarNext]_ofProgress PROVE BarIInv'
    OBVIOUS
  <1>1. /\ line \in LineType /\ screen \in LineType /\ gear \in B!Gear
        /\ local \in 0 .. Full /\ percent \in 0 .. Full /\ Full \in Nat \ {0}
    BY BarAssumption DEF BarIInv, B!BarTypeOK, LineType
  <1>2. CASE main = "works" /\ B!Read
    <2>1. /\ thread = "reads" /\ thread' = "bar" /\ local' = percent
          /\ UNCHANGED <<percent, main, line, screen>>
      BY <1>2 DEF B!Read
    <2>2. gear' \in B!Gear
      <3>1. gear' \in B!Turned[gear]
        BY <1>2 DEF B!Read
      <3>2. B!Turned[gear] \subseteq B!Gear
        BY <1>1 DEF B!Turned, B!Gear
      <3> QED BY <3>1, <3>2
    <2>3. B!BarTypeOK'
      BY <1>1, <2>1, <2>2 DEF BarIInv, B!BarTypeOK
    <2>4. B!ScreenIsOneMoment'
      BY <2>1 DEF BarIInv, B!ScreenIsOneMoment
    <2>5. line'.bar <= local' /\ local' <= percent'
      BY <1>1, <2>1 DEF BarIInv, LineType
    <2> QED BY <2>1, <2>3, <2>4, <2>5 DEF BarIInv
  <1>3. CASE /\ main = "works"
             /\ B!Draw("bar", "number") \/ B!Draw("number", "tail") \/ B!Draw("tail", "flushes")
    BY <1>3, DrawStep
  <1>4. CASE main = "works" /\ B!Flush
    <2>1. /\ thread = "flushes" /\ screen' = line
          /\ thread' = IF local = Full THEN "ended" ELSE "sleeps"
          /\ UNCHANGED <<percent, main, local, gear, line>>
      BY <1>4 DEF B!Flush, B!complete
    <2>2. B!BarTypeOK'
      BY <1>1, <2>1 DEF BarIInv, B!BarTypeOK, LineType
    <2>3. B!ScreenIsOneMoment'
      BY <1>1, <2>1 DEF BarIInv, B!ScreenIsOneMoment, LineType
    <2> QED BY <2>1, <2>2, <2>3 DEF BarIInv
  <1>5. CASE main = "works" /\ B!WakeUp
    <2>1. /\ thread = "sleeps" /\ thread' = "reads"
          /\ UNCHANGED <<percent, main, local, gear, line, screen>>
      BY <1>5 DEF B!WakeUp
    <2>2. B!BarTypeOK' /\ B!ScreenIsOneMoment'
      BY <2>1 DEF BarIInv, B!BarTypeOK, B!ScreenIsOneMoment
    <2> QED BY <2>1, <2>2 DEF BarIInv
  <1>6. CASE main = "works" /\ B!Work
    <2>1. /\ percent < Full /\ percent' = percent + 1
          /\ UNCHANGED <<main, thread, local, gear, line, screen>>
      BY <1>6 DEF B!Work
    <2>2. percent' \in 0 .. Full
      BY <1>1, <2>1
    <2>3. B!BarTypeOK'
      BY <2>1, <2>2 DEF BarIInv, B!BarTypeOK
    <2>4. screen'.bar <= percent' /\ local' <= percent'
      BY <1>1, <2>1 DEF BarIInv, B!ScreenIsOneMoment, LineType
    <2>5. B!ScreenIsOneMoment'
      BY <2>1, <2>4 DEF BarIInv, B!ScreenIsOneMoment
    <2> QED BY <2>1, <2>3, <2>4, <2>5 DEF BarIInv
  <1>7. CASE main = "works" /\ B!Return
    <2>1. /\ main' = "returned" /\ screen' = line
          /\ UNCHANGED <<percent, thread, local, gear, line>>
      BY <1>7 DEF B!Return
    <2>2. B!BarTypeOK'
      BY <1>1, <2>1 DEF BarIInv, B!BarTypeOK, LineType
    <2>3. line.bar <= percent
      BY <1>1 DEF BarIInv, LineType
    <2>4. B!ScreenIsOneMoment'
      BY <2>1, <2>3 DEF BarIInv, B!ScreenIsOneMoment
    <2> QED BY <2>1, <2>2, <2>4 DEF BarIInv
  <1>8. CASE UNCHANGED ofProgress
    <2>1. B!BarTypeOK' /\ B!ScreenIsOneMoment'
      BY <1>8 DEF ofProgress, BarIInv, B!BarTypeOK, B!ScreenIsOneMoment
    <2> QED BY <1>8, <2>1 DEF ofProgress, BarIInv
  <1> QED BY <1>2, <1>3, <1>4, <1>5, <1>6, <1>7, <1>8 DEF B!BarNext, B!UpdateStatus

-------------------------------------------------------------------------------

\* ProcTable: until it is answered the memory begins with the table that was read.
ProcIInv ==
  /\ ProcTypeOK /\ AnswerIsOneMoment
  /\ step \in {"asks", "allocates", "reads"} => array = Nil
  /\ step = "answers" =>
       /\ atRead \in Seq(Pid) /\ count = Len(atRead)
       /\ processes \in Seq(Pid \cup {Unset}) /\ count <= Len(processes)
       /\ \A i \in 1 .. count : processes[i] = atRead[i]

\* A process that ends leaves a table of processes.
LEMMA RemovedIsSeq ==
  ASSUME NEW S, NEW s \in Seq(S), NEW k \in DOMAIN s
  PROVE  RemoveAt(s, k) \in Seq(S)
  <1>1. Len(s) \in Nat /\ k \in 1 .. Len(s)
    OBVIOUS
  <1>2. SubSeq(s, 1, k - 1) \in Seq(S)
    BY <1>1, SubSeqProperties
  <1>3. SubSeq(s, k + 1, Len(s)) \in Seq(S)
    BY <1>1, SubSeqProperties
  <1> QED BY <1>2, <1>3 DEF RemoveAt

\* The loop of allProcesses turns the memory round.
LEMMA TurnedRound ==
  ASSUME NEW S, NEW a \in Seq(S), NEW s,
         s = [i \in 1 .. Len(a) |-> a[Len(a) - (i - 1)]]
  PROVE  s \in Seq(S) /\ Reverse(s) = a
  <1>1. Len(a) \in Nat /\ DOMAIN a = 1 .. Len(a)
    OBVIOUS
  <1>2. \A i \in 1 .. Len(a) : Len(a) - (i - 1) \in 1 .. Len(a) /\ a[Len(a) - (i - 1)] \in S
    <2> TAKE i \in 1 .. Len(a)
    <2>1. Len(a) - (i - 1) \in 1 .. Len(a)
      BY <1>1
    <2> QED BY <2>1
  <1>3. s \in Seq(S) /\ Len(s) = Len(a)
    BY <1>1, <1>2
  <1>4. \A i \in 1 .. Len(a) : s[(Len(s) - i) + 1] = a[i]
    <2> TAKE i \in 1 .. Len(a)
    <2>1. (Len(a) - i) + 1 \in 1 .. Len(a) /\ Len(a) - (((Len(a) - i) + 1) - 1) = i
      BY <1>1
    <2> QED BY <1>3, <2>1
  <1>5. Reverse(s) = [i \in 1 .. Len(a) |-> a[i]]
    BY <1>3, <1>4 DEF Reverse
  <1> QED BY <1>1, <1>3, <1>5

\* What +allProcesses does next, with the history of MCSystem.
ProcStep ==
  /\ ProcNext
  /\ atRead' = IF step = "reads" /\ step' = "answers" THEN table ELSE atRead

LEMMA ProcInitEstablishes == ProcInit => ProcIInv
  <1> SUFFICES ASSUME ProcInit PROVE ProcIInv
    OBVIOUS
  <1>1. table \in Seq(Pid)
    <2>1. PICK p \in Pid : table = <<p>>
      BY DEF ProcInit
    <2> QED BY <2>1
  <1>2. ProcTypeOK
    BY <1>1 DEF ProcInit, ProcTypeOK
  <1> QED BY <1>2 DEF ProcInit, ProcIInv, AnswerIsOneMoment

LEMMA ProcStepPreserves == ProcIInv /\ [ProcStep]_<<procVars, atRead>> => ProcIInv'
  <1> SUFFICES ASSUME ProcIInv, [ProcStep]_<<procVars, atRead>> PROVE ProcIInv'
    OBVIOUS
  <1>t. ProcTypeOK /\ table \in Seq(Pid) /\ Len(table) \in Nat
    BY DEF ProcIInv, ProcTypeOK
  <1>1. CASE ProcStep /\ Fails /\ step # "returned"
    <2>1. /\ processes' = Nil /\ array' = Nil /\ step' = "returned"
          /\ UNCHANGED <<table, length, count>>
      BY <1>1 DEF Fails
    <2>2. ProcTypeOK'
      BY <2>1, <1>t DEF ProcTypeOK
    <2> QED BY <2>1, <2>2 DEF ProcIInv, AnswerIsOneMoment
  <1>2. CASE ProcStep /\ AskLength /\ ~Fails
    <2>1. /\ step = "asks" /\ step' = "allocates" /\ length' = Len(table) + Slop
          /\ UNCHANGED <<table, processes, count, array>>
      BY <1>2 DEF AskLength
    <2>2. ProcTypeOK'
      BY <2>1, <1>t, SlopAssumption DEF ProcTypeOK
    <2> QED BY <2>1, <2>2 DEF ProcIInv, AnswerIsOneMoment
  <1>3. CASE ProcStep /\ Allocate /\ ~Fails
    <2>1. /\ step = "allocates" /\ step' = "reads"
          /\ processes' = [i \in 1 .. length |-> Unset]
          /\ UNCHANGED <<table, length, count, array>>
      BY <1>3 DEF Allocate
    <2>2. processes' \in Seq(Pid \cup {Unset})
      BY <2>1, <1>t DEF ProcTypeOK
    <2>3. ProcTypeOK'
      BY <2>1, <2>2, <1>t DEF ProcTypeOK
    <2> QED BY <2>1, <2>3 DEF ProcIInv, AnswerIsOneMoment
  <1>4. CASE ProcStep /\ ReadTable /\ ~Fails
    <2>1. /\ step = "reads" /\ step' = "answers" /\ Len(table) <= length
          /\ processes' = [i \in 1 .. length |-> IF i <= Len(table) THEN table[i] ELSE Unset]
          /\ length' = Len(table) /\ count' = Len(table)
          /\ UNCHANGED <<table, array>>
      BY <1>4 DEF ReadTable
    <2>2. atRead' = table
      BY <1>4, <2>1 DEF ProcStep
    <2>3. length \in Nat
      BY <1>t DEF ProcTypeOK
    <2>4. \A i \in 1 .. length : i <= Len(table) => table[i] \in Pid
      BY <1>t, <2>3
    <2>5. processes' \in Seq(Pid \cup {Unset}) /\ Len(processes') = length
      BY <2>1, <2>3, <2>4
    <2>6. \A i \in 1 .. Len(table) : processes'[i] = table[i]
      BY <2>1, <2>3, <1>t
    <2>7. ProcTypeOK'
      BY <2>1, <2>5, <1>t DEF ProcTypeOK
    <2> QED BY <2>1, <2>2, <2>5, <2>6, <2>7, <1>t DEF ProcIInv, AnswerIsOneMoment
  <1>5. CASE ProcStep /\ Answer
    <2>1. /\ step = "answers" /\ step' = "returned" /\ processes' = Nil
          /\ array' = [i \in 1 .. count |-> processes[count - (i - 1)]]
          /\ UNCHANGED <<table, length, count>>
      BY <1>5 DEF Answer
    <2>2. atRead' = atRead
      BY <1>5, <2>1 DEF ProcStep
    <2>3. /\ atRead \in Seq(Pid) /\ count = Len(atRead) /\ count \in Nat
          /\ \A i \in 1 .. count : processes[i] = atRead[i]
      BY <2>1, <1>t DEF ProcIInv, ProcTypeOK
    <2>4. \A i \in 1 .. count : processes[count - (i - 1)] = atRead[Len(atRead) - (i - 1)]
      BY <2>3
    <2>5. array' = [i \in 1 .. Len(atRead) |-> atRead[Len(atRead) - (i - 1)]]
      BY <2>1, <2>3, <2>4
    <2>6. array' \in Seq(Pid) /\ Reverse(array') = atRead
      BY <2>3, <2>5, TurnedRound
    <2>7. array' \in Seq(Pid \cup {Unset})
      BY <2>6
    <2>8. ProcTypeOK'
      BY <2>1, <2>7, <1>t DEF ProcTypeOK
    <2> QED BY <2>1, <2>2, <2>6, <2>8 DEF ProcIInv, AnswerIsOneMoment
  <1>6. ASSUME ProcStep, NEW p \in Pid, Begins(p) \/ Ends(p)
        PROVE  ProcIInv'
    <2>1. UNCHANGED <<processes, length, count, step, array>>
      BY <1>6 DEF Begins, Ends
    <2>2. atRead' = atRead
      BY <1>6, <2>1 DEF ProcStep
    <2>3. table' \in Seq(Pid)
      <3>1. CASE Begins(p)
        <4>1. table' = <<p>> \o table
          BY <3>1 DEF Begins
        <4> QED BY <4>1, <1>t
      <3>2. CASE Ends(p)
        BY <3>2, <1>t, RemovedIsSeq DEF Ends
      <3> QED BY <1>6, <3>1, <3>2
    <2>4. ProcTypeOK'
      BY <2>1, <2>3, <1>t DEF ProcTypeOK
    <2> QED BY <2>1, <2>2, <2>4 DEF ProcIInv, AnswerIsOneMoment
  <1>7. CASE UNCHANGED <<procVars, atRead>>
    <2>1. ProcTypeOK'
      BY <1>7, <1>t DEF procVars, ProcTypeOK
    <2> QED BY <1>7, <2>1 DEF procVars, ProcIInv, AnswerIsOneMoment
  <1>8. ASSUME ProcStep PROVE ProcIInv'
    <2>1. CASE AllProcesses
      <3>1. step # "returned"
        BY <2>1 DEF AllProcesses, AskLength, Allocate, ReadTable, Answer
      <3> QED BY <1>8, <2>1, <3>1, <1>1, <1>2, <1>3, <1>4, <1>5 DEF AllProcesses
    <2>2. CASE \E p \in Pid : Begins(p) \/ Ends(p)
      BY <1>8, <2>2, <1>6
    <2> QED BY <1>8, <2>1, <2>2 DEF ProcStep, ProcNext
  <1> QED BY <1>7, <1>8

-------------------------------------------------------------------------------

\* Clog: while no message was begun there need be no client; after that, that there is
\* none means that there cannot be more.
AllOpened == opened = MaxClients /\ refused # {}

SentSoFar ==
  \A t \in Thread, k \in 1 .. MaxMessages :
    (\E s \in toLog : s[1] = <<t, k>>) <=> k <= L!Begun(t)

ClogIInv ==
  /\ L!ClogTypeOK
  /\ \A t \in Thread : logging[t] # "idle" => messages[t] > 0
  /\ aslclient = NoClient => AllOpened \/ \A t \in Thread : messages[t] = 0
  /\ \A m \in toLog : m[2] = NoClient => AllOpened
  /\ \A m, o \in toLog : m[1] = o[1] => m = o
  /\ exited => AllOpened
  /\ SentSoFar

\* A message is sent when it is no longer begun only, and under its number.
LEMMA SentIsEnough == ClogIInv => L!MessagesAreSent
  <1> SUFFICES ASSUME ClogIInv PROVE L!MessagesAreSent
    OBVIOUS
  <1>1. ASSUME NEW t \in Thread
        PROVE  {s[1][2] : s \in {m \in toLog : m[1][1] = t}} = 1 .. L!Begun(t)
    <2>1. /\ messages[t] \in 0 .. MaxMessages /\ MaxMessages \in Nat
          /\ L!Begun(t) \in 0 .. MaxMessages
      BY ClogAssumption DEF ClogIInv, L!ClogTypeOK, L!Begun
    <2>2. ASSUME NEW s \in toLog, s[1][1] = t PROVE s[1][2] \in 1 .. L!Begun(t)
      <3>1. /\ s[1] \in Thread \X (1 .. MaxMessages)
            /\ s[1][2] \in 1 .. MaxMessages /\ s[1] = <<t, s[1][2]>>
        BY <2>2 DEF ClogIInv, L!ClogTypeOK
      <3>2. s[1][2] <= L!Begun(t)
        BY <3>1 DEF ClogIInv, SentSoFar
      <3> QED BY <2>1, <3>1, <3>2
    <2>3. ASSUME NEW k \in 1 .. L!Begun(t)
          PROVE  \E s \in toLog : s[1][1] = t /\ s[1][2] = k
      <3>1. k \in 1 .. MaxMessages /\ k <= L!Begun(t)
        BY <2>1
      <3>2. PICK s \in toLog : s[1] = <<t, k>>
        BY <3>1 DEF ClogIInv, SentSoFar
      <3> QED BY <3>2
    <2> QED BY <2>2, <2>3
  <1> QED BY <1>1 DEF ClogIInv, L!MessagesAreSent, AllOpened

LEMMA ClogInitEstablishes == L!ClogInit => ClogIInv
  <1> SUFFICES ASSUME L!ClogInit PROVE ClogIInv
    OBVIOUS
  <1>1. L!ClogTypeOK
    <2>1. 0 \in 0 .. MaxMessages /\ 0 \in 0 .. MaxClients
      BY ClogAssumption
    <2>2. /\ messages \in [Thread -> 0 .. MaxMessages]
          /\ logging \in [Thread -> {"idle", "tests", "logs"}]
      BY <2>1 DEF L!ClogInit
    <2> QED BY <2>1, <2>2 DEF L!ClogInit, L!ClogTypeOK
  <1>2. SentSoFar
    <2>1. \A t \in Thread : L!Begun(t) = 0
      BY DEF L!ClogInit, L!Begun
    <2>2. toLog = {}
      BY DEF L!ClogInit
    <2>3. \A k \in 1 .. MaxMessages : ~(k <= 0)
      BY ClogAssumption
    <2> QED BY <2>1, <2>2, <2>3 DEF SentSoFar
  <1> QED BY <1>1, <1>2 DEF L!ClogInit, ClogIInv

LEMMA ClogStepPreserves == ClogIInv /\ [L!ClogNext]_ofLog => ClogIInv'
  <1> SUFFICES ASSUME ClogIInv, [L!ClogNext]_ofLog PROVE ClogIInv'
    OBVIOUS
  <1>t. /\ L!ClogTypeOK /\ MaxMessages \in Nat /\ MaxClients \in Nat
        /\ messages \in [Thread -> 0 .. MaxMessages]
        /\ logging \in [Thread -> {"idle", "tests", "logs"}]
        /\ opened \in 0 .. MaxClients
    BY ClogAssumption DEF ClogIInv, L!ClogTypeOK
  <1>1. ASSUME NEW t \in Thread, L!CLog(t) PROVE ClogIInv'
    <2>1. /\ logging[t] = "idle" /\ messages[t] < MaxMessages
          /\ messages' = [messages EXCEPT ![t] = messages[t] + 1]
          /\ logging' = [logging EXCEPT ![t] = "tests"]
          /\ UNCHANGED <<toLog, exited>>
      BY <1>1 DEF L!CLog
    <2>2. /\ opened' \in 0 .. MaxClients
          /\ aslclient' \in (1 .. MaxClients) \cup {NoClient}
          /\ refused' \subseteq Thread
          /\ AllOpened => AllOpened'
          /\ aslclient' = NoClient => AllOpened'
      <3>1. CASE opened < MaxClients
        <4>1. aslclient' = opened + 1 /\ opened' = opened + 1 /\ refused' = refused \ {t}
          BY <1>1, <3>1 DEF L!CLog, L!Opened, L!__clog_client_connected
        <4>2. aslclient' \in 1 .. MaxClients /\ opened' \in 0 .. MaxClients
          BY <1>t, <3>1, <4>1
        <4>3. ~AllOpened /\ aslclient' # NoClient
          BY <1>t, <3>1, <4>2, ClogAssumption DEF AllOpened
        <4> QED BY <1>t, <4>1, <4>2, <4>3 DEF L!ClogTypeOK
      <3>2. CASE ~(opened < MaxClients)
        <4>1. aslclient' = NoClient /\ opened' = opened /\ refused' = refused \cup {t}
          BY <1>1, <3>2 DEF L!CLog, L!Opened, L!__clog_client_connected
        <4>2. opened = MaxClients
          BY <1>t, <3>2
        <4> QED BY <1>t, <4>1, <4>2 DEF L!ClogTypeOK, AllOpened
      <3> QED BY <3>1, <3>2
    <2>3. messages[t] + 1 \in 0 .. MaxMessages
      BY <2>1, <1>t
    <2>4. L!ClogTypeOK'
      BY <2>1, <2>2, <2>3, <1>t DEF L!ClogTypeOK
    <2>5. \A q \in Thread : logging'[q] # "idle" => messages'[q] > 0
      BY <2>1, <1>t DEF ClogIInv
    <2>6. \A q \in Thread : L!Begun(q)' = L!Begun(q)
      <3> TAKE q \in Thread
      <3>1. CASE q = t
        BY <3>1, <2>1, <1>t DEF L!Begun
      <3>2. CASE q # t
        BY <3>2, <2>1, <1>t DEF L!Begun
      <3> QED BY <3>1, <3>2
    <2>7. SentSoFar'
      BY <2>1, <2>6 DEF ClogIInv, SentSoFar
    <2> QED BY <2>1, <2>2, <2>4, <2>5, <2>7 DEF ClogIInv
  <1>2. ASSUME NEW t \in Thread, L!TestClient(t) PROVE ClogIInv'
    <2>1. /\ logging[t] = "tests" /\ messages[t] > 0
          /\ UNCHANGED <<aslclient, messages, opened, refused, toLog>>
      BY <1>2 DEF L!TestClient, ClogIInv
    <2>2. \/ aslclient = NoClient /\ exited' = TRUE /\ UNCHANGED logging
          \/ logging' = [logging EXCEPT ![t] = "logs"] /\ UNCHANGED exited
      BY <1>2 DEF L!TestClient
    <2>3. L!ClogTypeOK'
      BY <2>1, <2>2, <1>t DEF L!ClogTypeOK
    <2>4. /\ AllOpened' = AllOpened
          /\ exited' => AllOpened
      <3>1. aslclient = NoClient => AllOpened
        <4>1. messages[t] # 0
          BY <2>1
        <4> QED BY <4>1 DEF ClogIInv
      <3> QED BY <2>1, <2>2, <3>1 DEF AllOpened, ClogIInv
    <2>5. \A q \in Thread : (logging'[q] = "idle") <=> (logging[q] = "idle")
      BY <2>1, <2>2, <1>t
    <2>6. \A q \in Thread : L!Begun(q)' = L!Begun(q)
      BY <2>1, <2>5 DEF L!Begun
    <2>7. SentSoFar'
      BY <2>1, <2>6 DEF ClogIInv, SentSoFar
    <2> QED BY <2>1, <2>3, <2>4, <2>5, <2>7 DEF ClogIInv
  <1>3. ASSUME NEW t \in Thread, L!Vlog(t) PROVE ClogIInv'
    <2> DEFINE new == <<<<t, messages[t]>>, aslclient>>
    <2>1. /\ logging[t] = "logs" /\ messages[t] > 0
          /\ toLog' = toLog \cup {new}
          /\ logging' = [logging EXCEPT ![t] = "idle"]
          /\ UNCHANGED <<aslclient, messages, opened, refused, exited>>
      BY <1>3 DEF L!Vlog, ClogIInv
    <2>2. messages[t] \in 1 .. MaxMessages
      BY <2>1, <1>t
    <2>3. L!ClogTypeOK'
      BY <2>1, <2>2, <1>t DEF L!ClogTypeOK
    <2>4. AllOpened' = AllOpened /\ (aslclient = NoClient => AllOpened)
      <3>1. messages[t] # 0
        BY <2>1
      <3> QED BY <2>1, <3>1 DEF AllOpened, ClogIInv
    <2>5. L!Begun(t)' = messages[t] /\ L!Begun(t) = messages[t] - 1
      <3>1. logging'[t] = "idle" /\ logging[t] # "idle" /\ messages'[t] = messages[t]
        BY <2>1, <1>t
      <3> QED BY <3>1, <2>2 DEF L!Begun
    <2>6. \A q \in Thread : q # t => L!Begun(q)' = L!Begun(q)
      BY <2>1, <1>t DEF L!Begun
    <2>7. \A s \in toLog : s[1] # new[1]
      <3>1. ~(messages[t] <= L!Begun(t))
        BY <2>2, <2>5
      <3> QED BY <2>2, <3>1 DEF ClogIInv, SentSoFar
    <2>8. \A m, o \in toLog' : m[1] = o[1] => m = o
      BY <2>1, <2>7 DEF ClogIInv
    <2>9. \A m \in toLog' : m[2] = NoClient => AllOpened'
      BY <2>1, <2>4 DEF ClogIInv
    <2>10. ASSUME NEW q \in Thread, NEW k \in 1 .. MaxMessages
           PROVE  (\E s \in toLog' : s[1] = <<q, k>>) <=> k <= L!Begun(q)'
      <3>1. (\E s \in toLog' : s[1] = <<q, k>>) <=>
              (\E s \in toLog : s[1] = <<q, k>>) \/ (q = t /\ k = messages[t])
        <4>1. new[1] = <<q, k>> <=> q = t /\ k = messages[t]
          OBVIOUS
        <4> HIDE DEF new
        <4> QED BY <2>1, <4>1
      <3>2. (\E s \in toLog : s[1] = <<q, k>>) <=> k <= L!Begun(q)
        BY DEF ClogIInv, SentSoFar
      <3>3. CASE q = t
        <4>1. k <= messages[t] <=> k <= messages[t] - 1 \/ k = messages[t]
          BY <2>2
        <4> QED BY <3>1, <3>2, <3>3, <4>1, <2>5
      <3>4. CASE q # t
        BY <3>1, <3>2, <3>4, <2>6
      <3> QED BY <3>3, <3>4
    <2>11. SentSoFar'
      BY <2>10 DEF SentSoFar
    <2>12. \A q \in Thread : logging'[q] # "idle" => messages'[q] > 0
      BY <2>1, <1>t DEF ClogIInv
    <2> QED BY <2>1, <2>3, <2>4, <2>8, <2>9, <2>11, <2>12 DEF ClogIInv
  <1>4. CASE UNCHANGED ofLog
    <2>1. L!ClogTypeOK' /\ AllOpened' = AllOpened
      BY <1>4 DEF ofLog, ClogIInv, L!ClogTypeOK, AllOpened
    <2>2. \A q \in Thread : L!Begun(q)' = L!Begun(q)
      BY <1>4 DEF ofLog, L!Begun
    <2>3. SentSoFar'
      BY <1>4, <2>2 DEF ofLog, ClogIInv, SentSoFar
    <2> QED BY <1>4, <2>1, <2>3 DEF ofLog, ClogIInv
  <1> QED BY <1>1, <1>2, <1>3, <1>4 DEF L!ClogNext

-------------------------------------------------------------------------------

\* MessagePort: where the message of a client may be.
Waiting(c) == \E s \in Server : \E i \in DOMAIN queue[s] : queue[s][i] = c
Handled(c) == \E s \in Server : server[s] = c
Shown(c) == \E i \in DOMAIN shown : shown[i][1] = c

\* No queue has a message twice, nor has the list of what was shown.
OnceInEach ==
  /\ \A s \in Server : /\ Len(queue[s]) <= Limit
                       /\ \A i, j \in DOMAIN queue[s] : queue[s][i] = queue[s][j] => i = j
  /\ \A i, j \in DOMAIN shown : shown[i][1] = shown[j][1] => i = j

\* It is in one of the places, and only if the client was answered "success".
InOnePlace ==
  \A c \in Client :
    /\ Waiting(c) => ~Handled(c) /\ ~Shown(c) /\ c \notin lost
    /\ Handled(c) => ~Shown(c) /\ c \notin lost
    /\ Shown(c) => c \notin lost
    /\ outcome[c] = "success" <=> Waiting(c) \/ Handled(c) \/ Shown(c) \/ c \in lost
    /\ client[c] \in {"off", "sends"} => outcome[c] = "none"

\* It went to the server that the client had found.
ToTheOneFound ==
  /\ \A s \in Server : \A i \in DOMAIN queue[s] : remote[queue[s][i]] = s
  /\ \A s \in Server, c \in Client : server[s] = c => remote[c] = s
  /\ \A i \in DOMAIN shown : remote[shown[i][1]] = shown[i][2]

PortIInv == PortTypeOK /\ OnceInEach /\ InOnePlace /\ ToTheOneFound

\* The length of a queue, and who is in it.
LEMMA QueueFacts ==
  ASSUME PortIInv, NEW s \in Server
  PROVE  /\ queue[s] \in Seq(Client) /\ Len(queue[s]) \in Nat
         /\ DOMAIN queue[s] = 1 .. Len(queue[s])
         /\ \A i \in DOMAIN queue[s] : queue[s][i] \in Client
  BY DEF PortIInv, PortTypeOK

LEMMA PortInitEstablishes == PortInit => PortIInv
  <1> SUFFICES ASSUME PortInit PROVE PortIInv
    OBVIOUS
  <1>1. PortTypeOK
    BY DEF PortInit, PortTypeOK
  <1>2. OnceInEach /\ ToTheOneFound
    BY PortAssumption, ClientAssumption DEF PortInit, OnceInEach, ToTheOneFound
  <1>3. \A c \in Client : ~Waiting(c) /\ ~Handled(c) /\ ~Shown(c)
    BY ClientAssumption DEF PortInit, Waiting, Handled, Shown
  <1> QED BY <1>1, <1>2, <1>3 DEF PortInit, PortIInv, InOnePlace

\* Steps that put no message anywhere else.
LEMMA NothingMoves ==
  ASSUME PortIInv, PortTypeOK', UNCHANGED <<queue, shown, lost>>,
         \A s \in Server, c \in Client : server'[s] = c <=> server[s] = c,
         \A c \in Client : /\ outcome'[c] = "success" <=> outcome[c] = "success"
                           /\ client'[c] \in {"off", "sends"} => outcome'[c] = "none"
                           /\ outcome[c] = "success" => remote'[c] = remote[c]
  PROVE  PortIInv'
  <1>1. \A c \in Client : /\ Waiting(c)' <=> Waiting(c)
                          /\ Handled(c)' <=> Handled(c)
                          /\ Shown(c)' <=> Shown(c)
    BY DEF Waiting, Handled, Shown
  <1>2. OnceInEach'
    BY DEF PortIInv, OnceInEach
  <1>3. InOnePlace'
    BY <1>1 DEF PortIInv, InOnePlace
  <1>4. ToTheOneFound'
    <2>1. \A s \in Server : \A i \in DOMAIN queue[s] : remote'[queue[s][i]] = remote[queue[s][i]]
      BY QueueFacts DEF PortIInv, InOnePlace, Waiting
    <2>2. \A s \in Server, c \in Client : server[s] = c => remote'[c] = remote[c]
      BY DEF PortIInv, InOnePlace, Handled
    <2>3. \A i \in DOMAIN shown : remote'[shown[i][1]] = remote[shown[i][1]]
      <3> TAKE i \in DOMAIN shown
      <3>1. shown[i][1] \in Client
        BY DEF PortIInv, PortTypeOK
      <3> QED BY <3>1 DEF PortIInv, InOnePlace, Shown
    <2> QED BY <2>1, <2>2, <2>3 DEF PortIInv, ToTheOneFound
  <1> QED BY <1>2, <1>3, <1>4 DEF PortIInv

\* The run loop takes a message out of the queue, into its hand.
LEMMA ReceiveStep ==
  ASSUME PortIInv, NEW s \in Server, Receive(s)
  PROVE  PortIInv'
  <1>1. PICK c \in Client : c = Head(queue[s]) /\ queue[s] # <<>> /\ server[s] = "waits"
    BY QueueFacts DEF Receive
  <1>2. /\ server' = [server EXCEPT ![s] = c]
        /\ queue' = [queue EXCEPT ![s] = Tail(queue[s])]
        /\ UNCHANGED <<name, client, remote, outcome, shown, lost>>
    BY <1>1 DEF Receive
  <1>t. PortTypeOK
    BY DEF PortIInv
  <1>3. /\ queue'[s] \in Seq(Client) /\ c = queue[s][1]
        /\ Len(queue[s]) \in Nat \ {0} /\ DOMAIN queue[s] = 1 .. Len(queue[s])
        /\ Len(queue'[s]) = Len(queue[s]) - 1 /\ DOMAIN queue'[s] = 1 .. Len(queue[s]) - 1
        /\ \A i \in 1 .. Len(queue[s]) - 1 : queue'[s][i] = queue[s][i + 1]
        /\ \A r \in Server : r # s => queue'[r] = queue[r]
    BY <1>1, <1>2, <1>t DEF PortTypeOK
  <1>4. \A i \in DOMAIN queue'[s] : i + 1 \in DOMAIN queue[s] /\ queue'[s][i] = queue[s][i + 1]
    BY <1>3
  <1>5. PortTypeOK'
    BY <1>2, <1>3, <1>t DEF PortTypeOK
  <1>6. OnceInEach'
    <2>1. Len(queue'[s]) <= Limit
      BY <1>3, PortAssumption DEF PortIInv, OnceInEach
    <2>2. \A i, j \in DOMAIN queue'[s] : queue'[s][i] = queue'[s][j] => i = j
      <3> SUFFICES ASSUME NEW i \in DOMAIN queue'[s], NEW j \in DOMAIN queue'[s],
                          queue[s][i + 1] = queue[s][j + 1]
                   PROVE  i = j
        BY <1>4
      <3>1. i + 1 = j + 1
        BY <1>4 DEF PortIInv, OnceInEach
      <3>2. i \in Int /\ j \in Int
        BY <1>3
      <3> QED BY <3>1, <3>2
    <2> QED BY <2>1, <2>2, <1>2, <1>3 DEF PortIInv, OnceInEach
  <1>7. Waiting(c) /\ remote[c] = s
    <2>1. 1 \in DOMAIN queue[s]
      BY <1>3
    <2> QED BY <2>1, <1>3 DEF Waiting, PortIInv, ToTheOneFound
  <1>8. ~Waiting(c)'
    <2> SUFFICES ASSUME NEW r \in Server, NEW i \in DOMAIN queue'[r], queue'[r][i] = c
                 PROVE  FALSE
      BY DEF Waiting
    <2>1. CASE r = s
      <3>1. i + 1 \in DOMAIN queue[s] /\ 1 \in DOMAIN queue[s] /\ i + 1 # 1
        BY <2>1, <1>3
      <3>2. queue[s][i + 1] = queue[s][1]
        BY <2>1, <1>3, <1>4
      <3> QED BY <3>1, <3>2 DEF PortIInv, OnceInEach
    <2>2. CASE r # s
      <3>1. remote[c] = r
        BY <2>2, <1>3 DEF PortIInv, ToTheOneFound
      <3> QED BY <3>1, <2>2, <1>7
    <2> QED BY <2>1, <2>2
  <1>9. ASSUME NEW d \in Client, d # c PROVE Waiting(d)' <=> Waiting(d)
    <2>1. ASSUME NEW r \in Server, NEW i \in DOMAIN queue'[r], queue'[r][i] = d
          PROVE  Waiting(d)
      BY <2>1, <1>3, <1>4 DEF Waiting
    <2>2. ASSUME NEW r \in Server, NEW i \in DOMAIN queue[r], queue[r][i] = d
          PROVE  Waiting(d)'
      <3>1. CASE r # s
        BY <2>2, <3>1, <1>3 DEF Waiting
      <3>2. CASE r = s
        <4>1. i # 1 /\ i \in 1 .. Len(queue[s])
          BY <2>2, <3>2, <1>3, <1>9
        <4>2. i - 1 \in DOMAIN queue'[s] /\ (i - 1) + 1 = i
          BY <4>1, <1>3
        <4>3. queue'[s][i - 1] = d
          BY <2>2, <3>2, <4>2, <1>4
        <4> QED BY <4>2, <4>3 DEF Waiting
      <3> QED BY <3>1, <3>2
    <2> QED BY <2>1, <2>2 DEF Waiting
  <1>10. \A d \in Client : /\ Handled(d)' <=> Handled(d) \/ d = c
                           /\ Shown(d)' <=> Shown(d)
    BY <1>1, <1>2, <1>t, ClientAssumption DEF Handled, Shown, PortTypeOK
  <1>11. InOnePlace'
    <2> SUFFICES ASSUME NEW d \in Client
                 PROVE  /\ Waiting(d)' => ~Handled(d)' /\ ~Shown(d)' /\ d \notin lost
                        /\ Handled(d)' => ~Shown(d)' /\ d \notin lost
                        /\ Shown(d)' => d \notin lost
                        /\ outcome[d] = "success" <=>
                             Waiting(d)' \/ Handled(d)' \/ Shown(d)' \/ d \in lost
                        /\ client[d] \in {"off", "sends"} => outcome[d] = "none"
      BY <1>2 DEF InOnePlace
    <2>1. CASE d = c
      BY <2>1, <1>7, <1>8, <1>10 DEF PortIInv, InOnePlace
    <2>2. CASE d # c
      BY <2>2, <1>9, <1>10 DEF PortIInv, InOnePlace
    <2> QED BY <2>1, <2>2
  <1>12. ToTheOneFound'
    <2>1. \A r \in Server : \A i \in DOMAIN queue'[r] : remote'[queue'[r][i]] = r
      <3> TAKE r \in Server
      <3>1. CASE r = s
        BY <3>1, <1>2, <1>4 DEF PortIInv, ToTheOneFound
      <3>2. CASE r # s
        BY <3>2, <1>2, <1>3 DEF PortIInv, ToTheOneFound
      <3> QED BY <3>1, <3>2
    <2>2. \A r \in Server, d \in Client : server'[r] = d => remote'[d] = r
      BY <1>2, <1>7, <1>t DEF PortIInv, ToTheOneFound, PortTypeOK
    <2> QED BY <2>1, <2>2, <1>2 DEF PortIInv, ToTheOneFound
  <1> QED BY <1>5, <1>6, <1>11, <1>12 DEF PortIInv

\* The callback shows the message that is in its hand.
LEMMA MessageCallbackStep ==
  ASSUME PortIInv, NEW s \in Server, MessageCallback(s)
  PROVE  PortIInv'
  <1>1. PICK c \in Client : server[s] = c
    BY DEF MessageCallback
  <1>2. /\ shown' = Append(shown, <<c, s>>)
        /\ server' = [server EXCEPT ![s] = "waits"]
        /\ UNCHANGED <<name, queue, client, remote, outcome, lost>>
    BY <1>1 DEF MessageCallback
  <1>t. PortTypeOK
    BY DEF PortIInv
  <1>3. /\ Handled(c) /\ remote[c] = s
        /\ ~Waiting(c) /\ ~Shown(c) /\ c \notin lost
    BY <1>1 DEF Handled, PortIInv, InOnePlace, ToTheOneFound
  <1>4. /\ Len(shown) \in Nat /\ DOMAIN shown = 1 .. Len(shown)
        /\ DOMAIN shown' = 1 .. Len(shown) + 1
        /\ shown'[Len(shown) + 1] = <<c, s>>
        /\ \A i \in 1 .. Len(shown) : shown'[i] = shown[i]
    BY <1>2, <1>t DEF PortTypeOK
  <1>5. \A i \in DOMAIN shown' :
          \/ i \in DOMAIN shown /\ shown'[i] = shown[i]
          \/ i = Len(shown) + 1 /\ shown'[i] = <<c, s>>
    BY <1>4
  <1>6. \A i \in DOMAIN shown : i \in DOMAIN shown' /\ shown'[i] = shown[i] /\ shown[i][1] # c
    BY <1>3, <1>4 DEF Shown
  <1>7. PortTypeOK'
    BY <1>2, <1>t DEF PortTypeOK
  <1>8. OnceInEach'
    <2>1. ASSUME NEW i \in DOMAIN shown', NEW j \in DOMAIN shown', shown'[i][1] = shown'[j][1]
          PROVE  i = j
      BY <2>1, <1>5, <1>6 DEF PortIInv, OnceInEach
    <2> QED BY <2>1, <1>2 DEF PortIInv, OnceInEach
  <1>9. \A d \in Client : /\ Waiting(d)' <=> Waiting(d)
                          /\ Shown(d)' <=> Shown(d) \/ d = c
    <2> TAKE d \in Client
    <2>1. Shown(d)' => Shown(d) \/ d = c
      BY <1>5 DEF Shown
    <2>2. Shown(d) => Shown(d)'
      BY <1>6 DEF Shown
    <2>3. Shown(c)'
      <3>1. Len(shown) + 1 \in DOMAIN shown' /\ shown'[Len(shown) + 1][1] = c
        BY <1>4
      <3> QED BY <3>1 DEF Shown
    <2> QED BY <2>1, <2>2, <2>3, <1>2 DEF Waiting
  <1>10. \A d \in Client : Handled(d)' <=> Handled(d) /\ d # c
    <2> TAKE d \in Client
    <2>1. ASSUME NEW r \in Server, server'[r] = d PROVE Handled(d) /\ d # c
      <3>1. r # s /\ server[r] = d
        BY <2>1, <1>2, <1>t, ClientAssumption DEF PortTypeOK
      <3> QED BY <3>1, <1>3 DEF Handled, PortIInv, ToTheOneFound
    <2>2. ASSUME NEW r \in Server, server[r] = d, d # c PROVE Handled(d)'
      <3>1. server'[r] = d
        BY <2>2, <1>1, <1>2, <1>t DEF PortTypeOK
      <3> QED BY <3>1 DEF Handled
    <2> QED BY <2>1, <2>2 DEF Handled
  <1>11. InOnePlace'
    <2> SUFFICES ASSUME NEW d \in Client
                 PROVE  /\ Waiting(d)' => ~Handled(d)' /\ ~Shown(d)' /\ d \notin lost
                        /\ Handled(d)' => ~Shown(d)' /\ d \notin lost
                        /\ Shown(d)' => d \notin lost
                        /\ outcome[d] = "success" <=>
                             Waiting(d)' \/ Handled(d)' \/ Shown(d)' \/ d \in lost
                        /\ client[d] \in {"off", "sends"} => outcome[d] = "none"
      BY <1>2 DEF InOnePlace
    <2> QED BY <1>3, <1>9, <1>10 DEF PortIInv, InOnePlace
  <1>12. ToTheOneFound'
    <2>1. \A r \in Server, d \in Client : server'[r] = d => remote'[d] = r
      BY <1>2, <1>t, ClientAssumption DEF PortIInv, ToTheOneFound, PortTypeOK
    <2>2. \A i \in DOMAIN shown' : remote'[shown'[i][1]] = shown'[i][2]
      BY <1>2, <1>3, <1>5 DEF PortIInv, ToTheOneFound
    <2> QED BY <2>1, <2>2, <1>2 DEF PortIInv, ToTheOneFound
  <1> QED BY <1>7, <1>8, <1>11, <1>12 DEF PortIInv

\* What a server that is killed had in its queue and in its hand is lost.
LEMMA KillStep ==
  ASSUME PortIInv, NEW s \in Server, Kill(s)
  PROVE  PortIInv'
  <1>1. /\ server' = [server EXCEPT ![s] = "killed"]
        /\ name' = Nobody
        /\ queue' = [queue EXCEPT ![s] = <<>>]
        /\ lost' = lost \cup InHand(s) \cup Queued(s)
        /\ UNCHANGED <<client, remote, outcome, shown>>
    BY DEF Kill
  <1>t. PortTypeOK
    BY DEF PortIInv
  <1>2. InHand(s) \subseteq Client /\ Queued(s) \subseteq Client
    BY QueueFacts DEF InHand, Queued
  <1>3. /\ queue'[s] = <<>> /\ DOMAIN queue'[s] = {} /\ Len(queue'[s]) = 0
        /\ \A r \in Server : r # s => queue'[r] = queue[r]
    BY <1>1, <1>t DEF PortTypeOK
  <1>4. PortTypeOK'
    <2>1. queue' \in [Server -> Seq(Client)]
      BY <1>1, <1>t DEF PortTypeOK
    <2> QED BY <2>1, <1>1, <1>2, <1>t DEF PortTypeOK
  <1>5. OnceInEach'
    BY <1>1, <1>3, PortAssumption DEF PortIInv, OnceInEach
  <1>6. \A d \in Client :
          /\ Waiting(d)' <=> Waiting(d) /\ d \notin Queued(s)
          /\ d \in Queued(s) => Waiting(d)
    <2> TAKE d \in Client
    <2>1. ASSUME NEW r \in Server, NEW i \in DOMAIN queue'[r], queue'[r][i] = d
          PROVE  Waiting(d) /\ d \notin Queued(s)
      <3>1. r # s /\ i \in DOMAIN queue[r] /\ queue[r][i] = d
        BY <2>1, <1>3
      <3>2. remote[d] = r
        BY <3>1 DEF PortIInv, ToTheOneFound
      <3>3. d \notin Queued(s)
        BY <3>1, <3>2 DEF Queued, PortIInv, ToTheOneFound
      <3> QED BY <3>1, <3>3 DEF Waiting
    <2>2. ASSUME NEW r \in Server, NEW i \in DOMAIN queue[r], queue[r][i] = d, d \notin Queued(s)
          PROVE  Waiting(d)'
      <3>1. r # s
        BY <2>2 DEF Queued
      <3> QED BY <3>1, <2>2, <1>3 DEF Waiting
    <2> QED BY <2>1, <2>2 DEF Waiting, Queued
  <1>7. \A d \in Client :
          /\ Handled(d)' <=> Handled(d) /\ d \notin InHand(s)
          /\ d \in InHand(s) => Handled(d)
    <2> TAKE d \in Client
    <2>1. ASSUME NEW r \in Server, server'[r] = d PROVE Handled(d) /\ d \notin InHand(s)
      <3>1. r # s /\ server[r] = d
        BY <2>1, <1>1, <1>t, ClientAssumption DEF PortTypeOK
      <3>2. remote[d] = r
        BY <3>1 DEF PortIInv, ToTheOneFound
      <3> QED BY <3>1, <3>2 DEF Handled, InHand, PortIInv, ToTheOneFound
    <2>2. ASSUME NEW r \in Server, server[r] = d, d \notin InHand(s) PROVE Handled(d)'
      <3>1. server'[r] = d
        BY <2>2, <1>1, <1>t DEF PortTypeOK, InHand
      <3> QED BY <3>1 DEF Handled
    <2> QED BY <2>1, <2>2 DEF Handled, InHand
  <1>8. \A d \in Client : /\ Shown(d)' <=> Shown(d)
                          /\ d \in lost' <=> d \in lost \/ d \in InHand(s) \/ d \in Queued(s)
    BY <1>1 DEF Shown
  <1>9. InOnePlace'
    <2> SUFFICES ASSUME NEW d \in Client
                 PROVE  /\ Waiting(d)' => ~Handled(d)' /\ ~Shown(d)' /\ d \notin lost'
                        /\ Handled(d)' => ~Shown(d)' /\ d \notin lost'
                        /\ Shown(d)' => d \notin lost'
                        /\ outcome[d] = "success" <=>
                             Waiting(d)' \/ Handled(d)' \/ Shown(d)' \/ d \in lost'
                        /\ client[d] \in {"off", "sends"} => outcome[d] = "none"
      BY <1>1 DEF InOnePlace
    <2> QED BY <1>6, <1>7, <1>8 DEF PortIInv, InOnePlace
  <1>10. ToTheOneFound'
    <2>1. \A r \in Server : \A i \in DOMAIN queue'[r] : remote'[queue'[r][i]] = r
      BY <1>1, <1>3 DEF PortIInv, ToTheOneFound
    <2>2. \A r \in Server, d \in Client : server'[r] = d => remote'[d] = r
      BY <1>1, <1>t, ClientAssumption DEF PortIInv, ToTheOneFound, PortTypeOK
    <2> QED BY <2>1, <2>2, <1>1 DEF PortIInv, ToTheOneFound
  <1> QED BY <1>4, <1>5, <1>9, <1>10 DEF PortIInv

\* A client that is answered "success" is in the queue of the server that it found.
LEMMA SendStep ==
  ASSUME PortIInv, NEW c \in Client, Send(c)
  PROVE  PortIInv'
  <1>t. PortTypeOK
    BY DEF PortIInv
  <1>1. PICK s \in Server : s = remote[c]
    BY <1>t DEF Send, Answered, PortTypeOK
  <1>2. /\ client[c] = "sends" /\ Len(queue[s]) < Limit
        /\ client' = [client EXCEPT ![c] = "returned"]
        /\ outcome' = [outcome EXCEPT ![c] = "success"]
        /\ queue' = [queue EXCEPT ![s] = Append(queue[s], c)]
        /\ UNCHANGED <<server, name, remote, shown, lost>>
    BY <1>1 DEF Send, Answered
  <1>3. outcome[c] = "none" /\ ~Waiting(c) /\ ~Handled(c) /\ ~Shown(c) /\ c \notin lost
    BY <1>2 DEF PortIInv, InOnePlace
  <1>4. /\ queue'[s] \in Seq(Client)
        /\ Len(queue[s]) \in Nat /\ DOMAIN queue[s] = 1 .. Len(queue[s])
        /\ Len(queue'[s]) = Len(queue[s]) + 1 /\ DOMAIN queue'[s] = 1 .. Len(queue[s]) + 1
        /\ queue'[s][Len(queue[s]) + 1] = c
        /\ \A i \in 1 .. Len(queue[s]) : queue'[s][i] = queue[s][i]
        /\ \A r \in Server : r # s => queue'[r] = queue[r]
    BY <1>2, <1>t DEF PortTypeOK
  <1>5. \A i \in DOMAIN queue'[s] :
          \/ i \in DOMAIN queue[s] /\ queue'[s][i] = queue[s][i]
          \/ i = Len(queue[s]) + 1 /\ queue'[s][i] = c
    BY <1>4
  <1>6. \A i \in DOMAIN queue[s] :
          i \in DOMAIN queue'[s] /\ queue'[s][i] = queue[s][i] /\ queue[s][i] # c
    BY <1>3, <1>4 DEF Waiting
  <1>7. PortTypeOK'
    BY <1>2, <1>4, <1>t DEF PortTypeOK
  <1>8. OnceInEach'
    <2>1. Len(queue'[s]) <= Limit
      BY <1>2, <1>4, PortAssumption
    <2>2. \A i, j \in DOMAIN queue'[s] : queue'[s][i] = queue'[s][j] => i = j
      BY <1>5, <1>6 DEF PortIInv, OnceInEach
    <2> QED BY <2>1, <2>2, <1>2, <1>4 DEF PortIInv, OnceInEach
  <1>9. Waiting(c)'
    <2>1. Len(queue[s]) + 1 \in DOMAIN queue'[s] /\ queue'[s][Len(queue[s]) + 1] = c
      BY <1>4
    <2> QED BY <2>1 DEF Waiting
  <1>10. ASSUME NEW d \in Client, d # c PROVE Waiting(d)' <=> Waiting(d)
    <2>1. ASSUME NEW r \in Server, NEW i \in DOMAIN queue'[r], queue'[r][i] = d
          PROVE  Waiting(d)
      BY <2>1, <1>4, <1>5, <1>10 DEF Waiting
    <2>2. ASSUME NEW r \in Server, NEW i \in DOMAIN queue[r], queue[r][i] = d
          PROVE  Waiting(d)'
      BY <2>2, <1>4, <1>6 DEF Waiting
    <2> QED BY <2>1, <2>2 DEF Waiting
  <1>11. \A d \in Client : /\ Handled(d)' <=> Handled(d)
                           /\ Shown(d)' <=> Shown(d)
    BY <1>2 DEF Handled, Shown
  <1>12. InOnePlace'
    <2> SUFFICES ASSUME NEW d \in Client
                 PROVE  /\ Waiting(d)' => ~Handled(d)' /\ ~Shown(d)' /\ d \notin lost
                        /\ Handled(d)' => ~Shown(d)' /\ d \notin lost
                        /\ Shown(d)' => d \notin lost
                        /\ outcome'[d] = "success" <=>
                             Waiting(d)' \/ Handled(d)' \/ Shown(d)' \/ d \in lost
                        /\ client'[d] \in {"off", "sends"} => outcome'[d] = "none"
      BY <1>2 DEF InOnePlace
    <2>1. CASE d = c
      <3>1. outcome'[c] = "success" /\ client'[c] = "returned"
        BY <1>2, <1>t DEF PortTypeOK
      <3> QED BY <2>1, <3>1, <1>3, <1>9, <1>11
    <2>2. CASE d # c
      <3>1. outcome'[d] = outcome[d] /\ client'[d] = client[d]
        BY <2>2, <1>2, <1>t DEF PortTypeOK
      <3> QED BY <2>2, <3>1, <1>10, <1>11 DEF PortIInv, InOnePlace
    <2> QED BY <2>1, <2>2
  <1>13. ToTheOneFound'
    <2>1. \A r \in Server : \A i \in DOMAIN queue'[r] : remote'[queue'[r][i]] = r
      <3> TAKE r \in Server
      <3>1. CASE r = s
        BY <3>1, <1>1, <1>2, <1>5 DEF PortIInv, ToTheOneFound
      <3>2. CASE r # s
        BY <3>2, <1>2, <1>4 DEF PortIInv, ToTheOneFound
      <3> QED BY <3>1, <3>2
    <2> QED BY <2>1, <1>2 DEF PortIInv, ToTheOneFound
  <1> QED BY <1>7, <1>8, <1>12, <1>13 DEF PortIInv

LEMMA PortStepPreserves == PortIInv /\ [PortNext]_portVars => PortIInv'
  <1> SUFFICES ASSUME PortIInv, [PortNext]_portVars PROVE PortIInv'
    OBVIOUS
  <1>t. PortTypeOK
    BY DEF PortIInv
  <1>1. ASSUME NEW s \in Server, CreateLocal(s) PROVE PortIInv'
    <2>1. PICK what \in {"waits", "crashed"} :
            /\ server' = [server EXCEPT ![s] = what] /\ name' \in {name, s}
            /\ server[s] = "off"
            /\ UNCHANGED <<queue, client, remote, outcome, shown, lost>>
      BY <1>1 DEF CreateLocal
    <2>2. PortTypeOK'
      BY <2>1, <1>t DEF PortTypeOK
    <2>3. \A r \in Server, d \in Client : server'[r] = d <=> server[r] = d
      BY <2>1, <1>t, ClientAssumption DEF PortTypeOK
    <2> QED BY <2>1, <2>2, <2>3, NothingMoves DEF PortIInv, InOnePlace
  <1>2. ASSUME NEW c \in Client, CreateRemote(c) PROVE PortIInv'
    <2>1. PortTypeOK'
      BY <1>2, <1>t DEF PortTypeOK, CreateRemote
    <2>2. outcome[c] = "none"
      BY <1>2 DEF CreateRemote, PortIInv, InOnePlace
    <2>3. \A d \in Client : /\ client'[d] \in {"off", "sends"} => outcome'[d] = "none"
                            /\ outcome[d] = "success" => remote'[d] = remote[d]
      BY <1>2, <2>2, <1>t DEF CreateRemote, PortTypeOK, PortIInv, InOnePlace
    <2> QED BY <1>2, <2>1, <2>3, NothingMoves DEF CreateRemote
  <1>3. ASSUME NEW c \in Client, SendToNobody(c) PROVE PortIInv'
    <2>1. PortTypeOK'
      BY <1>3, <1>t DEF PortTypeOK, SendToNobody
    <2>2. \A d \in Client : client'[d] \in {"off", "sends"} => outcome'[d] = "none"
      BY <1>3, <1>t DEF SendToNobody, PortTypeOK, PortIInv, InOnePlace
    <2> QED BY <1>3, <2>1, <2>2, NothingMoves DEF SendToNobody
  <1>4. ASSUME NEW c \in Client, SendToDead(c) \/ Timeout(c) PROVE PortIInv'
    <2>1. PICK what \in {"invalid", "timeout"} : Answered(c, what) /\ UNCHANGED queue
      BY <1>4 DEF SendToDead, Timeout
    <2>2. PortTypeOK'
      BY <2>1, <1>t DEF PortTypeOK, Answered
    <2>3. outcome[c] = "none"
      BY <2>1 DEF Answered, PortIInv, InOnePlace
    <2>4. \A d \in Client : /\ outcome'[d] = "success" <=> outcome[d] = "success"
                            /\ client'[d] \in {"off", "sends"} => outcome'[d] = "none"
      BY <2>1, <2>3, <1>t DEF Answered, PortTypeOK, PortIInv, InOnePlace
    <2> QED BY <2>1, <2>2, <2>4, NothingMoves DEF Answered
  <1>5. CASE UNCHANGED portVars
    <2>1. PortTypeOK'
      BY <1>5, <1>t DEF portVars, PortTypeOK
    <2> QED BY <1>5, <2>1, NothingMoves DEF portVars, PortIInv, InOnePlace
  <1> QED
    BY <1>1, <1>2, <1>3, <1>4, <1>5, ReceiveStep, MessageCallbackStep, KillStep, SendStep
    DEF PortNext, Serve, Request

LEMMA AtMostOne ==
  ASSUME NEW S, \A x, y \in S : x = y
  PROVE  Cardinality(S) = IF S = {} THEN 0 ELSE 1
  <1>1. CASE S = {}
    BY <1>1, FS_EmptySet
  <1>2. CASE S # {}
    <2>1. PICK x \in S : TRUE
      BY <1>2
    <2>2. S = {x}
      BY <2>1
    <2> QED BY <1>2, <2>2, FS_Singleton
  <1> QED BY <1>1, <1>2

LEMMA PortIsNoneTwice == PortIInv => NoneTwice
  <1> SUFFICES ASSUME PortIInv PROVE NoneTwice
    OBVIOUS
  <1>t. PortTypeOK
    BY DEF PortIInv
  <1>1. ASSUME NEW c \in Client PROVE Places(c) = IF outcome[c] = "success" THEN 1 ELSE 0
    <2> DEFINE InQueues == {p \in Server \X (1 .. Limit) :
                              p[2] <= Len(queue[p[1]]) /\ queue[p[1]][p[2]] = c}
               InHands == {s \in Server : server[s] = c}
               AsShown == {i \in DOMAIN shown : shown[i][1] = c}
    <2>1. Cardinality(InQueues) = IF Waiting(c) THEN 1 ELSE 0
      <3>1. \A p \in InQueues :
              p = <<p[1], p[2]>> /\ p[1] \in Server /\ p[2] \in DOMAIN queue[p[1]]
                /\ queue[p[1]][p[2]] = c
        BY QueueFacts
      <3>2. \A p, q \in InQueues : p = q
        <4> TAKE p, q \in InQueues
        <4>1. p[1] = remote[c] /\ q[1] = remote[c]
          BY <3>1 DEF PortIInv, ToTheOneFound
        <4>2. p[2] = q[2]
          BY <3>1, <4>1 DEF PortIInv, OnceInEach
        <4> QED BY <3>1, <4>1, <4>2
      <3>3. Waiting(c) <=> InQueues # {}
        <4>1. ASSUME NEW s \in Server, NEW i \in DOMAIN queue[s], queue[s][i] = c
              PROVE  <<s, i>> \in InQueues
          <5>1. Len(queue[s]) <= Limit
            BY DEF PortIInv, OnceInEach
          <5>2. i \in 1 .. Len(queue[s]) /\ Len(queue[s]) \in Nat
            BY QueueFacts
          <5>3. i \in 1 .. Limit /\ i <= Len(queue[s])
            BY <5>1, <5>2, PortAssumption
          <5> QED BY <4>1, <5>3
        <4> QED BY <3>1, <4>1 DEF Waiting
      <3> HIDE DEF InQueues
      <3> QED BY <3>2, <3>3, AtMostOne
    <2>2. Cardinality(InHands) = IF Handled(c) THEN 1 ELSE 0
      <3>1. \A r, s \in InHands : r = s
        BY DEF PortIInv, ToTheOneFound
      <3>2. Handled(c) <=> InHands # {}
        BY DEF Handled
      <3> HIDE DEF InHands
      <3> QED BY <3>1, <3>2, AtMostOne
    <2>3. Cardinality(AsShown) = IF Shown(c) THEN 1 ELSE 0
      <3>1. \A i, j \in AsShown : i = j
        BY DEF PortIInv, OnceInEach
      <3>2. Shown(c) <=> AsShown # {}
        BY DEF Shown
      <3> HIDE DEF AsShown
      <3> QED BY <3>1, <3>2, AtMostOne
    <2>4. Cardinality({c} \cap lost) = IF c \in lost THEN 1 ELSE 0
      <3>1. \A x, y \in {c} \cap lost : x = y
        OBVIOUS
      <3>2. c \in lost <=> {c} \cap lost # {}
        OBVIOUS
      <3> QED BY <3>1, <3>2, AtMostOne
    <2>5. /\ Waiting(c) => ~Handled(c) /\ ~Shown(c) /\ c \notin lost
          /\ Handled(c) => ~Shown(c) /\ c \notin lost
          /\ Shown(c) => c \notin lost
          /\ outcome[c] = "success" <=> Waiting(c) \/ Handled(c) \/ Shown(c) \/ c \in lost
      BY DEF PortIInv, InOnePlace
    <2>6. Places(c) = Cardinality(InQueues) + Cardinality(InHands) + Cardinality(AsShown)
                        + Cardinality({c} \cap lost)
      BY DEF Places
    <2> HIDE DEF InQueues, InHands, AsShown
    <2> QED BY <2>1, <2>2, <2>3, <2>4, <2>5, <2>6
  <1> QED BY <1>1 DEF NoneTwice, PortIInv, ToTheOneFound

-------------------------------------------------------------------------------

\* DirAccess and PtrValid: what their invariants leave out of their types.
LEMMA DirInitIsTyped == DirInit => DirTypeOK
  <1> SUFFICES ASSUME DirInit PROVE DirTypeOK
    OBVIOUS
  <1>1. There \subseteq File /\ Readable \subseteq File
    BY DEF There, Readable
  <1> QED BY <1>1 DEF DirInit, DirTypeOK

LEMMA DirStaysTyped == DirTypeOK /\ [DirNext]_dirVars => DirTypeOK'
  <1> SUFFICES ASSUME DirTypeOK, [DirNext]_dirVars PROVE DirTypeOK'
    OBVIOUS
  <1>1. There \subseteq File
    BY DEF There
  <1>2. There' \subseteq File /\ Readable' \subseteq File
    BY DEF There, Readable
  <1>3. CASE Start
    BY <1>1, <1>3 DEF DirTypeOK, Start
  <1>4. CASE Enumerate
    BY <1>4 DEF DirTypeOK, Enumerate
  <1>5. CASE Stat
    BY <1>5 DEF DirTypeOK, Stat, There, LstatFails
  <1>6. ASSUME NEW f \in File, Unlink(f) PROVE DirTypeOK'
    BY <1>6 DEF DirTypeOK, Unlink
  <1>7. ASSUME NEW f \in File, ChangeMode(f) PROVE DirTypeOK'
    BY <1>2, <1>7 DEF DirTypeOK, ChangeMode, Remember
  <1>8. ASSUME NEW files \in SUBSET File, ChangeSearch(files) PROVE DirTypeOK'
    BY <1>2, <1>8 DEF DirTypeOK, ChangeSearch, Remember
  <1>9. CASE UNCHANGED dirVars
    BY <1>9 DEF DirTypeOK, dirVars
  <1> QED BY <1>3, <1>4, <1>5, <1>6, <1>7, <1>8, <1>9 DEF DirNext, Others

PtrBounds ==
  classes \in 1 .. MaxClasses /\ room \in 0 .. MaxClasses /\ fate \in {"runs", "killed", "undefined"}

LEMMA SignalKeepsBounds ==
  ASSUME PtrBounds, NEW s \in Signal, Signalled(s)
  PROVE  PtrBounds'
  <1>1. UNCHANGED classes /\ room' \in {0, room} /\ fate' \in {fate, "killed", "undefined"}
    <2>1. CASE handler[s] = "own"
      BY <2>1 DEF Signalled
    <2>2. CASE handler[s] = "jump" /\ next # "returned"
      BY <2>2 DEF Signalled, Jump
    <2>3. CASE handler[s] # "own" /\ ~(handler[s] = "jump" /\ next # "returned")
      BY <2>3 DEF Signalled
    <2> QED BY <2>1, <2>2, <2>3
  <1> QED BY <1>1, MaxClassesAssumption DEF PtrBounds

LEMMA PtrStaysBounded == PtrBounds /\ [PtrNext]_ptrVars => PtrBounds'
  <1> SUFFICES ASSUME PtrBounds, [PtrNext]_ptrVars PROVE PtrBounds'
    OBVIOUS
  <1> USE MaxClassesAssumption
  <1>1. ASSUME NEW s \in Signal, KillSends(s) PROVE PtrBounds'
    BY <1>1, SignalKeepsBounds DEF KillSends
  <1>2. ASSUME NEW s \in Signal, NEW h \in {"default", "own"}, Install(s, h) PROVE PtrBounds'
    BY <1>2 DEF Install, PtrBounds
  <1>3. ASSUME NEW t \in Test, NEW p \in Pointer, Begin(t, p) PROVE PtrBounds'
    BY <1>3 DEF Begin, PtrBounds
  <1>4. ASSUME NEW at, NEW s, NEW then, Catch(s, then) PROVE PtrBounds'
    BY <1>4 DEF Catch, PtrBounds
  <1>5. ASSUME NEW at, NEW s, NEW then, NEW valid, Restore(at, s, then, valid) PROVE PtrBounds'
    BY <1>5 DEF Restore, PtrBounds
  <1>6. ASSUME NEW at, NEW faults \in SUBSET Signal, NEW then, Touch(at, faults, then)
        PROVE  PtrBounds'
    <2>1. CASE faults # {}
      BY <1>6, <2>1, SignalKeepsBounds DEF Touch
    <2>2. CASE faults = {}
      BY <1>6, <2>2 DEF Touch, PtrBounds
    <2> QED BY <2>1, <2>2
  <1>7. CASE Read
    <2>1. PICK faults \in SUBSET Signal :
            Touch("memcpy", faults, IF test = "is_valid_ptr" THEN "back SIGSEGV" ELSE "isa")
      BY <1>7 DEF Read, Signal
    <2> QED BY <2>1, <1>6
  <1>8. CASE ReadIsa
    <2>1. PICK faults \in SUBSET Signal : Touch("isa", faults, "count")
      BY <1>8 DEF ReadIsa, Signal
    <2> QED BY <2>1, <1>6
  <1>9. CASE CountClasses \/ FreeList
    <2>1. UNCHANGED <<classes, fate>> /\ room' \in {room, classes}
      BY <1>9 DEF CountClasses, FreeList
    <2> QED BY <2>1 DEF PtrBounds
  <1>10. CASE LookForClass
    <2>1. \/ UNCHANGED <<classes, room, fate>>
          \/ \E s \in Signal : Signalled(s)
      BY <1>10 DEF LookForClass
    <2>2. CASE UNCHANGED <<classes, room, fate>>
      BY <2>2 DEF PtrBounds
    <2> QED BY <2>1, <2>2, SignalKeepsBounds
  <1>11. CASE is_valid
    BY <1>4, <1>5, <1>7, <1>8, <1>9, <1>10, <1>11 DEF is_valid
  <1>12. CASE Load
    <2>1. classes' = classes + 1 /\ classes < MaxClasses /\ UNCHANGED <<room, fate>>
      BY <1>12 DEF Load
    <2> QED BY <2>1 DEF PtrBounds
  <1>13. CASE UNCHANGED ptrVars
    BY <1>13 DEF ptrVars, PtrBounds
  <1> QED BY <1>1, <1>2, <1>3, <1>11, <1>12, <1>13 DEF PtrNext

LEMMA PtrIsTyped == PtrIInv /\ PtrBounds => PtrTypeOK
  BY DEF PtrIInv, PtrTypes, Truths, PtrBounds, PtrTypeOK

-------------------------------------------------------------------------------

\* The seven programs in one run.
SysIInv ==
  /\ BarIInv /\ ProcIInv /\ DirIInv /\ DirTypeOK /\ PtrIInv /\ PtrBounds /\ FsIInv /\ PortIInv
  /\ ClogIInv

LEMMA SysInitEstablishes == MCInit => SysIInv
  <1> SUFFICES ASSUME MCInit PROVE SysIInv
    OBVIOUS
  <1>1. B!BarInit /\ ProcInit /\ DirInit /\ PtrInit /\ FsInit /\ PortInit /\ L!ClogInit
    BY DEF MCInit
  <1>2. PtrBounds
    BY <1>1, MaxClassesAssumption DEF PtrInit, PtrBounds
  <1> QED
    BY <1>1, <1>2, BarInitEstablishes, ProcInitEstablishes, DirInitEstablishes, DirInitIsTyped,
       PtrInitEstablishes, FsInitEstablishes, PortInitEstablishes, ClogInitEstablishes
    DEF SysIInv

\* A step of one of them is none of the others.
LEMMA OneProgramSteps ==
  ASSUME [MCNext]_allVars
  PROVE  /\ [B!BarNext]_ofProgress /\ [ProcStep]_<<procVars, atRead>> /\ [DirNext]_dirVars
         /\ [PtrNext]_ptrVars /\ [FsNext]_fsVars /\ [PortNext]_portVars /\ [L!ClogNext]_ofLog
  <1>1. CASE UNCHANGED allVars
    BY <1>1 DEF allVars
  <1>2. CASE Progress
    BY <1>2 DEF Progress
  <1>3. CASE Proc
    BY <1>3 DEF Proc, ProcStep
  <1>4. CASE Directory
    BY <1>4 DEF Directory
  <1>5. CASE Pointers
    BY <1>5 DEF Pointers
  <1>6. CASE Files
    BY <1>6 DEF Files
  <1>7. CASE Ports
    BY <1>7 DEF Ports
  <1>8. CASE Log
    BY <1>8 DEF Log
  <1> QED BY <1>1, <1>2, <1>3, <1>4, <1>5, <1>6, <1>7, <1>8 DEF MCNext

LEMMA SysStepPreserves == SysIInv /\ [MCNext]_allVars => SysIInv'
  <1> SUFFICES ASSUME SysIInv, [MCNext]_allVars PROVE SysIInv'
    OBVIOUS
  <1>1. /\ [B!BarNext]_ofProgress /\ [ProcStep]_<<procVars, atRead>> /\ [DirNext]_dirVars
        /\ [PtrNext]_ptrVars /\ [FsNext]_fsVars /\ [PortNext]_portVars /\ [L!ClogNext]_ofLog
    BY OneProgramSteps
  <1>2. BarIInv' /\ ProcIInv'
    BY <1>1, BarStepPreserves, ProcStepPreserves DEF SysIInv
  <1>3. DirIInv' /\ DirTypeOK'
    BY <1>1, DirStepPreserves, DirStaysTyped DEF SysIInv
  <1>4. PtrIInv' /\ PtrBounds'
    BY <1>1, PtrStepPreserves, PtrStaysBounded DEF SysIInv
  <1>5. FsIInv'
    BY <1>1, FsStepPreserves DEF SysIInv
  <1>6. PortIInv'
    BY <1>1, PortStepPreserves DEF SysIInv
  <1>7. ClogIInv'
    BY <1>1, ClogStepPreserves DEF SysIInv
  <1> QED BY <1>2, <1>3, <1>4, <1>5, <1>6, <1>7 DEF SysIInv

LEMMA SysIInvHolds == MCSpec => []SysIInv
  BY SysInitEstablishes, SysStepPreserves, PTL DEF MCSpec

(***************************************************************************)
(* What each of the seven programs keeps is of its type, for any numbers   *)
(* of threads, processes, files, servers, clients and classes: the memory  *)
(* of proc.m holds the answer, clog.c makes no client beyond the bound.    *)
(***************************************************************************)
THEOREM SystemStaysTyped == MCSpec => []SystemTyped
  <1>1. SysIInv => SystemTyped
    BY PtrIsTyped DEF SysIInv, BarIInv, ProcIInv, FsIInv, PortIInv, ClogIInv, SystemTyped
  <1> QED BY <1>1, SysIInvHolds, PTL

(***************************************************************************)
(* The line of the bar is of one moment however slow the thread is         *)
(* (progressbar.c), the table of processes is that of one moment from the  *)
(* oldest process on though processes begin and end (proc.m), and what is  *)
(* answered about a directory was true of the files that lstat did not     *)
(* fail for, searchable or not (dir-read-access.m).                        *)
(***************************************************************************)
THEOREM AnswersStayTrue == MCSpec => []AnswersAreTrue
  <1>1. SysIInv => AnswersAreTrue
    BY DEF SysIInv, BarIInv, ProcIInv, DirIInv, AnswersAreTrue
  <1> QED BY <1>1, SysIInvHolds, PTL

(***************************************************************************)
(* Nothing that is handed over is lost or doubled on its way, for any      *)
(* numbers of servers, clients and threads and any events: changes of the  *)
(* file (fsmonitor.m), requests, which no server shows but the one that    *)
(* was asked (C/CFMessagePort), and messages for the log (clog.c).         *)
(***************************************************************************)
THEOREM NothingIsEverLost == MCSpec => []NothingGetsLost
  <1>1. SysIInv => NothingGetsLost
    BY PortIsNoneTwice, SentIsEnough DEF SysIInv, FsIInv, NothingGetsLost
  <1> QED BY <1>1, SysIInvHolds, PTL

(***************************************************************************)
(* Handlers come back though the program shares its run with the others    *)
(* (ptr-valid.c and ptr-valid.m).                                          *)
(***************************************************************************)
THEOREM HandlersComeBackToo == MCSpec => []HandlersComeBack
  <1>1. SysIInv => HandlersComeBack
    BY DEF SysIInv, PtrIInv
  <1> QED BY <1>1, SysIInvHolds, PTL

===============================================================================
