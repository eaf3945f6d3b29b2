------------------------------- MODULE DirAccess -------------------------------
(***************************************************************************)
(* Objective-C/dir-read-access.m: whether all that is in a directory may   *)
(* be read, from the owner, the group and the mode of each entry, while    *)
(* others remove entries and change their modes, and those of the          *)
(* directories they are in.                                                *)
(*                                                                         *)
(* An entry is what lstat says of it, relative to the process: a symbolic  *)
(* link is an entry of its own, whatever it leads to.  Files in a          *)
(* subdirectory that cannot be listed are not given by the enumerator and  *)
(* left out; the subdirectory is an entry.  The superuser is left out.     *)
(***************************************************************************)
CONSTANTS File,    \* names in the directory, at any depth
          Entries, \* the entries there may be
          NoStat   \* an entry that is not there, or was never filled in

Entry == [owner : {"uid", "other"}, group : {"gid", "second", "other"},
          mode : SUBSET {"S_IRUSR", "S_IRGRP", "S_IROTH"}]

ASSUME EntriesAssumption == Entries \subseteq Entry /\ NoStat \notin Entry

VARIABLES path,   \* what is there: nothing, a file, a directory that is closed to the process, or open
          entry,  \* of each file
          searchable, \* the files that can be come to: the directories above grant it
          dir,    \* what the enumerator has still to give
          file,   \* what it gave last
          sb,     \* what lstat filled in last
          access, \* the answer, or where checkDirectoryReadAccess is
          could,  \* history: files that could be read at some moment
          could_not, \* ... that could not
          missed, \* history: files that lstat failed for
          guessed \* history: an sb that was never filled in was tested

dirVars == <<path, entry, searchable, dir, file, sb, access, could, could_not, missed, guessed>>

\* The rule of the kernel; "second" is a group of the process that is not its first.
Granted(e) ==
  CASE e.owner = "uid" -> "S_IRUSR" \in e.mode
    [] e.owner # "uid" /\ e.group # "other" -> "S_IRGRP" \in e.mode
    [] OTHER -> "S_IROTH" \in e.mode

There == {f \in File : entry[f] # NoStat}

\* A directory that can be listed may still not be searched, and nothing in it is read.
Readable == {f \in There \cap searchable : Granted(entry[f])}

DirTypeOK ==
  /\ path \in {"nothing", "file", "closed", "open"}
  /\ entry \in [File -> Entries \cup {NoStat}]
  /\ searchable \subseteq File /\ dir \subseteq File
  /\ could \subseteq File /\ could_not \subseteq File /\ missed \subseteq File
  /\ file \in File
  /\ sb \in Entries \cup {NoStat}
  /\ access \in {"starts", "enumerates", "stats", "YES", "NO"}
  /\ guessed \in BOOLEAN

DirInit ==
  /\ path \in {"nothing", "file", "closed", "open"}
  /\ entry \in [File -> Entries \cup {NoStat}]
  /\ searchable \in SUBSET File
  /\ dir = {} /\ file \in File
  /\ sb = NoStat
  /\ access = "starts"
  /\ could = Readable /\ could_not = There \ Readable
  /\ missed = {} /\ guessed = FALSE

-------------------------------------------------------------------------------

\* What the histories take from a change.
Remember ==
  /\ could' = could \cup Readable'
  /\ could_not' = could_not \cup (There' \ Readable')

Unlink(f) ==
  /\ f \in There
  /\ entry' = [entry EXCEPT ![f] = NoStat]
  /\ UNCHANGED <<path, searchable, dir, file, sb, access, could, could_not, missed, guessed>>

ChangeMode(f) ==
  /\ f \in There
  /\ \E e \in Entries :
       /\ e.owner = entry[f].owner /\ e.group = entry[f].group /\ e # entry[f]
       /\ entry' = [entry EXCEPT ![f] = e]
  /\ UNCHANGED <<path, searchable, dir, file, sb, access, missed, guessed>>
  /\ Remember

\* The mode of a directory is changed, and with it what can be come to.
ChangeSearch(files) ==
  /\ searchable' = files
  /\ UNCHANGED <<path, entry, dir, file, sb, access, missed, guessed>>
  /\ Remember

\* The test of the path, and the enumerator, which has nothing to give of a directory
\* that it cannot open.
Start ==
  /\ access = "starts"
  /\ dir' = IF path = "open" THEN There ELSE {}
  /\ access' = IF path \in {"nothing", "file"} THEN "NO" ELSE "enumerates"
  /\ UNCHANGED <<path, entry, searchable, file, sb, could, could_not, missed, guessed>>

\* The next file, in any order.
Enumerate ==
  /\ access = "enumerates"
  /\ IF dir = {} THEN access' = "YES" /\ UNCHANGED <<dir, file>>
     ELSE \E f \in dir : file' = f /\ dir' = dir \ {f} /\ access' = "stats"
  /\ UNCHANGED <<path, entry, searchable, sb, could, could_not, missed, guessed>>

\* MUTANT of Denied: the two tests of others must both fail.
DeniedByBoth(s) ==
  IF s.owner # "uid"
  THEN (s.group # "gid" /\ "S_IROTH" \notin s.mode) /\ "S_IRGRP" \notin s.mode
  ELSE "S_IRUSR" \notin s.mode

\* The tests of sb: the second is made of others too.
Denied(s) ==
  IF s.owner # "uid"
  THEN (s.group # "gid" /\ "S_IROTH" \notin s.mode) \/ "S_IRGRP" \notin s.mode
  ELSE "S_IRUSR" \notin s.mode

LstatFails == file \notin There \cap searchable

\* lstat, whose result is not tested: of a file that was removed, or that cannot be come
\* to, sb is what it was, of the file before or of anything.
Stat ==
  /\ access = "stats"
  /\ \E s \in IF ~LstatFails THEN {entry[file]} ELSE IF sb = NoStat THEN Entries ELSE {sb} :
       /\ sb' = IF LstatFails THEN sb ELSE s
       /\ access' = IF Denied(s) THEN "NO" ELSE "enumerates"
  /\ missed' = IF LstatFails THEN missed \cup {file} ELSE missed
  /\ guessed' = (guessed \/ (LstatFails /\ sb = NoStat))
  /\ UNCHANGED <<path, entry, searchable, dir, file, could, could_not>>

Others ==
  /\ access \in {"enumerates", "stats"}
  /\ \/ \E f \in File : Unlink(f) \/ ChangeMode(f)
     \/ \E files \in SUBSET File \ {searchable} : ChangeSearch(files)

DirNext == Start \/ Enumerate \/ Stat \/ Others

DirSpec == DirInit /\ [][DirNext]_dirVars

-------------------------------------------------------------------------------

(***************************************************************************)
(* YES is never said of an open directory with a file that could at no     *)
(* moment be read, and is still there, but for those lstat failed for.  NO *)
(* is said because some file could at some moment not be read, if all      *)
(* files are of the user, or of others but of the first group, and nothing *)
(* was guessed.  Of a directory that cannot be listed nothing is said.     *)
(***************************************************************************)
AccessIsTrue ==
  /\ access = "YES" /\ path = "open" => There \subseteq could \cup missed
  /\ /\ access = "NO" /\ path = "open" /\ ~guessed
     /\ There = File /\ \A f \in File : entry[f].owner = "uid" \/ entry[f].group = "gid"
     => could_not # {}

===============================================================================
