---------------------------------- MODULE Gcd ----------------------------------
(***************************************************************************)
(* Objective-C/gcd.m: the main thread detaches threads that log a string   *)
(* each to one object, releases the object, the strings with their pool,   *)
(* and ends the process, wherever the threads are.                         *)
(*                                                                         *)
(* A thread that is detached, or a block that is dispatched in its place,  *)
(* keeps its target and its argument until it is done.                     *)
(***************************************************************************)
EXTENDS Naturals, Sequences

CONSTANT Last \* number of strings

Strings == 1 .. Last

VARIABLES i,       \* the string whose thread is detached next
          foo,     \* number of those that keep foo
          str,     \* ... each string: a pool and a thread, or 0
          threads, \* what the thread of each string does
          written, \* the strings that were written
          ended    \* main has returned

gcdVars == <<i, foo, str, threads, written, ended>>

GcdTypeOK ==
  /\ i \in 1 .. Last + 3
  /\ foo \in 0 .. Last + 1
  /\ str \in [Strings -> 0 .. 2]
  /\ threads \in [Strings -> {"none", "detached", "writes", "flushes", "done"}]
  /\ written \in Seq(Strings)
  /\ ended \in BOOLEAN

GcdInit ==
  /\ i = 1
  /\ foo = 1
  /\ str = [s \in Strings |-> 0]
  /\ threads = [s \in Strings |-> "none"]
  /\ written = <<>>
  /\ ended = FALSE

-------------------------------------------------------------------------------

\* The string is made, in the pool, and kept with foo by the thread.
Detach ==
  /\ i \in Strings
  /\ str' = [str EXCEPT ![i] = 2]
  /\ foo' = foo + 1
  /\ threads' = [threads EXCEPT ![i] = "detached"]
  /\ i' = i + 1
  /\ UNCHANGED <<written, ended>>

ReleaseFoo ==
  /\ i = Last + 1
  /\ foo' = foo - 1 /\ i' = i + 1
  /\ UNCHANGED <<str, threads, written, ended>>

ReleasePool ==
  /\ i = Last + 2
  /\ str' = [s \in Strings |-> str[s] - 1] /\ i' = i + 1
  /\ UNCHANGED <<foo, threads, written, ended>>

\* The process ends with all of its threads.
ReturnFromMain ==
  /\ i = Last + 3
  /\ ended' = TRUE
  /\ UNCHANGED <<i, foo, str, threads, written>>

To(s, from, to) == threads[s] = from /\ threads' = [threads EXCEPT ![s] = to]

\* -[Foo log:], whose two calls may have others between them.
Log(s) ==
  /\ \/ /\ To(s, "detached", "writes")
        /\ UNCHANGED <<foo, str, written>>
     \/ /\ To(s, "writes", "flushes")
        /\ written' = Append(written, s)
        /\ UNCHANGED <<foo, str>>
     \/ /\ To(s, "flushes", "done")
        /\ foo' = foo - 1 /\ str' = [str EXCEPT ![s] = @ - 1]
        /\ UNCHANGED written
  /\ UNCHANGED <<i, ended>>

GcdNext ==
  /\ ~ended
  /\ Detach \/ ReleaseFoo \/ ReleasePool \/ ReturnFromMain \/ \E s \in Strings : Log(s)

GcdSpec == GcdInit /\ [][GcdNext]_gcdVars

-------------------------------------------------------------------------------

Uses(s) == threads[s] \in {"detached", "writes", "flushes"}

(***************************************************************************)
(* A thread has foo and its string until it is done, though main releases  *)
(* them when it likes; no string is written twice; and when main has       *)
(* released them and the threads are done, nothing is kept.                *)
(***************************************************************************)
ThreadsKeepTheirs ==
  /\ \A s \in Strings : Uses(s) => foo > 0 /\ str[s] > 0
  /\ \A a, b \in DOMAIN written : written[a] = written[b] => a = b
  /\ i = Last + 3 /\ (\A s \in Strings : ~Uses(s)) => foo = 0 /\ \A s \in Strings : str[s] = 0

===============================================================================
