------------------------------- MODULE MCWatcher -------------------------------
(***************************************************************************)
(* Model-checking instance of Watcher: two properties that can be set from *)
(* each other's watchers, and two observers.  A history variable tells     *)
(* whether the object was used politely so far.                            *)
(***************************************************************************)
EXTENDS Watcher, TLC

CONSTANTS p, q, one, x, y

\* Neither names nor values nor observers are told apart.
Alike == Permutations(Name) \cup Permutations(Value \ {Null}) \cup Permutations(Observer)

VARIABLE polite

MCInit == Init /\ polite = TRUE

MCNext == Next /\ polite' = (polite /\ PoliteNext)

MCSpec == MCInit /\ [][MCNext]_<<vars, polite>>

-------------------------------------------------------------------------------

(***************************************************************************)
(* As long as the object is used as Foo and Bar use one (each name         *)
(* registered once, watchers that leave the property they are told of      *)
(* alone), whoever watches a property that is not just being assigned      *)
(* knows its value, null and protected properties included, and whatever   *)
(* other properties watchers assign.                                       *)
(***************************************************************************)
PoliteWatchersKnow == polite => EveryWatcherKnows
================================================================================
