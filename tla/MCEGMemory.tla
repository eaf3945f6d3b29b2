------------------------------ MODULE MCEGMemory ------------------------------
(***************************************************************************)
(* Model-checking instance of EGMemory: two objects, pools with room for   *)
(* one object at first, and a counter that does not come around.  A        *)
(* history variable tells whether the pools were destroyed in the reverse  *)
(* order so far, as main does.                                             *)
(***************************************************************************)
EXTENDS EGMemory

CONSTANTS object1, object2, pool1, pool2, pool3

\* Addresses are interchangeable.
Alike == Permutations(Object) \cup Permutations(Pool)

VARIABLE nested

MCInit == Init /\ nested = TRUE

\* A step of NestedNext destroys the pool that was created last, or none.
MCNext ==
  /\ Next
  /\ nested' = (nested /\ \A p \in Live : p \in DOMAIN held' \/ p = Last(pools))

MCSpec == MCInit /\ [][MCNext]_<<vars, nested>>

-------------------------------------------------------------------------------

(***************************************************************************)
(* As long as pools are destroyed in the reverse order, as EGMemory's main *)
(* does, every one in the stack is allocated and none is there twice: the  *)
(* current pool, if there is one, can be used.  And whatever happens in it *)
(* (EGAutorelease, EGAutoreleasePoolDrain), the outer ones keep what they  *)
(* hold until it is destroyed.                                             *)
(***************************************************************************)
NestedPoolsWork ==
  /\ [](nested => PoolsAreNested)
  /\ [][nested' =>
          \A p \in Live :
            p = Last(pools) \/ (p \in DOMAIN held' /\ held'[p] = held[p])]_<<vars, nested>>
===============================================================================
