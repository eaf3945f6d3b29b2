------------------------------- MODULE EGMemory -------------------------------
(***************************************************************************)
(* C/egmmgr.c: reference-counted memory with a stack of auto-release       *)
(* pools.                                                                  *)
(*                                                                         *)
(* EGAlloc puts a header of three words before the memory it returns: the  *)
(* retain count (an unsigned int), the size, and a pointer.                *)
(* __EGGetMemoryObject goes back by two words only.  What every other      *)
(* function takes for the retain count is therefore the low half of the    *)
(* size, what it takes for the size is the pointer (zero from calloc), and *)
(* what it takes for the pointer is the first word of the client's memory. *)
(* The model keeps those three words of the object, under the names by     *)
(* which they are used, and what EGAlloc wrote in the first is never read. *)
(***************************************************************************)
EXTENDS Naturals, FiniteSets, SequencesExt

CONSTANTS Object,      \* pointers EGAlloc may return
          Null,        \* the pointer it returns when calloc fails
          Pool,        \* pointers EGAutoreleasePoolCreate may return
          Sizes,       \* sizes the client asks for
          W,           \* an unsigned int is a number modulo W
          PointerSize, \* sizeof( void * )
          MaxPools,    \* EG_MAX_AR_POOLS
          Chunk,       \* EG_NUM_OBJECTS
          MaxRefs,     \* bound: references of the client to an object
          MaxHeld      \* bound: pointers in a pool

ASSUME SizesAssumption == Sizes \subseteq Nat /\ PointerSize \in Nat
ASSUME WidthAssumption == W \in Nat \ {0}
ASSUME PoolsAssumption == MaxPools \in Nat /\ Chunk \in Nat \ {0}
ASSUME NullAssumption == Null \notin Object

VARIABLES size,    \* the size the client asked for; absent: not allocated
          count,   \* what is used as the object's retain_count
          length,  \* what is used as the object's size
          first,   \* what is used as the object's data
          refs,    \* references the client has to give back
          pools,   \* __eg_ar_pools, up to __eg_ar_pools_num
          held,    \* the objects of every pool that is allocated
          room,    \* the size of every pool that is allocated
          process  \* how the process fares

memory == <<size, count, length, first>>
arena == <<pools, held, room>>
vars == <<size, count, length, first, refs, pools, held, room, process>>

Allocated == DOMAIN size
Live == DOMAIN held

TypeOK ==
  /\ Allocated \subseteq Object
  /\ size \in [Allocated -> Nat]
  /\ count \in [Allocated -> 0 .. W - 1]
  /\ length \in [Allocated -> Nat]
  /\ first \in [Allocated -> {"zero", "garbage", "buffer"}]
  /\ refs \in [Allocated -> Nat]
  /\ pools \in Seq(Pool)
  /\ Len(pools) <= MaxPools
  /\ Live \subseteq Pool
  /\ held \in [Live -> Seq(Object \cup {Null})]
  /\ room \in [Live -> Nat]
  /\ process \in {"runs", "exited", "aborted", "undefined"}

Init ==
  /\ size = <<>> /\ count = <<>> /\ length = <<>> /\ first = <<>>
  /\ refs = <<>>
  /\ pools = <<>>
  /\ held = <<>>
  /\ room = <<>>
  /\ process = "runs"

-------------------------------------------------------------------------------

\* Functions with one more, or one less, element in their domain.
With(f, x, v) == [y \in DOMAIN f \cup {x} |-> IF y = x THEN v ELSE f[y]]
Without(f, x) == [y \in DOMAIN f \ {x} |-> f[y]]

\* The process ends, or nothing is known of it any more.
Stop(how) ==
  /\ process' = how
  /\ UNCHANGED <<memory, refs, arena>>

Occurrences(o, list) == Cardinality({i \in DOMAIN list : list[i] = o})

\* Where a pointer is in the pools, and how often.
InPools(o) == UNION {{p} \X {i \in DOMAIN held[p] : held[p][i] = o} : p \in Live}
PoolsHold(o) == Cardinality(InPools(o))

\* The client may use what it holds, or a pool holds for it.
Usable(o) == refs[o] > 0 \/ PoolsHold(o) > 0

(***************************************************************************)
(* Objects                                                                 *)
(***************************************************************************)

\* The retain count of a new object of size s, for the other functions.
Seen(s) == s % W

\* EGAlloc, and what EGCopy and EGAutoAlloc do through it; n references.
\* Where calloc fails nothing changes, and the client gets NULL: CopyFails and AutoAllocFails
\* are what comes of it there.
NewObject(o, s, w, n) ==
  /\ size' = With(size, o, s)
  /\ count' = With(count, o, Seen(s))
  /\ length' = With(length, o, 0)
  /\ first' = With(first, o, w)
  /\ refs' = With(refs, o, n)

Alloc(o, s) ==
  /\ NewObject(o, s, "zero", 1)
  /\ UNCHANGED <<arena, process>>

\* n times one less.
Down(c, n) == (c + n * (W - 1)) % W

Retain(o) ==
  /\ Usable(o)
  /\ refs[o] < MaxRefs
  /\ count' = [count EXCEPT ![o] = (@ + 1) % W]
  /\ refs' = [refs EXCEPT ![o] = @ + 1]
  /\ UNCHANGED <<size, length, first, arena, process>>

\* At zero, free gets a pointer into the object: the library aborts.
Release(o) ==
  /\ refs[o] > 0
  /\ IF Down(count[o], 1) = 0
     THEN Stop("aborted")
     ELSE /\ count' = [count EXCEPT ![o] = Down(@, 1)]
          /\ refs' = [refs EXCEPT ![o] = @ - 1]
          /\ UNCHANGED <<size, length, first, arena, process>>

\* The client uses its memory.
Write(o) ==
  /\ Usable(o)
  /\ size[o] >= PointerSize
  /\ first' = [first EXCEPT ![o] = "garbage"]
  /\ UNCHANGED <<size, count, length, refs, arena, process>>

\* realloc of the first word of the client's memory.
Realloc(o, s) ==
  /\ Usable(o)
  /\ size[o] >= PointerSize
  /\ first[o] # "garbage"
  /\ \/ /\ first' = [first EXCEPT ![o] = "buffer"]
        /\ length' = [length EXCEPT ![o] = s]
     \/ \* realloc( data, 0 ) may free and answer NULL
        /\ s = 0 /\ first[o] = "buffer"
        /\ first' = [first EXCEPT ![o] = "garbage"]
        /\ UNCHANGED length
  /\ UNCHANGED <<size, count, refs, arena, process>>

\* That word is not in the object, or nothing realloc knows.
ReallocOfGarbage(o) ==
  /\ Usable(o)
  /\ size[o] < PointerSize \/ first[o] = "garbage"
  /\ Stop("undefined")

\* What EGRealloc returned has no header: no function can take it.
UseReallocated(o) ==
  /\ Usable(o)
  /\ first[o] = "buffer"
  /\ Stop("undefined")

Copy(o, o2) ==
  /\ Usable(o)
  /\ length[o] = 0 \/ first[o] = "buffer"
  /\ \E w \in IF length[o] = 0 THEN {"zero"} ELSE {"zero", "garbage"} :
       NewObject(o2, length[o], w, 1)
  /\ UNCHANGED <<arena, process>>

\* memcpy from something that is not memory, or to NULL, as EGAlloc may fail.
CopyFails(o) ==
  /\ Usable(o)
  /\ length[o] > 0
  /\ Stop("undefined")

(***************************************************************************)
(* Pools                                                                   *)
(***************************************************************************)

NoCurrentPool == pools # <<>> => Last(pools) \notin Live

\* MUTANT of Current: the outermost pool.
Outermost == Head(pools)

Current == Last(pools)

\* MUTANT of Grown: the array grows, the pool does not know.
NotGrown(p) == room

\* The array of a pool that is full grows.
Grown(p) ==
  IF Len(held[p]) = room[p] THEN [room EXCEPT ![p] = @ + Chunk] ELSE room

\* EGAutorelease of a pointer, with a current pool.
Push(ptr) ==
  /\ Len(held[Current]) < MaxHeld
  /\ held' = [held EXCEPT ![Current] = Append(@, ptr)]
  /\ room' = Grown(Current)
  /\ UNCHANGED <<pools, process>>

Autorelease(o) ==
  /\ refs[o] > 0
  /\ ~NoCurrentPool
  /\ Push(o)
  /\ refs' = [refs EXCEPT ![o] = @ - 1]
  /\ UNCHANGED memory

AutoAlloc(o, s) ==
  /\ ~NoCurrentPool
  /\ NewObject(o, s, "zero", 0)
  /\ Push(o)

\* EGAlloc fails, and NULL is put in the pool.
AutoAllocFails ==
  /\ ~NoCurrentPool
  /\ Push(Null)
  /\ UNCHANGED <<memory, refs>>

\* An array that cannot grow is fatal.
CannotGrow ==
  /\ ~NoCurrentPool
  /\ Len(held[Current]) = room[Current]
  /\ Stop("exited")

\* The element before the first, or a pool that is destroyed, is used.
NoPool ==
  /\ NoCurrentPool
  /\ Stop("undefined")

\* MUTANT of Emptied: num_objects is not set to zero.
Unemptied(p) == held

Emptied(p) == [held EXCEPT ![p] = <<>>]

\* Where the loop of a drain comes to NULL, or to an object at zero.
Faults(p) ==
  {i \in DOMAIN held[p] :
     \/ held[p][i] = Null
     \/ Down(count[held[p][i]], Occurrences(held[p][i], SubSeq(held[p], 1, i))) = 0}

\* __EGAutoreleasePoolDrain, up to the assignment of num_objects.
Drain(p) ==
  /\ Faults(p) = {}
  /\ count' = [o \in Allocated |-> Down(count[o], Occurrences(o, held[p]))]
  /\ UNCHANGED <<size, length, first, refs, process>>

DrainFaults(p) ==
  /\ Faults(p) # {}
  /\ Stop(IF held[p][Min(Faults(p))] = Null THEN "undefined" ELSE "aborted")

PoolDrain ==
  /\ ~NoCurrentPool
  /\ \/ /\ Drain(Current)
        /\ held' = Emptied(Current)
        /\ UNCHANGED <<pools, room>>
     \/ DrainFaults(Current)

\* MUTANT of Full: the test comes too late.
FullLate == Len(pools) > MaxPools

Full == Len(pools) = MaxPools

PoolCreate(p) ==
  /\ ~Full
  /\ pools' = Append(pools, p)
  /\ held' = With(held, p, <<>>)
  /\ room' = With(room, p, Chunk)
  /\ UNCHANGED <<memory, refs, process>>

\* No place for a pool, or no memory, is fatal.
CannotCreate == Stop("exited")

\* One pool less: the last, whichever is destroyed.
Below(ps) == Front(ps)

PoolDestroy(p) ==
  \/ /\ Drain(p)
     /\ held' = Without(held, p)
     /\ room' = Without(room, p)
     /\ pools' = Below(pools)
  \/ DrainFaults(p)

-------------------------------------------------------------------------------

\* Whatever a client does that gives back no more than it holds, but for
\* destroying pools.
Use ==
  \/ \E o \in Object \ Allocated, s \in Sizes : Alloc(o, s) \/ AutoAlloc(o, s)
  \/ \E o \in Allocated :
       \/ Retain(o) \/ Release(o) \/ Autorelease(o)
       \/ Write(o) \/ ReallocOfGarbage(o) \/ UseReallocated(o) \/ CopyFails(o)
       \/ \E s \in Sizes : Realloc(o, s)
       \/ \E o2 \in Object \ Allocated : Copy(o, o2)
  \/ AutoAllocFails \/ CannotGrow \/ NoPool \/ PoolDrain \/ CannotCreate
  \/ \E p \in Pool \ Live : PoolCreate(p)

Next ==
  /\ process = "runs"
  /\ Use \/ \E p \in Live : PoolDestroy(p)

Spec == Init /\ [][Next]_vars

\* The client destroys the pool it created last, as main does.
NestedNext ==
  /\ process = "runs"
  /\ Use \/ \E p \in Live : p = Last(pools) /\ PoolDestroy(p)

NestedSpec == Init /\ [][NestedNext]_vars

-------------------------------------------------------------------------------

(***************************************************************************)
(* What the functions use for the retain count of an object says how many  *)
(* references there are, the client's and the pools', though it is off by  *)
(* the size: no operation, draining and destroying pools included, loses   *)
(* or repeats a release.                                                   *)
(***************************************************************************)
CountFollowsReferences ==
  \A o \in Allocated :
    count[o] = (size[o] + refs[o] + PoolsHold(o) + W - 1) % W

\* In whichever order pools are destroyed, __eg_ar_pools_num is the number of pools
\* that are allocated, and does not go below zero.
CounterIsLivePools == Len(pools) = Cardinality(Live)

\* A pool never holds more than its array has room for.
PoolsHaveRoom == \A p \in Live : Len(held[p]) <= room[p]

(***************************************************************************)
(* The pools and their number are never out of step, and no array of       *)
(* objects to release is written beyond its end, whatever the order of     *)
(* creating, filling, draining and destroying pools.                       *)
(***************************************************************************)
ArenaIsRight == CounterIsLivePools /\ PoolsHaveRoom

(***************************************************************************)
(* Where pools are destroyed in the reverse order, every one in the stack  *)
(* is allocated, and none is there twice: the current pool can be used.    *)
(***************************************************************************)
PoolsAreNested ==
  /\ \A i \in DOMAIN pools : pools[i] \in Live
  /\ \A i, j \in DOMAIN pools : pools[i] = pools[j] => i = j

(***************************************************************************)
(* EGRelease frees an object when its last reference is gone (the message  *)
(* "Freeing object").  It does not: the count it tests is off by the size. *)
(***************************************************************************)
FreedWhenReleased ==
  process = "runs" => \A o \in Allocated : refs[o] > 0 \/ PoolsHold(o) > 0
===============================================================================
