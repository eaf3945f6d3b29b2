---------------------------- MODULE EGMemoryProofs ----------------------------
(***************************************************************************)
(* What holds of EGMemory for any sets of objects, pools and sizes, and    *)
(* any width of the counter.                                               *)
(***************************************************************************)
EXTENDS MCEGMemory, Integers, FiniteSetTheorems, SequenceTheorems, TLAPS

\* The objects are functions over what is allocated.
MemoryOK ==
  /\ Allocated \subseteq Object
  /\ size \in [Allocated -> Nat]
  /\ count \in [Allocated -> 0 .. W - 1]
  /\ length \in [Allocated -> Nat]
  /\ first \in [Allocated -> {"zero", "garbage", "buffer"}]
  /\ refs \in [Allocated -> Nat]

\* The pools are, and the stack has one element for every pool.
ArenaOK ==
  /\ pools \in Seq(Pool)
  /\ Len(pools) <= MaxPools
  /\ Live \subseteq Pool
  /\ held \in [Live -> Seq(Object \cup {Null})]
  /\ room \in [Live -> Nat]
  /\ IsFiniteSet(Live)
  /\ CounterIsLivePools
  /\ PoolsHaveRoom

ProcessOK == process \in {"runs", "exited", "aborted", "undefined"}

IInv == MemoryOK /\ ArenaOK /\ ProcessOK

-------------------------------------------------------------------------------

LEMMA WithType ==
  ASSUME NEW S, NEW T, NEW f \in [S -> T], NEW x, NEW v \in T
  PROVE  With(f, x, v) \in [S \cup {x} -> T]
  BY DEF With

LEMMA WithoutType ==
  ASSUME NEW S, NEW T, NEW f \in [S -> T], NEW x
  PROVE  Without(f, x) \in [S \ {x} -> T]
  BY DEF Without

\* A counter stays a counter.
LEMMA Modulo == \A x \in Nat : x % W \in 0 .. W - 1
  BY WidthAssumption

LEMMA OccurrencesType ==
  ASSUME NEW o, NEW T, NEW list \in Seq(T)
  PROVE  Occurrences(o, list) \in Nat
  <1>1. IsFiniteSet(1 .. Len(list))
    BY FS_Interval, LenProperties
  <1>2. {i \in DOMAIN list : list[i] = o} \subseteq 1 .. Len(list)
    BY LenProperties
  <1> QED BY <1>1, <1>2, FS_Subset, FS_CardinalityType DEF Occurrences

LEMMA DownType ==
  ASSUME NEW c \in 0 .. W - 1, NEW n \in Nat
  PROVE  Down(c, n) \in 0 .. W - 1
  <1>1. n * (W - 1) \in Nat
    BY WidthAssumption
  <1>2. c + n * (W - 1) \in Nat
    BY <1>1
  <1> QED BY <1>2, Modulo DEF Down

\* Every way of making an object.
LEMMA NewObjectType ==
  ASSUME MemoryOK, NEW o \in Object, NEW s \in Nat,
         NEW w \in {"zero", "garbage", "buffer"}, NEW n \in Nat,
         NewObject(o, s, w, n)
  PROVE  MemoryOK'
  <1>1. Seen(s) \in 0 .. W - 1
    BY Modulo DEF Seen
  <1>2. size' \in [Allocated \cup {o} -> Nat]
    BY WithType DEF MemoryOK, NewObject
  <1>3. Allocated' = Allocated \cup {o}
    BY <1>2 DEF Allocated
  <1>4. count' \in [Allocated \cup {o} -> 0 .. W - 1]
    BY <1>1, WithType DEF MemoryOK, NewObject
  <1>5. length' \in [Allocated \cup {o} -> Nat]
    BY WithType DEF MemoryOK, NewObject
  <1>6. first' \in [Allocated \cup {o} -> {"zero", "garbage", "buffer"}]
    BY WithType DEF MemoryOK, NewObject
  <1>7. refs' \in [Allocated \cup {o} -> Nat]
    BY WithType DEF MemoryOK, NewObject
  <1> QED BY <1>2, <1>3, <1>4, <1>5, <1>6, <1>7 DEF MemoryOK

\* A drain counts down.
LEMMA DrainType ==
  ASSUME MemoryOK, ArenaOK, NEW p \in Live, Drain(p)
  PROVE  MemoryOK' /\ ProcessOK' = ProcessOK
  <1>1. held[p] \in Seq(Object \cup {Null})
    BY DEF ArenaOK
  <1>2. \A o \in Allocated : Down(count[o], Occurrences(o, held[p])) \in 0 .. W - 1
    BY <1>1, OccurrencesType, DownType DEF MemoryOK
  <1>3. count' \in [Allocated -> 0 .. W - 1]
    BY <1>2 DEF Drain
  <1>4. UNCHANGED <<size, length, first, refs, process>>
    BY DEF Drain
  <1> QED BY <1>3, <1>4 DEF MemoryOK, Allocated, ProcessOK

-------------------------------------------------------------------------------

\* A pointer more in the current pool, and room for it.
LEMMA PushArena ==
  ASSUME ArenaOK, ~NoCurrentPool, NEW ptr \in Object \cup {Null}, Push(ptr)
  PROVE  ArenaOK' /\ Live' = Live
  <1> DEFINE c == Current
  <1>1. c \in Live
    BY DEF NoCurrentPool, Current
  <1> HIDE DEF c
  <1>2. held[c] \in Seq(Object \cup {Null}) /\ Len(held[c]) \in Nat
    BY <1>1, LenProperties DEF ArenaOK
  <1>3. held' = [held EXCEPT ![c] = Append(@, ptr)]
    BY DEF Push, c
  <1>4. Append(held[c], ptr) \in Seq(Object \cup {Null})
        /\ Len(Append(held[c], ptr)) = Len(held[c]) + 1
    BY <1>2, AppendProperties
  <1>5. held' \in [Live -> Seq(Object \cup {Null})]
    BY <1>3, <1>4 DEF ArenaOK
  <1>6. Live' = Live
    BY <1>5 DEF Live
  <1>7. room' = IF Len(held[c]) = room[c] THEN [room EXCEPT ![c] = @ + Chunk]
                ELSE room
    BY DEF Push, Grown, c
  <1>8. room' \in [Live -> Nat]
    <2>1. room[c] + Chunk \in Nat
      BY <1>1, PoolsAssumption DEF ArenaOK
    <2> QED BY <1>7, <2>1 DEF ArenaOK
  <1>9. PoolsHaveRoom'
    <2> SUFFICES ASSUME NEW p \in Live PROVE Len(held'[p]) <= room'[p]
      BY <1>6 DEF PoolsHaveRoom
    <2>1. Len(held[p]) <= room[p] /\ room[p] \in Nat /\ room[c] \in Nat
      BY <1>1 DEF ArenaOK, PoolsHaveRoom
    <2>2. CASE p = c
      <3>1. Len(held'[p]) = Len(held[c]) + 1
        BY <1>3, <1>4, <2>2, <1>1 DEF ArenaOK
      <3>2. room'[p] = IF Len(held[c]) = room[c] THEN room[c] + Chunk ELSE room[c]
        BY <1>7, <2>2, <1>1 DEF ArenaOK
      <3> QED BY <1>2, <2>1, <2>2, <3>1, <3>2, PoolsAssumption
    <2>3. CASE p # c
      BY <1>3, <1>7, <2>1, <2>3 DEF ArenaOK
    <2> QED BY <2>2, <2>3
  <1>10. pools' = pools
    BY DEF Push
  <1> QED BY <1>5, <1>6, <1>8, <1>9, <1>10 DEF ArenaOK, CounterIsLivePools

LEMMA CreateArena ==
  ASSUME ArenaOK, NEW p \in Pool \ Live, PoolCreate(p)
  PROVE  ArenaOK' /\ Live' = Live \cup {p}
  <1>1. held' \in [Live \cup {p} -> Seq(Object \cup {Null})]
    BY WithType, EmptySeq DEF ArenaOK, PoolCreate
  <1>2. Live' = Live \cup {p}
    BY <1>1 DEF Live
  <1>3. room' \in [Live \cup {p} -> Nat]
    BY WithType, PoolsAssumption DEF ArenaOK, PoolCreate
  <1>4. pools' \in Seq(Pool) /\ Len(pools') = Len(pools) + 1 /\ Len(pools) \in Nat
    BY AppendProperties, LenProperties DEF ArenaOK, PoolCreate
  <1>5. Len(pools') <= MaxPools
    BY <1>4, PoolsAssumption DEF ArenaOK, PoolCreate, Full
  <1>6. IsFiniteSet(Live') /\ CounterIsLivePools'
    BY <1>2, <1>4, FS_AddElement DEF ArenaOK, CounterIsLivePools
  <1>7. PoolsHaveRoom'
    <2> SUFFICES ASSUME NEW q \in Live \cup {p} PROVE Len(held'[q]) <= room'[q]
      BY <1>2 DEF PoolsHaveRoom
    <2>1. CASE q = p
      <3>1. held'[q] = <<>> /\ room'[q] = Chunk
        BY <2>1 DEF PoolCreate, With
      <3> QED BY <3>1, PoolsAssumption, EmptySeq
    <2>2. CASE q # p
      <3>1. held'[q] = held[q] /\ room'[q] = room[q]
        BY <2>2 DEF PoolCreate, With, ArenaOK
      <3> QED BY <2>2, <3>1 DEF ArenaOK, PoolsHaveRoom
    <2> QED BY <2>1, <2>2
  <1> QED BY <1>1, <1>2, <1>3, <1>4, <1>5, <1>6, <1>7 DEF ArenaOK

\* What is left of a stack without its last element, and that element.
LEMMA FrontAndLast ==
  ASSUME NEW S, NEW s \in Seq(S), s # <<>>
  PROVE  /\ Front(s) \in Seq(S)
         /\ Len(Front(s)) = Len(s) - 1
         /\ \A i \in 1 .. Len(s) - 1 : Front(s)[i] = s[i]
         /\ Last(s) \in S
<1>1. Len(s) \in Nat \ {0}
  OBVIOUS
<1>2. Last(s) \in S
  BY <1>1 DEF Last
<1> DEFINE n == Len(s) - 1
<1>3. 1 \in 1 .. Len(s) + 1 /\ n \in 1 - 1 .. Len(s)
  BY <1>1
<1>4. /\ SubSeq(s, 1, n) \in Seq(S)
      /\ Len(SubSeq(s, 1, n)) = IF 1 <= n THEN n - 1 + 1 ELSE 0
      /\ \A i \in 1 .. n - 1 + 1 : SubSeq(s, 1, n)[i] = s[1 + i - 1]
  BY <1>3, SubSeqProperties
<1>5. Front(s) = SubSeq(s, 1, n)
  BY DEF Front
<1>6. (IF 1 <= n THEN n - 1 + 1 ELSE 0) = n
  <2>1. n \in Nat
    BY <1>1
  <2> HIDE DEF n
  <2>2. CASE 1 <= n
    BY <2>1, <2>2
  <2>3. CASE ~ (1 <= n)
    BY <2>1, <2>3
  <2> QED BY <2>2, <2>3
<1>7. \A i \in 1 .. n : i \in 1 .. n - 1 + 1 /\ 1 + i - 1 = i
  BY <1>1
<1> HIDE DEF n
<1>8. /\ Front(s) \in Seq(S) /\ Len(Front(s)) = n
      /\ \A i \in 1 .. n : Front(s)[i] = s[i]
  BY <1>4, <1>5, <1>6, <1>7
<1> QED BY <1>2, <1>8 DEF n

\* The stack has an element to give away: there is one for every pool.
LEMMA DestroyArena ==
  ASSUME ArenaOK, NEW p \in Live,
         held' = Without(held, p), room' = Without(room, p), pools' = Below(pools)
  PROVE  ArenaOK' /\ Live' = Live \ {p}
  <1>1. held' \in [Live \ {p} -> Seq(Object \cup {Null})]
    BY WithoutType DEF ArenaOK
  <1>2. Live' = Live \ {p}
    BY <1>1 DEF Live
  <1>3. room' \in [Live \ {p} -> Nat]
    BY WithoutType DEF ArenaOK
  <1>4. /\ IsFiniteSet(Live \ {p})
        /\ Cardinality(Live \ {p}) = Cardinality(Live) - 1
    BY FS_RemoveElement DEF ArenaOK
  <1>5. Cardinality(Live \ {p}) \in Nat
    BY <1>4, FS_CardinalityType
  <1>6. Len(pools) \in Nat /\ Len(pools) > 0 /\ pools # <<>>
    BY <1>4, <1>5, LenProperties, EmptySeq DEF ArenaOK, CounterIsLivePools
  <1>7. pools' \in Seq(Pool) /\ Len(pools') = Len(pools) - 1
    BY <1>6, FrontAndLast DEF ArenaOK, Below
  <1>8. Len(pools') <= MaxPools
    BY <1>6, <1>7, PoolsAssumption DEF ArenaOK
  <1>9. CounterIsLivePools'
    BY <1>2, <1>4, <1>7 DEF ArenaOK, CounterIsLivePools
  <1>10. PoolsHaveRoom'
    <2> SUFFICES ASSUME NEW q \in Live \ {p} PROVE Len(held'[q]) <= room'[q]
      BY <1>2 DEF PoolsHaveRoom
    <2>1. held'[q] = held[q] /\ room'[q] = room[q]
      BY DEF Without, ArenaOK
    <2> QED BY <2>1 DEF ArenaOK, PoolsHaveRoom
  <1> QED BY <1>1, <1>2, <1>3, <1>4, <1>7, <1>8, <1>9, <1>10 DEF ArenaOK

LEMMA StopInvariant ==
  ASSUME IInv, NEW how \in {"exited", "aborted", "undefined"}, Stop(how)
  PROVE  IInv'
  <1>1. MemoryOK'
    BY DEF IInv, Stop, memory, MemoryOK, Allocated
  <1>2. ArenaOK'
    BY DEF IInv, Stop, arena, ArenaOK, Live, CounterIsLivePools, PoolsHaveRoom
  <1> QED BY <1>1, <1>2 DEF Stop, IInv, ProcessOK

\* Nothing happens to the pools.
LEMMA ArenaStays ==
  ASSUME ArenaOK, UNCHANGED arena
  PROVE  ArenaOK'
  BY DEF arena, ArenaOK, Live, CounterIsLivePools, PoolsHaveRoom

\* Nothing happens to the objects but to the client's references.
LEMMA MemoryStays ==
  ASSUME MemoryOK, UNCHANGED memory, refs' \in [Allocated -> Nat]
  PROVE  MemoryOK'
  BY DEF memory, MemoryOK, Allocated

-------------------------------------------------------------------------------

LEMMA ObjectInvariant ==
  ASSUME IInv, NEW o \in Allocated,
         \/ Retain(o) \/ Release(o) \/ Write(o) \/ \E s \in Sizes : Realloc(o, s)
         \/ ReallocOfGarbage(o) \/ UseReallocated(o) \/ CopyFails(o)
  PROVE  IInv'
  <1> USE DEF IInv
  <1>1. CASE Retain(o)
    <2>1. (count[o] + 1) % W \in 0 .. W - 1
      <3>1. count[o] + 1 \in Nat
        BY WidthAssumption DEF MemoryOK
      <3> QED BY <3>1, Modulo
    <2>2. MemoryOK'
      BY <1>1, <2>1 DEF Retain, MemoryOK, Allocated
    <2>3. ArenaOK' /\ ProcessOK'
      BY <1>1, ArenaStays DEF Retain, ProcessOK
    <2> QED BY <2>2, <2>3
  <1>2. CASE Release(o)
    <2>1. CASE Stop("aborted")
      BY <2>1, StopInvariant
    <2>2. CASE /\ count' = [count EXCEPT ![o] = Down(@, 1)]
               /\ refs' = [refs EXCEPT ![o] = @ - 1]
               /\ UNCHANGED <<size, length, first, arena, process>>
      <3>1. Down(count[o], 1) \in 0 .. W - 1
        BY DownType DEF MemoryOK
      <3>2. refs[o] - 1 \in Nat
        BY <1>2 DEF Release, MemoryOK
      <3>3. MemoryOK'
        BY <2>2, <3>1, <3>2 DEF MemoryOK, Allocated
      <3>4. ArenaOK' /\ ProcessOK'
        BY <2>2, ArenaStays DEF ProcessOK
      <3> QED BY <3>3, <3>4
    <2> QED BY <1>2, <2>1, <2>2 DEF Release
  <1>3. CASE Write(o)
    <2>1. MemoryOK'
      BY <1>3 DEF Write, MemoryOK, Allocated
    <2>2. ArenaOK' /\ ProcessOK'
      BY <1>3, ArenaStays DEF Write, ProcessOK
    <2> QED BY <2>1, <2>2
  <1>4. ASSUME NEW s \in Sizes, Realloc(o, s) PROVE IInv'
    <2>1. MemoryOK'
      BY <1>4, SizesAssumption DEF Realloc, MemoryOK, Allocated
    <2>2. ArenaOK' /\ ProcessOK'
      BY <1>4, ArenaStays DEF Realloc, ProcessOK
    <2> QED BY <2>1, <2>2
  <1>5. CASE ReallocOfGarbage(o) \/ UseReallocated(o) \/ CopyFails(o)
    BY <1>5, StopInvariant DEF ReallocOfGarbage, UseReallocated, CopyFails
  <1> QED BY <1>1, <1>2, <1>3, <1>4, <1>5

\* New objects, and objects given to the current pool.
LEMMA GivingInvariant ==
  ASSUME IInv,
         \/ \E o \in Object \ Allocated, s \in Sizes : Alloc(o, s) \/ AutoAlloc(o, s)
         \/ \E o \in Allocated, o2 \in Object \ Allocated : Copy(o, o2)
         \/ \E o \in Allocated : Autorelease(o)
         \/ AutoAllocFails
  PROVE  IInv'
  <1> USE DEF IInv
  <1>1. ASSUME NEW o \in Object, NEW s \in Sizes, Alloc(o, s) PROVE IInv'
    <2>1. MemoryOK'
      BY <1>1, SizesAssumption, NewObjectType DEF Alloc
    <2>2. ArenaOK' /\ ProcessOK'
      BY <1>1, ArenaStays DEF Alloc, ProcessOK
    <2> QED BY <2>1, <2>2
  <1>2. ASSUME NEW o \in Object, NEW s \in Sizes, AutoAlloc(o, s) PROVE IInv'
    <2>1. MemoryOK'
      BY <1>2, SizesAssumption, NewObjectType DEF AutoAlloc
    <2>2. ArenaOK' /\ ProcessOK'
      BY <1>2, PushArena DEF AutoAlloc, Push, ProcessOK
    <2> QED BY <2>1, <2>2
  <1>3. ASSUME NEW o \in Allocated, NEW o2 \in Object, Copy(o, o2) PROVE IInv'
    <2>1. length[o] \in Nat
      BY DEF MemoryOK
    <2>2. PICK w \in {"zero", "garbage", "buffer"} : NewObject(o2, length[o], w, 1)
      BY <1>3 DEF Copy
    <2>3. MemoryOK'
      BY <2>1, <2>2, NewObjectType
    <2>4. ArenaOK' /\ ProcessOK'
      BY <1>3, ArenaStays DEF Copy, ProcessOK
    <2> QED BY <2>3, <2>4
  <1>4. ASSUME NEW o \in Allocated, Autorelease(o) PROVE IInv'
    <2>1. refs' \in [Allocated -> Nat]
      BY <1>4 DEF Autorelease, MemoryOK
    <2>2. MemoryOK'
      BY <1>4, <2>1, MemoryStays DEF Autorelease
    <2>3. o \in Object
      BY DEF MemoryOK
    <2>4. ArenaOK' /\ ProcessOK'
      BY <1>4, <2>3, PushArena DEF Autorelease, Push, ProcessOK
    <2> QED BY <2>2, <2>4
  <1>5. CASE AutoAllocFails
    <2>1. MemoryOK'
      BY <1>5, MemoryStays DEF AutoAllocFails, MemoryOK
    <2>2. ArenaOK' /\ ProcessOK'
      BY <1>5, PushArena DEF AutoAllocFails, Push, ProcessOK
    <2> QED BY <2>1, <2>2
  <1> QED BY <1>1, <1>2, <1>3, <1>4, <1>5
LEMMA PoolInvariant ==
  ASSUME IInv,
         \/ CannotGrow \/ NoPool \/ PoolDrain \/ CannotCreate
         \/ \E p \in Pool \ Live : PoolCreate(p)
         \/ \E p \in Live : PoolDestroy(p)
  PROVE  IInv'
  <1> USE DEF IInv
  <1>1. CASE CannotGrow \/ NoPool \/ CannotCreate
    BY <1>1, StopInvariant DEF CannotGrow, NoPool, CannotCreate
  <1>2. ASSUME NEW p \in Live, DrainFaults(p) PROVE IInv'
    BY <1>2, StopInvariant DEF DrainFaults
  <1>3. CASE PoolDrain
    <2> DEFINE c == Current
    <2>1. c \in Live
      BY <1>3 DEF PoolDrain, NoCurrentPool, Current
    <2>2. CASE DrainFaults(c)
      BY <1>2, <2>1, <2>2
    <2>3. ASSUME Drain(c), held' = Emptied(c), UNCHANGED <<pools, room>>
          PROVE  IInv'
      <3> HIDE DEF c
      <3>1. MemoryOK' /\ ProcessOK'
        BY <2>1, <2>3, DrainType
      <3>2. held' = [held EXCEPT ![c] = <<>>]
        BY <2>3 DEF Emptied
      <3>3. held' \in [Live -> Seq(Object \cup {Null})]
        BY <3>2, EmptySeq DEF ArenaOK
      <3>4. Live' = Live
        BY <3>3 DEF Live
      <3>5. \A p \in Live : held'[p] = held[p] \/ held'[p] = <<>>
        BY <3>2 DEF ArenaOK
      <3>6. PoolsHaveRoom'
        BY <2>3, <3>4, <3>5, EmptySeq DEF ArenaOK, PoolsHaveRoom
      <3>7. ArenaOK'
        BY <2>3, <3>3, <3>4, <3>6 DEF ArenaOK, CounterIsLivePools
      <3> QED BY <3>1, <3>7
    <2> QED BY <1>3, <2>2, <2>3 DEF PoolDrain
  <1>4. ASSUME NEW p \in Pool \ Live, PoolCreate(p) PROVE IInv'
    <2>1. ArenaOK'
      BY <1>4, CreateArena
    <2>2. MemoryOK' /\ ProcessOK'
      BY <1>4, MemoryStays DEF PoolCreate, MemoryOK, ProcessOK
    <2> QED BY <2>1, <2>2
  <1>5. ASSUME NEW p \in Live, PoolDestroy(p) PROVE IInv'
    <2>1. CASE DrainFaults(p)
      BY <1>2, <2>1
    <2>2. ASSUME Drain(p), held' = Without(held, p), room' = Without(room, p),
                 pools' = Below(pools)
          PROVE  IInv'
      BY <2>2, DestroyArena, DrainType
    <2> QED BY <1>5, <2>1, <2>2 DEF PoolDestroy
  <1> QED BY <1>1, <1>3, <1>4, <1>5

-------------------------------------------------------------------------------

LEMMA InitInvariant == Init => IInv
  <1> SUFFICES ASSUME Init PROVE IInv
    OBVIOUS
  <1>1. Allocated = {} /\ Live = {}
    BY DEF Init, Allocated, Live
  <1>2. MemoryOK
    BY <1>1 DEF Init, MemoryOK, Allocated
  <1>3. IsFiniteSet(Live) /\ Cardinality(Live) = 0 /\ Len(pools) = 0
    BY <1>1, FS_EmptySet DEF Init
  <1>4. ArenaOK
    BY <1>1, <1>3, PoolsAssumption
    DEF Init, ArenaOK, Live, CounterIsLivePools, PoolsHaveRoom
  <1> QED BY <1>2, <1>4 DEF Init, IInv, ProcessOK

\* The invariant does not need an order of destroying pools.
LEMMA NextInvariant == IInv /\ [Next]_vars => IInv'
  <1> SUFFICES ASSUME IInv, [Next]_vars PROVE IInv'
    OBVIOUS
  <1>1. CASE UNCHANGED vars
    <2>1. MemoryOK'
      BY <1>1 DEF vars, memory, IInv, MemoryOK, Allocated
    <2>2. UNCHANGED arena /\ process' = process
      BY <1>1 DEF vars, arena
    <2>3. ArenaOK' /\ ProcessOK'
      BY <2>2, ArenaStays DEF IInv, ProcessOK
    <2> QED BY <2>1, <2>3 DEF IInv
  <1>2. CASE Use
    <2>1. CASE \E o \in Object \ Allocated, z \in Sizes : Alloc(o, z) \/ AutoAlloc(o, z)
      BY <2>1, GivingInvariant
    <2>2. ASSUME NEW o \in Allocated,
                 \/ Retain(o) \/ Release(o) \/ Write(o)
                 \/ ReallocOfGarbage(o) \/ UseReallocated(o) \/ CopyFails(o)
                 \/ \E z \in Sizes : Realloc(o, z)
          PROVE  IInv'
      BY <2>2, ObjectInvariant
    <2>3. ASSUME NEW o \in Allocated,
                 Autorelease(o) \/ \E o2 \in Object \ Allocated : Copy(o, o2)
          PROVE  IInv'
      BY <2>3, GivingInvariant
    <2>4. CASE AutoAllocFails
      BY <2>4, GivingInvariant
    <2>5. CASE \/ CannotGrow \/ NoPool \/ PoolDrain \/ CannotCreate
               \/ \E p \in Pool \ Live : PoolCreate(p)
      BY <2>5, PoolInvariant
    <2> QED BY <1>2, <2>1, <2>2, <2>3, <2>4, <2>5 DEF Use
  <1>3. ASSUME NEW p \in Live, PoolDestroy(p) PROVE IInv'
    BY <1>3, PoolInvariant
  <1> QED BY <1>1, <1>2, <1>3 DEF Next

LEMMA Invariant == Spec => []IInv
  BY InitInvariant, NextInvariant, PTL DEF Spec

\* Type correctness, for pools destroyed in any order: no counter leaves its
\* width, and there is always a place in the stack for one less.
THEOREM TypeCorrect == Spec => []TypeOK
  <1>1. IInv => TypeOK
    BY DEF IInv, MemoryOK, ArenaOK, ProcessOK, TypeOK
  <1> QED BY <1>1, Invariant, PTL

\* __eg_ar_pools_num counts the pools, for any number and order of them, and no array
\* of a pool overflows, for any chunk it grows by.
THEOREM ArenaCorrect == Spec => []ArenaIsRight
  <1>1. IInv => ArenaIsRight
    BY DEF IInv, ArenaOK, ArenaIsRight
  <1> QED BY <1>1, Invariant, PTL

-------------------------------------------------------------------------------

\* Operations that leave the stack and the set of pools alone.
LEMMA StackStays ==
  ASSUME IInv, Use, \A p \in Pool \ Live : ~PoolCreate(p)
  PROVE  pools' = pools /\ Live' = Live
  <1>1. ASSUME NEW how, Stop(how) PROVE UNCHANGED arena
    BY <1>1 DEF Stop
  <1>2. ASSUME UNCHANGED arena PROVE pools' = pools /\ Live' = Live
    BY <1>2 DEF arena, Live
  <1>3. ASSUME Push(Null) \/ \E o \in Object : Push(o), ~NoCurrentPool
        PROVE  pools' = pools /\ Live' = Live
    BY <1>3, PushArena DEF IInv, Push
  <1>4. CASE \E o \in Object \ Allocated, s \in Sizes : Alloc(o, s) \/ AutoAlloc(o, s)
    BY <1>2, <1>3, <1>4 DEF Alloc, AutoAlloc
  <1>5. ASSUME NEW o \in Allocated,
               \/ Retain(o) \/ Release(o) \/ Write(o)
               \/ ReallocOfGarbage(o) \/ UseReallocated(o) \/ CopyFails(o)
               \/ \E s \in Sizes : Realloc(o, s)
               \/ \E o2 \in Object \ Allocated : Copy(o, o2)
        PROVE  pools' = pools /\ Live' = Live
    BY <1>1, <1>2, <1>5 DEF Retain, Release, Write, ReallocOfGarbage,
       UseReallocated, CopyFails, Realloc, Copy
  <1>6. ASSUME NEW o \in Allocated, Autorelease(o)
        PROVE  pools' = pools /\ Live' = Live
    BY <1>3, <1>6 DEF Autorelease, IInv, MemoryOK
  <1>7. CASE AutoAllocFails
    BY <1>3, <1>7 DEF AutoAllocFails
  <1>8. CASE CannotGrow \/ NoPool \/ CannotCreate
    BY <1>1, <1>2, <1>8 DEF CannotGrow, NoPool, CannotCreate
  <1>9. CASE PoolDrain
    <2>1. CASE DrainFaults(Current)
      BY <1>1, <1>2, <2>1 DEF DrainFaults
    <2>2. CASE held' = Emptied(Current) /\ UNCHANGED <<pools, room>>
      <3>1. DOMAIN Emptied(Current) = Live
        BY DEF Emptied, Live
      <3> QED BY <2>2, <3>1 DEF Live
    <2> QED BY <1>9, <2>1, <2>2 DEF PoolDrain
  <1> QED BY <1>4, <1>5, <1>6, <1>7, <1>8, <1>9 DEF Use

LEMMA NestedStep ==
  ASSUME IInv, PoolsAreNested, [NestedNext]_vars
  PROVE  PoolsAreNested'
  <1> USE DEF IInv, PoolsAreNested
  <1>1. CASE UNCHANGED vars \/ (Use /\ \A p \in Pool \ Live : ~PoolCreate(p))
    <2>1. pools' = pools /\ Live' = Live
      BY <1>1, StackStays DEF vars, Live
    <2> QED BY <2>1
  <1>2. ASSUME NEW p \in Pool \ Live, PoolCreate(p) PROVE PoolsAreNested'
    <2>1. pools' = Append(pools, p) /\ Live' = Live \cup {p}
      BY <1>2, CreateArena DEF PoolCreate
    <2>2. /\ DOMAIN pools = 1 .. Len(pools) /\ Len(pools) \in Nat
          /\ DOMAIN pools' = 1 .. Len(pools) + 1
          /\ \A i \in 1 .. Len(pools) : pools'[i] = pools[i]
          /\ pools'[Len(pools) + 1] = p
      BY <2>1, AppendProperties, LenProperties DEF ArenaOK
    <2>3. \A i \in DOMAIN pools' : i \in DOMAIN pools \/ i = Len(pools) + 1
      BY <2>2
    <2> QED BY <2>1, <2>2, <2>3
  <1>3. ASSUME NEW p \in Live, p = Last(pools), PoolDestroy(p) PROVE PoolsAreNested'
    <2>1. CASE DrainFaults(p)
      <3>1. pools' = pools /\ Live' = Live
        BY <2>1 DEF DrainFaults, Stop, arena, Live
      <3> QED BY <3>1
    <2>2. ASSUME held' = Without(held, p), room' = Without(room, p),
                 pools' = Below(pools)
          PROVE  PoolsAreNested'
      <3>1. Live' = Live \ {p}
        BY <2>2, DestroyArena
      <3>2. pools # <<>>
        <4>1. Cardinality(Live) # 0
          BY FS_EmptySet DEF ArenaOK
        <4> QED BY <4>1, EmptySeq DEF ArenaOK, CounterIsLivePools
      <3>3. /\ Len(pools) \in Nat /\ DOMAIN pools = 1 .. Len(pools)
            /\ pools[Len(pools)] = p /\ Len(pools) > 0
        BY <1>3, <3>2, LenProperties, EmptySeq DEF ArenaOK, Last
      <3>4. /\ DOMAIN pools' = 1 .. Len(pools) - 1
            /\ \A i \in 1 .. Len(pools) - 1 : pools'[i] = pools[i]
        BY <2>2, <3>2, FrontAndLast, LenProperties DEF ArenaOK, Below
      <3>5. \A i \in DOMAIN pools' : i \in DOMAIN pools /\ i # Len(pools)
        BY <3>3, <3>4
      <3>6. Len(pools) \in DOMAIN pools
        BY <3>3
      <3> QED BY <3>1, <3>3, <3>4, <3>5, <3>6
    <2> QED BY <1>3, <2>1, <2>2 DEF PoolDestroy
  <1> QED BY <1>1, <1>2, <1>3 DEF NestedNext

\* Where pools are destroyed in the reverse order, the current pool is one that
\* exists, for any number of pools created and destroyed.
THEOREM NestedPools == NestedSpec => []PoolsAreNested
  <1>1. Init => IInv /\ PoolsAreNested
    BY InitInvariant DEF Init, PoolsAreNested
  <1>2. [NestedNext]_vars => [Next]_vars
    BY DEF NestedNext, Next
  <1>3. IInv /\ PoolsAreNested /\ [NestedNext]_vars => (IInv /\ PoolsAreNested)'
    BY <1>2, NextInvariant, NestedStep
  <1> QED BY <1>1, <1>3, PTL DEF NestedSpec

-------------------------------------------------------------------------------

\* Arithmetic of a counter of width W.
LEMMA SmallMultiple ==
  ASSUME NEW d \in Int, d * W < W, 0 - W < d * W
  PROVE  d = 0
  <1>1. CASE d >= 1
    <2>1. (d - 1) * W >= 0
      BY <1>1, WidthAssumption
    <2>2. (d - 1) * W = d * W - W
      BY WidthAssumption
    <2> QED BY <2>1, <2>2, WidthAssumption
  <1>2. CASE d <= 0 - 1
    <2>1. (0 - 1 - d) * W >= 0
      BY <1>2, WidthAssumption
    <2>2. (0 - 1 - d) * W = 0 - W - d * W
      BY WidthAssumption
    <2> QED BY <2>1, <2>2, WidthAssumption
  <1> QED BY <1>1, <1>2

LEMMA Division ==
  ASSUME NEW x \in Nat
  PROVE  x = (x \div W) * W + (x % W) /\ x \div W \in Int /\ x % W \in 0 .. W - 1
  BY WidthAssumption

\* There is one rest only.
LEMMA RestIs ==
  ASSUME NEW x \in Nat, NEW q \in Int, NEW r \in 0 .. W - 1, x = q * W + r
  PROVE  x % W = r
  <1> DEFINE k == x \div W
             m == x % W
  <1>1. x = k * W + m /\ k \in Int /\ m \in 0 .. W - 1
    BY Division
  <1> HIDE DEF k, m
  <1>2. (q - k) * W = q * W - k * W
    BY <1>1, WidthAssumption
  <1>3. (q - k) * W = m - r
    <2>1. q * W \in Int /\ k * W \in Int
      BY <1>1, WidthAssumption
    <2> QED BY <1>1, <1>2, <2>1
  <1>4. m - r < W /\ 0 - W < m - r
    BY <1>1, WidthAssumption
  <1>5. q - k = 0
    BY <1>1, <1>3, <1>4, SmallMultiple
  <1>6. m = r
    <2>1. 0 * W = 0
      BY WidthAssumption
    <2> QED BY <1>1, <1>3, <1>5, <2>1
  <1> QED BY <1>6 DEF m

\* Up, and what is in a counter when it has gone around.
LEMMA CountsUp ==
  ASSUME NEW x \in Nat, NEW n \in Nat
  PROVE  ((x % W) + n) % W = (x + n) % W
  <1> DEFINE k == x \div W
             m == x % W
             j == (m + n) \div W
             r == (m + n) % W
  <1>1. x = k * W + m /\ k \in Int /\ m \in 0 .. W - 1
    BY Division
  <1> HIDE DEF k, m
  <1>2. m + n \in Nat
    BY <1>1, WidthAssumption
  <1>3. m + n = j * W + r /\ j \in Int /\ r \in 0 .. W - 1
    BY <1>2, Division
  <1> HIDE DEF j, r
  <1>4. (k + j) * W = k * W + j * W /\ k * W \in Int /\ j * W \in Int
    BY <1>1, <1>3, WidthAssumption
  <1>5. x + n = (k + j) * W + r
    BY <1>1, <1>3, <1>4
  <1>6. (x + n) % W = r
    BY <1>1, <1>3, <1>5, RestIs
  <1> QED BY <1>6 DEF m, r

\* Down, without going around.
LEMMA CountsDown ==
  ASSUME NEW x \in Nat, NEW n \in Nat, n <= x
  PROVE  Down(x % W, n) = (x - n) % W
  <1> DEFINE k == x \div W
             m == x % W
             j == (x - n) \div W
             r == (x - n) % W
  <1>1. x = k * W + m /\ k \in Int /\ m \in 0 .. W - 1
    BY Division
  <1>2. x - n \in Nat
    OBVIOUS
  <1>3. x - n = j * W + r /\ j \in Int /\ r \in 0 .. W - 1
    BY <1>2, Division
  <1> HIDE DEF k, m, j, r
  <1>4. /\ n * (W - 1) = n * W - n /\ (j + n - k) * W = j * W + n * W - k * W
        /\ k * W \in Int /\ j * W \in Int /\ n * W \in Nat
    BY <1>1, <1>3, WidthAssumption
  <1>5. m + n * (W - 1) = (j + n - k) * W + r
    BY <1>1, <1>3, <1>4
  <1>6. n * (W - 1) \in Nat
    BY WidthAssumption
  <1>7. m + n * (W - 1) \in Nat
    BY <1>1, <1>6, WidthAssumption
  <1>8. (m + n * (W - 1)) % W = r
    BY <1>1, <1>3, <1>5, <1>7, RestIs
  <1> QED BY <1>8 DEF m, r, Down

-------------------------------------------------------------------------------

\* What is in the pools but for one of them.
InOthers(p, o) == UNION {{q} \X {i \in DOMAIN held[q] : held[q][i] = o} : q \in Live \ {p}}
OthersHold(p, o) == Cardinality(InOthers(p, o))

\* The pools hold what one of them does, and the others do.
LEMMA PoolsHoldBoth ==
  ASSUME ArenaOK, NEW p \in Live, NEW o
  PROVE  /\ OthersHold(p, o) \in Nat /\ Occurrences(o, held[p]) \in Nat
         /\ PoolsHold(o) = OthersHold(p, o) + Occurrences(o, held[p])
  <1> DEFINE At(q) == {i \in DOMAIN held[q] : held[q][i] = o}
             Pairs(q) == {q} \X At(q)
             f == [q \in Live \ {p} |-> Pairs(q)]
             all == {Pairs(q) : q \in Live \ {p}}
  <1>1. \A q \in Live : IsFiniteSet(At(q))
    <2> TAKE q \in Live
    <2>1. held[q] \in Seq(Object \cup {Null})
      BY DEF ArenaOK
    <2>2. Len(held[q]) \in Nat /\ DOMAIN held[q] = 1 .. Len(held[q])
      BY <2>1, LenProperties
    <2>3. IsFiniteSet(1 .. Len(held[q]))
      BY <2>2, FS_Interval
    <2> QED BY <2>2, <2>3, FS_Subset
  <1>2. \A q \in Live : IsFiniteSet(Pairs(q)) /\ Cardinality(Pairs(q)) = Cardinality(At(q))
    <2> TAKE q \in Live
    <2>1. IsFiniteSet({q}) /\ Cardinality({q}) = 1 /\ Cardinality(At(q)) \in Nat
      BY <1>1, FS_Singleton, FS_CardinalityType
    <2> HIDE DEF At
    <2>2. IsFiniteSet({q} \X At(q)) /\ Cardinality({q} \X At(q)) = 1 * Cardinality(At(q))
      BY <1>1, <2>1, FS_Product
    <2> QED BY <2>1, <2>2
  <1>3. IsFiniteSet(all)
    <2>1. f \in Surjection(Live \ {p}, all)
      BY DEF Surjection
    <2>2. IsFiniteSet(Live \ {p})
      BY FS_Subset DEF ArenaOK
    <2> HIDE DEF f, all
    <2> QED BY <2>1, <2>2, FS_Surjection
  <1>4. IsFiniteSet(InOthers(p, o))
    <2>1. \A T \in all : IsFiniteSet(T)
      BY <1>2
    <2>2. InOthers(p, o) = UNION all
      BY DEF InOthers
    <2> HIDE DEF all
    <2> QED BY <1>3, <2>1, <2>2, FS_UNION
  <1>5. InPools(o) = InOthers(p, o) \cup Pairs(p) /\ InOthers(p, o) \cap Pairs(p) = {}
    BY DEF InPools, InOthers
  <1>6. Cardinality(InOthers(p, o) \cap Pairs(p)) = 0
    BY <1>5, FS_EmptySet
  <1>7. Cardinality(InOthers(p, o)) \in Nat /\ Cardinality(Pairs(p)) \in Nat
    BY <1>2, <1>4, FS_CardinalityType
  <1>8. Cardinality(InPools(o)) = Cardinality(InOthers(p, o)) + Cardinality(Pairs(p))
    <2> DEFINE own == Pairs(p)
    <2>1. IsFiniteSet(own)
      BY <1>2
    <2> HIDE DEF own
    <2>2. Cardinality(InOthers(p, o) \cup own) =
            Cardinality(InOthers(p, o)) + Cardinality(own) - Cardinality(InOthers(p, o) \cap own)
      BY <1>4, <2>1, FS_Union
    <2> QED BY <1>5, <1>6, <1>7, <2>2 DEF own
  <1>9. Occurrences(o, held[p]) = Cardinality(At(p))
    BY DEF Occurrences
  <1> QED BY <1>2, <1>7, <1>8, <1>9 DEF PoolsHold, OthersHold

\* The same, of the pools after a step too.
BothHold ==
  \A p \in Live : \A o :
    /\ OthersHold(p, o) \in Nat /\ Occurrences(o, held[p]) \in Nat
    /\ PoolsHold(o) = OthersHold(p, o) + Occurrences(o, held[p])

LEMMA BothAlwaysHold == ArenaOK => BothHold
  BY PoolsHoldBoth DEF BothHold

\* A pointer more, or none.
LEMMA OccurrencesAppend ==
  ASSUME NEW T, NEW list \in Seq(T), NEW x \in T, NEW o
  PROVE  Occurrences(o, Append(list, x)) = Occurrences(o, list) + IF x = o THEN 1 ELSE 0
  <1> DEFINE S == {i \in DOMAIN list : list[i] = o}
             n == Len(list) + 1
  <1>1. /\ Len(list) \in Nat /\ DOMAIN list = 1 .. Len(list)
        /\ DOMAIN Append(list, x) = 1 .. n /\ Append(list, x)[n] = x
        /\ \A i \in 1 .. Len(list) : Append(list, x)[i] = list[i]
    BY AppendProperties, LenProperties
  <1>2. {i \in DOMAIN Append(list, x) : Append(list, x)[i] = o} = S \cup IF x = o THEN {n} ELSE {}
    BY <1>1
  <1>3. IsFiniteSet(S) /\ n \notin S
    <2>1. IsFiniteSet(1 .. Len(list)) /\ S \subseteq 1 .. Len(list)
      BY <1>1, FS_Interval
    <2> QED BY <1>1, <2>1, FS_Subset
  <1>4. Cardinality(S \cup {n}) = Cardinality(S) + 1 /\ Cardinality(S) \in Nat
    <2> HIDE DEF S, n
    <2> QED BY <1>3, FS_AddElement, FS_CardinalityType
  <1>5. CASE x = o
    BY <1>2, <1>4, <1>5 DEF Occurrences
  <1>6. CASE x # o
    <2>1. {i \in DOMAIN Append(list, x) : Append(list, x)[i] = o} = S
      BY <1>2, <1>6
    <2>2. Occurrences(o, Append(list, x)) = Occurrences(o, list)
      BY <2>1 DEF Occurrences
    <2>3. Occurrences(o, list) \in Nat
      BY <1>4 DEF Occurrences
    <2> QED BY <1>6, <2>2, <2>3
  <1> QED BY <1>5, <1>6

LEMMA OccurrencesEmpty ==
  ASSUME NEW o
  PROVE  Occurrences(o, <<>>) = 0
  <1>1. {i \in DOMAIN <<>> : <<>>[i] = o} = {}
    OBVIOUS
  <1> QED BY <1>1, FS_EmptySet DEF Occurrences

LEMMA AroundOnce ==
  ASSUME NEW x \in Nat
  PROVE  (x + W) % W = x % W
  <1> DEFINE k == x \div W
             m == x % W
  <1>1. x = k * W + m /\ k \in Int /\ m \in 0 .. W - 1
    BY Division
  <1> HIDE DEF k, m
  <1>2. (k + 1) * W = k * W + W /\ k * W \in Int
    BY <1>1, WidthAssumption
  <1>3. x + W = (k + 1) * W + m /\ x + W \in Nat
    BY <1>1, <1>2, WidthAssumption
  <1>4. (x + W) % W = m
    BY <1>1, <1>3, RestIs
  <1> QED BY <1>4 DEF m

-------------------------------------------------------------------------------

\* A pool holds what has been allocated, or NULL.
HeldAreAllocated ==
  \A p \in Live : \A i \in DOMAIN held[p] : held[p][i] \in Allocated \cup {Null}

CountIInv == IInv /\ CountFollowsReferences /\ HeldAreAllocated

LEMMA PoolsHoldType ==
  ASSUME ArenaOK, NEW o
  PROVE  PoolsHold(o) \in Nat
  <1>1. CASE Live = {}
    <2>1. InPools(o) = {}
      BY <1>1 DEF InPools
    <2> QED BY <2>1, FS_EmptySet DEF PoolsHold
  <1>2. CASE Live # {}
    <2>1. PICK p \in Live : TRUE
      BY <1>2
    <2> QED BY <2>1, PoolsHoldBoth
  <1> QED BY <1>1, <1>2

\* Who gets the address of an object is in no pool yet.
LEMMA NewIsNotHeld ==
  ASSUME CountIInv, NEW o \in Object \ Allocated
  PROVE  PoolsHold(o) = 0
  <1>1. o # Null
    BY NullAssumption
  <1>2. InPools(o) = {}
    BY <1>1 DEF InPools, CountIInv, HeldAreAllocated
  <1> QED BY <1>2, FS_EmptySet DEF PoolsHold

\* What the invariant says, when the number of references to an object is known.
LEMMA CountIs ==
  ASSUME CountIInv, NEW o \in Allocated
  PROVE  /\ size[o] \in Nat /\ refs[o] \in Nat /\ PoolsHold(o) \in Nat
         /\ size[o] + refs[o] + PoolsHold(o) + W - 1 \in Nat
         /\ count[o] = (size[o] + refs[o] + PoolsHold(o) + W - 1) % W
  <1>1. size[o] \in Nat /\ refs[o] \in Nat /\ PoolsHold(o) \in Nat
    BY PoolsHoldType DEF CountIInv, IInv, MemoryOK
  <1>2. size[o] + refs[o] + PoolsHold(o) + W - 1 \in Nat
    BY <1>1, WidthAssumption
  <1> QED BY <1>1, <1>2 DEF CountIInv, CountFollowsReferences

\* Steps that leave the pools alone.
LEMMA PoolsKeep ==
  ASSUME UNCHANGED held
  PROVE  Live' = Live /\ \A o : PoolsHold(o)' = PoolsHold(o)
  <1>1. Live' = Live
    BY DEF Live
  <1>2. ASSUME NEW o PROVE InPools(o)' = InPools(o)
    BY <1>1 DEF InPools
  <1> QED BY <1>1, <1>2 DEF PoolsHold

\* A pointer more in the current pool is one reference more.
LEMMA PushHolds ==
  ASSUME CountIInv, ~NoCurrentPool, NEW ptr \in Object \cup {Null}, Push(ptr)
  PROVE  /\ Live' = Live
         /\ \A o : PoolsHold(o)' = PoolsHold(o) + IF ptr = o THEN 1 ELSE 0
         /\ \A p \in Live : \A i \in DOMAIN held'[p] : held'[p][i] \in Allocated \cup {Null, ptr}
  <1> DEFINE cur == Current
  <1>1. cur \in Live /\ ArenaOK
    BY DEF NoCurrentPool, Current, CountIInv, IInv
  <1>2. Live' = Live /\ ArenaOK'
    BY <1>1, PushArena
  <1>3. held' = [held EXCEPT ![cur] = Append(@, ptr)]
    BY DEF Push
  <1> HIDE DEF cur
  <1>4. held[cur] \in Seq(Object \cup {Null})
    BY <1>1 DEF ArenaOK
  <1>5. held'[cur] = Append(held[cur], ptr) /\ \A p \in Live : p # cur => held'[p] = held[p]
    BY <1>1, <1>3 DEF ArenaOK
  <1>6. ASSUME NEW o PROVE PoolsHold(o)' = PoolsHold(o) + IF ptr = o THEN 1 ELSE 0
    <2>1. PICK now : now = held'[cur] /\ now = Append(held[cur], ptr)
      BY <1>5
    <2>2. OthersHold(cur, o) \in Nat /\ Occurrences(o, held[cur]) \in Nat
          /\ PoolsHold(o) = OthersHold(cur, o) + Occurrences(o, held[cur])
      BY <1>1, PoolsHoldBoth
    <2>3. Occurrences(o, now) = Occurrences(o, held[cur]) + IF ptr = o THEN 1 ELSE 0
      BY <1>4, <2>1, OccurrencesAppend
    <2>4. PICK p \in Live : p = cur
      BY <1>1
    <2>5. BothHold'
      BY <1>2, BothAlwaysHold, PTL
    <2>6. PoolsHold(o)' = OthersHold(p, o)' + Occurrences(o, now)
      <3>1. p \in Live'
        BY <1>2
      <3>2. PoolsHold(o)' = OthersHold(p, o)' + Occurrences(o, held'[p])
        BY <3>1, <2>5 DEF BothHold, Occurrences
      <3>3. now = held'[p]
        BY <2>1, <2>4
      <3> QED BY <3>2, <3>3
    <2>7. OthersHold(p, o)' = OthersHold(p, o)
      <3>1. InOthers(p, o)' = InOthers(p, o)
        BY <1>2, <1>5, <2>4 DEF InOthers
      <3> QED BY <3>1 DEF OthersHold
    <2>8. (IF ptr = o THEN 1 ELSE 0) \in Nat
      OBVIOUS
    <2> QED BY <2>2, <2>3, <2>4, <2>6, <2>7, <2>8
  <1>7. ASSUME NEW p \in Live, NEW i \in DOMAIN held'[p]
        PROVE  held'[p][i] \in Allocated \cup {Null, ptr}
    <2>1. CASE p # cur
      BY <1>5, <2>1 DEF CountIInv, HeldAreAllocated
    <2>2. CASE p = cur
      <3>1. /\ DOMAIN held[cur] = 1 .. Len(held[cur]) /\ Len(held[cur]) \in Nat
            /\ DOMAIN Append(held[cur], ptr) = 1 .. Len(held[cur]) + 1
            /\ Append(held[cur], ptr)[Len(held[cur]) + 1] = ptr
            /\ \A k \in 1 .. Len(held[cur]) : Append(held[cur], ptr)[k] = held[cur][k]
        BY <1>4, AppendProperties, LenProperties
      <3>2. i \in DOMAIN held[cur] \/ i = Len(held[cur]) + 1
        BY <1>5, <2>2, <3>1
      <3> QED BY <1>1, <1>5, <2>2, <3>1, <3>2 DEF CountIInv, HeldAreAllocated
    <2> QED BY <2>1, <2>2
  <1> QED BY <1>2, <1>6, <1>7

\* A pool that is drained or destroyed has its references no more.
LEMMA OnlyOthersHold ==
  ASSUME CountIInv, ArenaOK', NEW p \in Live,
         \/ held' = [held EXCEPT ![p] = <<>>]
         \/ held' = Without(held, p)
  PROVE  /\ \A q \in Live' : held'[q] = <<>> \/ (q \in Live /\ held'[q] = held[q])
         /\ \A o : PoolsHold(o)' = PoolsHold(o) - Occurrences(o, held[p])
  <1>1. ArenaOK
    BY DEF CountIInv, IInv
  <1>2. CASE held' = [held EXCEPT ![p] = <<>>]
    <2>1. Live' = Live /\ held'[p] = <<>> /\ \A q \in Live : q # p => held'[q] = held[q]
      BY <1>1, <1>2 DEF ArenaOK, Live
    <2>2. ASSUME NEW o PROVE PoolsHold(o)' = PoolsHold(o) - Occurrences(o, held[p])
      <3>1. InOthers(p, o)' = InOthers(p, o)
        BY <2>1 DEF InOthers
      <3>2. OthersHold(p, o)' = OthersHold(p, o)
        BY <3>1 DEF OthersHold
      <3>5. BothHold'
        BY BothAlwaysHold, PTL
      <3>3. PoolsHold(o)' = OthersHold(p, o)' + Occurrences(o, held'[p])
        BY <2>1, <3>5 DEF BothHold, Occurrences
      <3>4. Occurrences(o, held'[p]) = 0
        BY <2>1, OccurrencesEmpty
      <3> QED BY <1>1, <3>2, <3>3, <3>4, PoolsHoldBoth
    <2> QED BY <2>1, <2>2
  <1>3. CASE held' = Without(held, p)
    <2>1. Live' = Live \ {p} /\ \A q \in Live \ {p} : held'[q] = held[q]
      BY <1>3 DEF Without, Live
    <2>2. ASSUME NEW o PROVE PoolsHold(o)' = PoolsHold(o) - Occurrences(o, held[p])
      <3>1. InPools(o)' = InOthers(p, o)
        BY <2>1 DEF InPools, InOthers
      <3>2. PoolsHold(o)' = OthersHold(p, o)
        BY <3>1 DEF PoolsHold, OthersHold
      <3> QED BY <1>1, <3>2, PoolsHoldBoth
    <2> QED BY <2>1, <2>2
  <1> QED BY <1>2, <1>3

-------------------------------------------------------------------------------

\* What has to be shown of a step.
Counted == CountFollowsReferences /\ HeldAreAllocated

\* Steps that count nothing.
LEMMA NothingCounted ==
  ASSUME CountIInv, UNCHANGED <<size, count, refs, held>>
  PROVE  Counted'
  <1>1. Live' = Live /\ (\A o : PoolsHold(o)' = PoolsHold(o)) /\ Allocated' = Allocated
    BY PoolsKeep DEF Allocated
  <1>2. CountFollowsReferences'
    BY <1>1 DEF CountIInv, CountFollowsReferences
  <1>3. HeldAreAllocated'
    BY <1>1 DEF CountIInv, HeldAreAllocated
  <1> QED BY <1>2, <1>3 DEF Counted

\* One more, and one less.
LEMMA RetainCounted ==
  ASSUME CountIInv, NEW o \in Allocated, Retain(o)
  PROVE  Counted'
  <1>1. /\ Live' = Live /\ (\A q : PoolsHold(q)' = PoolsHold(q)) /\ Allocated' = Allocated
        /\ held' = held
    BY PoolsKeep DEF Allocated, Retain, arena
  <1>2. ASSUME NEW q \in Allocated
        PROVE  count'[q] = (size'[q] + refs'[q] + PoolsHold(q)' + W - 1) % W
    <2> DEFINE x == size[q] + refs[q] + PoolsHold(q) + W - 1
    <2>1. /\ size[q] \in Nat /\ refs[q] \in Nat /\ PoolsHold(q) \in Nat
          /\ x \in Nat /\ count[q] = x % W
      BY CountIs
    <2>2. CASE q = o
      <3>1. count'[q] = (count[q] + 1) % W /\ refs'[q] = refs[q] + 1 /\ size' = size
        BY <2>2 DEF Retain, CountIInv, IInv, MemoryOK
      <3>2. size[q] + (refs[q] + 1) + PoolsHold(q) + W - 1 = x + 1
        BY <2>1, WidthAssumption
      <3> HIDE DEF x
      <3>3. ((x % W) + 1) % W = (x + 1) % W
        BY <2>1, CountsUp
      <3> QED BY <1>1, <2>1, <3>1, <3>2, <3>3
    <2>3. CASE q # o
      BY <1>1, <2>1, <2>3 DEF Retain, CountIInv, IInv, MemoryOK
    <2> QED BY <2>2, <2>3
  <1>3. CountFollowsReferences'
    BY <1>1, <1>2 DEF CountFollowsReferences
  <1>4. HeldAreAllocated'
    BY <1>1 DEF CountIInv, HeldAreAllocated
  <1> QED BY <1>3, <1>4 DEF Counted

LEMMA ReleaseCounted ==
  ASSUME CountIInv, NEW o \in Allocated, Release(o)
  PROVE  Counted'
  <1>1. CASE Stop("aborted")
    BY <1>1, NothingCounted DEF Stop, memory, arena
  <1>2. CASE /\ count' = [count EXCEPT ![o] = Down(@, 1)]
             /\ refs' = [refs EXCEPT ![o] = @ - 1]
             /\ UNCHANGED <<size, length, first, arena, process>>
    <2>1. /\ Live' = Live /\ (\A q : PoolsHold(q)' = PoolsHold(q)) /\ Allocated' = Allocated
          /\ held' = held
      BY <1>2, PoolsKeep DEF Allocated, arena
    <2>2. ASSUME NEW q \in Allocated
          PROVE  count'[q] = (size'[q] + refs'[q] + PoolsHold(q)' + W - 1) % W
      <3> DEFINE x == size[q] + refs[q] + PoolsHold(q) + W - 1
      <3>1. /\ size[q] \in Nat /\ refs[q] \in Nat /\ PoolsHold(q) \in Nat
            /\ x \in Nat /\ count[q] = x % W
        BY CountIs
      <3>2. CASE q = o
        <4>1. count'[q] = Down(count[q], 1) /\ refs'[q] = refs[q] - 1 /\ size' = size
          BY <1>2, <3>2 DEF CountIInv, IInv, MemoryOK
        <4>2. size[q] + (refs[q] - 1) + PoolsHold(q) + W - 1 = x - 1 /\ 1 <= x
          BY <3>1, <3>2, WidthAssumption DEF Release
        <4> HIDE DEF x
        <4>3. Down(x % W, 1) = (x - 1) % W
          BY <3>1, <4>2, CountsDown
        <4> QED BY <2>1, <3>1, <4>1, <4>2, <4>3
      <3>3. CASE q # o
        BY <1>2, <2>1, <3>1, <3>3 DEF CountIInv, IInv, MemoryOK
      <3> QED BY <3>2, <3>3
    <2>3. CountFollowsReferences'
      BY <2>1, <2>2 DEF CountFollowsReferences
    <2>4. HeldAreAllocated'
      BY <2>1 DEF CountIInv, HeldAreAllocated
    <2> QED BY <2>3, <2>4 DEF Counted
  <1> QED BY <1>1, <1>2 DEF Release

\* A new object has one reference, whoever has it.
LEMMA NewObjectCounted ==
  ASSUME CountIInv, NEW o \in Object \ Allocated, NEW s \in Nat, NEW w, NEW n \in {0, 1},
         NewObject(o, s, w, n),
         \A q : PoolsHold(q)' = PoolsHold(q) + IF q = o THEN 1 - n ELSE 0
  PROVE  CountFollowsReferences' /\ Allocated' = Allocated \cup {o}
  <1>1. Allocated' = Allocated \cup {o}
    BY DEF Allocated, NewObject, With
  <1>2. PoolsHold(o) = 0
    BY NewIsNotHeld
  <1>3. ASSUME NEW q \in Allocated
        PROVE  count'[q] = (size'[q] + refs'[q] + PoolsHold(q)' + W - 1) % W
    <2>1. PoolsHold(q) \in Nat /\ count[q] = (size[q] + refs[q] + PoolsHold(q) + W - 1) % W
      BY CountIs
    <2>2. q # o /\ PoolsHold(q)' = PoolsHold(q)
      BY <2>1
    <2>3. count'[q] = count[q] /\ size'[q] = size[q] /\ refs'[q] = refs[q]
      BY <2>2 DEF NewObject, With, CountIInv, IInv, MemoryOK
    <2> QED BY <2>1, <2>2, <2>3
  <1>4. count'[o] = (size'[o] + refs'[o] + PoolsHold(o)' + W - 1) % W
    <2>1. count'[o] = s % W /\ size'[o] = s /\ refs'[o] = n
      BY DEF NewObject, With, Seen
    <2>2. PoolsHold(o)' = 1 - n
      BY <1>2
    <2>3. s + n + (1 - n) + W - 1 = s + W
      BY WidthAssumption
    <2> QED BY <2>1, <2>2, <2>3, AroundOnce
  <1>5. CountFollowsReferences'
    BY <1>1, <1>3, <1>4 DEF CountFollowsReferences
  <1> QED BY <1>1, <1>5

LEMMA GivingCounted ==
  ASSUME CountIInv,
         \/ \E o \in Object \ Allocated, s \in Sizes : Alloc(o, s) \/ AutoAlloc(o, s)
         \/ \E o \in Allocated, o2 \in Object \ Allocated : Copy(o, o2)
         \/ \E o \in Allocated : Autorelease(o)
         \/ AutoAllocFails
  PROVE  Counted'
  <1>1. ASSUME NEW o \in Object \ Allocated, NEW s \in Nat, NEW w, NewObject(o, s, w, 1),
               UNCHANGED held
        PROVE  Counted'
    <2>1. Live' = Live /\ \A q : PoolsHold(q)' = PoolsHold(q) /\ PoolsHold(q) \in Nat
      BY <1>1, PoolsKeep, PoolsHoldType DEF CountIInv, IInv
    <2>2. \A q : PoolsHold(q)' = PoolsHold(q) + IF q = o THEN 1 - 1 ELSE 0
      BY <2>1
    <2>3. CountFollowsReferences' /\ Allocated' = Allocated \cup {o}
      BY <1>1, <2>2, NewObjectCounted
    <2>4. HeldAreAllocated'
      BY <1>1, <2>1, <2>3 DEF CountIInv, HeldAreAllocated
    <2> QED BY <2>3, <2>4 DEF Counted
  <1>2. ASSUME NEW o \in Object \ Allocated, NEW s \in Sizes, Alloc(o, s) PROVE Counted'
    BY <1>1, <1>2, SizesAssumption DEF Alloc, arena
  <1>3. ASSUME NEW o \in Object \ Allocated, NEW s \in Sizes, AutoAlloc(o, s) PROVE Counted'
    <2>1. NewObject(o, s, "zero", 0) /\ Push(o) /\ ~NoCurrentPool /\ s \in Nat
      BY <1>3, SizesAssumption DEF AutoAlloc
    <2>2. /\ Live' = Live
          /\ \A q : PoolsHold(q)' = PoolsHold(q) + IF o = q THEN 1 ELSE 0
          /\ \A p \in Live : \A i \in DOMAIN held'[p] : held'[p][i] \in Allocated \cup {Null, o}
      BY <2>1, PushHolds
    <2>3. \A q : PoolsHold(q)' = PoolsHold(q) + IF q = o THEN 1 - 0 ELSE 0
      BY <2>2
    <2>4. CountFollowsReferences' /\ Allocated' = Allocated \cup {o}
      BY <2>1, <2>3, NewObjectCounted
    <2>5. HeldAreAllocated'
      BY <2>2, <2>4 DEF HeldAreAllocated
    <2> QED BY <2>4, <2>5 DEF Counted
  <1>4. ASSUME NEW o \in Allocated, NEW o2 \in Object \ Allocated, Copy(o, o2) PROVE Counted'
    <2>1. length[o] \in Nat
      BY DEF CountIInv, IInv, MemoryOK
    <2>2. PICK w \in {"zero", "garbage"} : NewObject(o2, length[o], w, 1)
      BY <1>4 DEF Copy
    <2>3. UNCHANGED held
      BY <1>4 DEF Copy, arena
    <2> QED BY <1>1, <2>1, <2>2, <2>3
  <1>5. ASSUME NEW o \in Allocated, Autorelease(o) PROVE Counted'
    <2>1. Push(o) /\ ~NoCurrentPool /\ o \in Object \cup {Null} /\ UNCHANGED memory
      BY <1>5 DEF Autorelease, CountIInv, IInv, MemoryOK
    <2>2. /\ Live' = Live
          /\ \A q : PoolsHold(q)' = PoolsHold(q) + IF o = q THEN 1 ELSE 0
          /\ \A p \in Live : \A i \in DOMAIN held'[p] : held'[p][i] \in Allocated \cup {Null, o}
      BY <2>1, PushHolds
    <2>3. Allocated' = Allocated /\ size' = size /\ count' = count
      BY <2>1 DEF memory, Allocated
    <2>4. ASSUME NEW q \in Allocated
          PROVE  count'[q] = (size'[q] + refs'[q] + PoolsHold(q)' + W - 1) % W
      <3>1. /\ size[q] \in Nat /\ refs[q] \in Nat /\ PoolsHold(q) \in Nat
            /\ count[q] = (size[q] + refs[q] + PoolsHold(q) + W - 1) % W
        BY CountIs
      <3>2. PoolsHold(q)' = PoolsHold(q) + IF o = q THEN 1 ELSE 0
        BY <2>2
      <3>3. refs'[q] = IF q = o THEN refs[q] - 1 ELSE refs[q]
        BY <1>5 DEF Autorelease, CountIInv, IInv, MemoryOK
      <3>4. refs'[q] + PoolsHold(q)' = refs[q] + PoolsHold(q)
        BY <3>1, <3>2, <3>3
      <3>5. refs'[q] \in Int /\ PoolsHold(q)' \in Int
        BY <3>1, <3>2, <3>3
      <3>6. size[q] + refs'[q] + PoolsHold(q)' + W - 1 = size[q] + refs[q] + PoolsHold(q) + W - 1
        BY <3>1, <3>4, <3>5, WidthAssumption
      <3> QED BY <2>3, <3>1, <3>6
    <2>5. CountFollowsReferences'
      BY <2>3, <2>4 DEF CountFollowsReferences
    <2>6. HeldAreAllocated'
      BY <2>2, <2>3 DEF HeldAreAllocated
    <2> QED BY <2>5, <2>6 DEF Counted
  <1>6. CASE AutoAllocFails
    <2>1. Push(Null) /\ ~NoCurrentPool /\ UNCHANGED <<memory, refs>>
      BY <1>6 DEF AutoAllocFails
    <2>2. /\ Live' = Live
          /\ \A q : PoolsHold(q)' = PoolsHold(q) + IF Null = q THEN 1 ELSE 0
          /\ \A p \in Live : \A i \in DOMAIN held'[p] : held'[p][i] \in Allocated \cup {Null, Null}
      BY <2>1, PushHolds
    <2>3. Allocated' = Allocated /\ size' = size /\ count' = count /\ refs' = refs
      BY <2>1 DEF memory, Allocated
    <2>4. ASSUME NEW q \in Allocated PROVE PoolsHold(q)' = PoolsHold(q)
      <3>1. q # Null
        BY NullAssumption DEF CountIInv, IInv, MemoryOK
      <3> QED BY <2>2, <3>1, PoolsHoldType DEF CountIInv, IInv
    <2>5. CountFollowsReferences'
      BY <2>3, <2>4 DEF CountIInv, CountFollowsReferences
    <2>6. HeldAreAllocated'
      BY <2>2, <2>3 DEF HeldAreAllocated
    <2> QED BY <2>5, <2>6 DEF Counted
  <1> QED BY <1>2, <1>3, <1>4, <1>5, <1>6

\* A drain counts down every object as often as it is in the pool.
LEMMA DrainCounted ==
  ASSUME CountIInv, ArenaOK', NEW p \in Live, Drain(p),
         \/ held' = [held EXCEPT ![p] = <<>>]
         \/ held' = Without(held, p)
  PROVE  Counted'
  <1>1. /\ \A q \in Live' : held'[q] = <<>> \/ (q \in Live /\ held'[q] = held[q])
        /\ \A o : PoolsHold(o)' = PoolsHold(o) - Occurrences(o, held[p])
    BY OnlyOthersHold
  <1>2. Allocated' = Allocated /\ size' = size /\ refs' = refs
    BY DEF Drain, Allocated
  <1>3. ASSUME NEW o \in Allocated
        PROVE  count'[o] = (size'[o] + refs'[o] + PoolsHold(o)' + W - 1) % W
    <2> DEFINE x == size[o] + refs[o] + PoolsHold(o) + W - 1
               n == Occurrences(o, held[p])
    <2>1. /\ size[o] \in Nat /\ refs[o] \in Nat /\ PoolsHold(o) \in Nat
          /\ x \in Nat /\ count[o] = x % W
      BY CountIs
    <2>2. n \in Nat /\ OthersHold(p, o) \in Nat /\ PoolsHold(o) = OthersHold(p, o) + n
      BY PoolsHoldBoth DEF CountIInv, IInv
    <2>3. count'[o] = Down(count[o], n) /\ PoolsHold(o)' = PoolsHold(o) - n
      BY <1>1 DEF Drain
    <2> HIDE DEF n
    <2>4. n <= PoolsHold(o)
      BY <2>2
    <2>5. size[o] + refs[o] + (PoolsHold(o) - n) + W - 1 = x - n /\ n <= x
      <3> DEFINE s == size[o]
                 r == refs[o]
                 h == PoolsHold(o)
      <3>1. s \in Nat /\ r \in Nat /\ h \in Nat /\ n \in Nat /\ n <= h /\ W \in Nat \ {0}
        BY <2>1, <2>2, <2>4, WidthAssumption
      <3> HIDE DEF s, r, h
      <3>2. s + r + (h - n) + W - 1 = (s + r + h + W - 1) - n /\ n <= s + r + h + W - 1
        BY <3>1
      <3> QED BY <3>2 DEF s, r, h
    <2> HIDE DEF x
    <2>6. Down(x % W, n) = (x - n) % W
      BY <2>1, <2>2, <2>5, CountsDown
    <2> QED BY <1>2, <2>1, <2>3, <2>5, <2>6
  <1>4. CountFollowsReferences'
    BY <1>2, <1>3 DEF CountFollowsReferences
  <1>5. HeldAreAllocated'
    BY <1>1, <1>2 DEF CountIInv, HeldAreAllocated
  <1> QED BY <1>4, <1>5 DEF Counted

LEMMA PoolCounted ==
  ASSUME CountIInv, IInv',
         \/ CannotGrow \/ NoPool \/ PoolDrain \/ CannotCreate
         \/ \E p \in Pool \ Live : PoolCreate(p)
         \/ \E p \in Live : PoolDestroy(p)
  PROVE  Counted'
  <1>1. ASSUME NEW how, Stop(how) PROVE Counted'
    BY <1>1, NothingCounted DEF Stop, memory, arena
  <1>2. CASE CannotGrow \/ NoPool \/ CannotCreate
    BY <1>1, <1>2 DEF CannotGrow, NoPool, CannotCreate
  <1>3. ASSUME NEW p \in Live, DrainFaults(p) PROVE Counted'
    BY <1>1, <1>3 DEF DrainFaults
  <1>4. CASE PoolDrain
    <2>1. Current \in Live
      BY <1>4 DEF PoolDrain, NoCurrentPool, Current
    <2>2. CASE DrainFaults(Current)
      BY <1>3, <2>1, <2>2
    <2>3. CASE Drain(Current) /\ held' = Emptied(Current)
      BY <2>1, <2>3, DrainCounted DEF Emptied, IInv
    <2> QED BY <1>4, <2>2, <2>3 DEF PoolDrain
  <1>5. ASSUME NEW p \in Live, PoolDestroy(p) PROVE Counted'
    BY <1>3, <1>5, DrainCounted DEF PoolDestroy, IInv
  <1>6. ASSUME NEW p \in Pool \ Live, PoolCreate(p) PROVE Counted'
    <2>1. /\ Live' = Live \cup {p} /\ held'[p] = <<>>
          /\ \A q \in Live : held'[q] = held[q]
      BY <1>6 DEF PoolCreate, With, Live
    <2>2. ASSUME NEW o PROVE InPools(o)' = InPools(o)
      <3>1. {i \in DOMAIN held'[p] : held'[p][i] = o} = {}
        BY <2>1
      <3> QED BY <2>1, <3>1 DEF InPools
    <2>3. \A o : PoolsHold(o)' = PoolsHold(o)
      BY <2>2 DEF PoolsHold
    <2>4. Allocated' = Allocated /\ size' = size /\ refs' = refs /\ count' = count
      BY <1>6 DEF PoolCreate, memory, Allocated
    <2>5. CountFollowsReferences'
      BY <2>3, <2>4 DEF CountIInv, CountFollowsReferences
    <2>6. HeldAreAllocated'
      BY <2>1, <2>4 DEF CountIInv, HeldAreAllocated
    <2> QED BY <2>5, <2>6 DEF Counted
  <1> QED BY <1>2, <1>4, <1>5, <1>6

LEMMA CountStep == CountIInv /\ [Next]_vars => CountIInv'
  <1> SUFFICES ASSUME CountIInv, [Next]_vars PROVE CountIInv'
    OBVIOUS
  <1>1. IInv'
    BY NextInvariant DEF CountIInv
  <1>2. CASE UNCHANGED vars
    BY <1>1, <1>2, NothingCounted DEF vars, Counted, CountIInv
  <1>3. CASE Use
    <2>1. ASSUME NEW o \in Allocated, NEW s \in Sizes,
                 \/ Write(o) \/ Realloc(o, s)
                 \/ ReallocOfGarbage(o) \/ UseReallocated(o) \/ CopyFails(o)
          PROVE  Counted'
      BY <2>1, NothingCounted
      DEF Write, Realloc, ReallocOfGarbage, UseReallocated, CopyFails, Stop, memory, arena
    <2>2. ASSUME NEW o \in Allocated,
                 \/ Write(o) \/ ReallocOfGarbage(o) \/ UseReallocated(o) \/ CopyFails(o)
          PROVE  Counted'
      BY <2>2, NothingCounted
      DEF Write, ReallocOfGarbage, UseReallocated, CopyFails, Stop, memory, arena
    <2>3. ASSUME NEW o \in Allocated, Retain(o) \/ Release(o) PROVE Counted'
      BY <2>3, RetainCounted, ReleaseCounted
    <2>4. Counted'
      BY <1>1, <1>3, <2>1, <2>2, <2>3, GivingCounted, PoolCounted DEF Use
    <2> QED BY <1>1, <2>4 DEF Counted, CountIInv
  <1>4. CASE \E p \in Live : PoolDestroy(p)
    BY <1>1, <1>4, PoolCounted DEF Counted, CountIInv
  <1> QED BY <1>2, <1>3, <1>4 DEF Next

LEMMA CountInvariant == Spec => []CountIInv
  <1>1. Init => CountIInv
    <2> SUFFICES ASSUME Init PROVE CountIInv
      OBVIOUS
    <2>1. IInv
      BY InitInvariant
    <2>2. Allocated = {} /\ Live = {}
      BY DEF Init, Allocated, Live
    <2> QED BY <2>1, <2>2 DEF CountIInv, CountFollowsReferences, HeldAreAllocated
  <1> QED BY <1>1, CountStep, PTL DEF Spec

\* Whatever the client does with its objects and pools, what is used for the retain
\* count follows the references, modulo its width: no release is lost or repeated.
THEOREM CountCorrect == Spec => []CountFollowsReferences
  <1>1. CountIInv => CountFollowsReferences
    BY DEF CountIInv
  <1> QED BY <1>1, CountInvariant, PTL

-------------------------------------------------------------------------------

\* What NestedPoolsWork says of a step.
OuterPoolsKeep ==
  nested' => \A p \in Live : p = Last(pools) \/ (p \in DOMAIN held' /\ held'[p] = held[p])

NestedIInv == IInv /\ (nested => PoolsAreNested)

LEMMA OuterPoolsStep == [MCNext]_<<vars, nested>> => [OuterPoolsKeep]_<<vars, nested>>
  <1> SUFFICES ASSUME MCNext, nested' PROVE OuterPoolsKeep
    BY DEF OuterPoolsKeep
  <1>1. CASE UNCHANGED held
    BY <1>1 DEF OuterPoolsKeep, Live
  <1>2. ASSUME NEW ptr, Push(ptr) PROVE OuterPoolsKeep
    BY <1>2 DEF Push, Current, OuterPoolsKeep, Live
  <1>3. ASSUME NEW p \in Live, PoolDestroy(p) PROVE OuterPoolsKeep
    <2>1. CASE DrainFaults(p)
      BY <1>1, <2>1 DEF DrainFaults, Stop, arena
    <2>2. CASE held' = Without(held, p)
      <3>1. p = Last(pools)
        BY <2>2 DEF MCNext, Without
      <3> QED BY <2>2, <3>1 DEF Without, OuterPoolsKeep, Live
    <2> QED BY <1>3, <2>1, <2>2 DEF PoolDestroy
  <1>4. CASE Use
    <2>1. CASE \E o \in Object \ Allocated, s \in Sizes : Alloc(o, s) \/ AutoAlloc(o, s)
      BY <1>1, <1>2, <2>1 DEF Alloc, AutoAlloc, arena
    <2>2. ASSUME NEW o \in Allocated,
                 \/ Retain(o) \/ Release(o) \/ Autorelease(o)
                 \/ Write(o) \/ ReallocOfGarbage(o) \/ UseReallocated(o) \/ CopyFails(o)
          PROVE  OuterPoolsKeep
      <3>1. CASE Retain(o) \/ Release(o) \/ Write(o)
        BY <1>1, <3>1 DEF Retain, Release, Write, Stop, arena
      <3>2. CASE ReallocOfGarbage(o) \/ UseReallocated(o) \/ CopyFails(o)
        BY <1>1, <3>2 DEF ReallocOfGarbage, UseReallocated, CopyFails, Stop, arena
      <3>3. CASE Autorelease(o)
        BY <1>2, <3>3 DEF Autorelease
      <3> QED BY <2>2, <3>1, <3>2, <3>3
    <2>3. ASSUME NEW o \in Allocated,
                 \/ \E s \in Sizes : Realloc(o, s)
                 \/ \E o2 \in Object \ Allocated : Copy(o, o2)
          PROVE  OuterPoolsKeep
      BY <1>1, <2>3 DEF Realloc, Copy, arena
    <2>4. CASE AutoAllocFails
      BY <1>2, <2>4 DEF AutoAllocFails
    <2>5. CASE CannotGrow \/ NoPool \/ CannotCreate
      BY <1>1, <2>5 DEF CannotGrow, NoPool, CannotCreate, Stop, arena
    <2>6. CASE PoolDrain
      <3>1. CASE DrainFaults(Current)
        BY <1>1, <3>1 DEF DrainFaults, Stop, arena
      <3>2. CASE held' = Emptied(Current)
        BY <3>2 DEF Emptied, Current, OuterPoolsKeep, Live
      <3> QED BY <2>6, <3>1, <3>2 DEF PoolDrain
    <2>7. ASSUME NEW p \in Pool \ Live, PoolCreate(p) PROVE OuterPoolsKeep
      BY <2>7 DEF PoolCreate, With, OuterPoolsKeep, Live
    <2> QED BY <1>4, <2>1, <2>2, <2>3, <2>4, <2>5, <2>6, <2>7 DEF Use
  <1> QED BY <1>3, <1>4 DEF MCNext, Next

LEMMA NestedInvStep == NestedIInv /\ [MCNext]_<<vars, nested>> => NestedIInv'
  <1> SUFFICES ASSUME NestedIInv, [MCNext]_<<vars, nested>> PROVE NestedIInv'
    OBVIOUS
  <1>1. IInv'
    BY NextInvariant DEF NestedIInv, MCNext
  <1>2. CASE UNCHANGED <<vars, nested>>
    BY <1>1, <1>2 DEF NestedIInv, vars, PoolsAreNested, Live
  <1>3. ASSUME MCNext, nested' PROVE PoolsAreNested'
    <2>1. PoolsAreNested /\ \A p \in Live : p \in DOMAIN held' \/ p = Last(pools)
      BY <1>3 DEF NestedIInv, MCNext
    <2>2. CASE NestedNext
      BY <2>1, <2>2, NestedStep DEF NestedIInv
    <2>3. ASSUME NEW p \in Live, PoolDestroy(p), p # Last(pools) PROVE PoolsAreNested'
      <3>1. ~ (held' = Without(held, p))
        BY <2>1, <2>3 DEF Without
      <3>2. DrainFaults(p)
        BY <2>3, <3>1 DEF PoolDestroy
      <3> QED BY <2>1, <3>2 DEF DrainFaults, Stop, arena, PoolsAreNested, Live
    <2> QED BY <1>3, <2>2, <2>3 DEF MCNext, Next, NestedNext
  <1> QED BY <1>1, <1>2, <1>3 DEF NestedIInv

\* As long as pools are destroyed in the reverse order the current pool is one that
\* exists, and until it is destroyed nothing touches the pools around it: for any
\* number of pools, objects and references.
THEOREM NestedPoolsDo == MCSpec => NestedPoolsWork
  <1>1. MCInit => NestedIInv
    BY InitInvariant DEF MCInit, Init, PoolsAreNested, NestedIInv
  <1>2. NestedIInv => (nested => PoolsAreNested)
    BY DEF NestedIInv
  <1>3. MCSpec => [](nested => PoolsAreNested)
    BY <1>1, <1>2, NestedInvStep, PTL DEF MCSpec
  <1>4. MCSpec => [][OuterPoolsKeep]_<<vars, nested>>
    BY OuterPoolsStep, PTL DEF MCSpec
  <1> QED BY <1>3, <1>4, PTL DEF NestedPoolsWork, OuterPoolsKeep

===============================================================================
