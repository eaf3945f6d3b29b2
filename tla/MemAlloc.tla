------------------------------- MODULE MemAlloc -------------------------------
(***************************************************************************)
(* C/mem-alloc.c: an allocator over sbrk.                                  *)
(*                                                                         *)
(* Memory is counted in words, and so are the sizes that are asked for.  A *)
(* block has a header of four words, the memory of the client, and a       *)
(* footer that looks like the header.  mem_alloc walks over memory in      *)
(* steps of the block it is asked for, and takes what it finds at each     *)
(* step for a header, the client's data included: the model keeps what is  *)
(* in every word, and reads it as the code does.                           *)
(*                                                                         *)
(* sbrk is the one of the system the file is written for: the memory it    *)
(* gives out is all there from the start and zero, and nobody else takes   *)
(* any of it.                                                              *)
(***************************************************************************)
EXTENDS Naturals, FiniteSets

CONSTANTS Sizes, \* sizes the client asks for, in words
          Data,  \* words the client writes
          Fence, \* MEM_FENCE_VAL
          Limit  \* words sbrk can give out

ASSUME SizesAssumption == Sizes \subseteq Nat /\ Data \subseteq Nat
ASSUME LimitAssumption == Limit \in Nat /\ Fence \in Nat \ {0, 1}

VARIABLES mem,    \* every word
          end,    \* MEM_END_ADDR; MEM_START_ADDR is 0
          blocks, \* what the client holds: where its memory starts, how long
          asked,  \* the sizes it has asked for
          shared, \* memory it holds was given to it once more
          crashed \* the process is gone

memVars == <<mem, end, blocks, asked, shared, crashed>>

MemTypeOK ==
  /\ mem \in [0 .. Limit - 1 -> Nat]
  /\ end \in Nat
  /\ \A b \in blocks : b.at \in Nat /\ b.size \in Sizes
  /\ asked \subseteq Sizes
  /\ shared \in BOOLEAN
  /\ crashed \in BOOLEAN

MemInit ==
  /\ mem = [a \in 0 .. Limit - 1 |-> 0]
  /\ end = 0
  /\ blocks = {}
  /\ asked = {}
  /\ shared = FALSE
  /\ crashed = FALSE

-------------------------------------------------------------------------------

\* struct mem_block_hdr: the words of the header at an address.
HeaderSize == 4
Available(h) == h + 1
Size(h) == h + 2
Header(s) == <<Fence, 0, s, Fence>>

\* What is written for two of them, the second behind the first.
Headers(h, g, s) ==
  [a \in h .. h + HeaderSize - 1 \cup g .. g + HeaderSize - 1 |->
     Header(s)[1 + IF a < g THEN a - h ELSE a - g]]

\* Their flags.
Flags(h, g, flag) == [a \in {Available(h), Available(g)} |-> flag]

\* MUTANT of Block: the header of a block is the footer of the one before.
BlockWithoutFooter(s) == HeaderSize + s

\* allocSize
Block(s) == HeaderSize + s + HeaderSize

Crash ==
  /\ crashed' = TRUE
  /\ UNCHANGED <<mem, end, blocks, shared>>

\* Words are written, none of them beyond the limit.
Reachable(words) == DOMAIN words \subseteq DOMAIN mem
Store(words) ==
  mem' = [a \in DOMAIN mem |-> IF a \in DOMAIN words THEN words[a] ELSE mem[a]]

(***************************************************************************)
(* The walk of mem_alloc: it looks at the memory from 0 in steps of the    *)
(* block it is asked for, until it finds a block that is available and     *)
(* large enough, or is at the end exactly.  A word that is no bool may be  *)
(* taken for either value.                                                 *)
(***************************************************************************)

\* MUTANT of Fits: a block of the very size does not.
FitsStrictly(h, s) == mem[Size(h)] > s

Fits(h, s) == mem[Size(h)] >= s

Readable(h) == h + HeaderSize <= Limit
MayTake(h, s) == Readable(h) /\ mem[Available(h)] # 0 /\ Fits(h, s)
MayPass(h, s) == Readable(h) /\ (mem[Available(h)] # 1 \/ ~Fits(h, s))

Reaches(h, s) ==
  /\ h % Block(s) = 0
  /\ \A j \in 0 .. h - 1 : j % Block(s) = 0 => j # end /\ MayPass(j, s)

\* MUTANT of Given: the size is taken from a header before it is there.
GivenByHeader(h, s) == [at |-> h + HeaderSize, size |-> mem[Size(h)]]

\* What mem_alloc returns is the client's.
Given(h, s) == [at |-> h + HeaderSize, size |-> s]
Words(b) == b.at .. b.at + b.size - 1
Give(h, s) ==
  /\ blocks' = blocks \cup {Given(h, s)}
  /\ shared' = (shared \/ \E b \in blocks : Words(b) \cap Words(Given(h, s)) # {})

\* A block that is taken keeps its size, and its footer is looked for at the
\* end of what is asked for.
Take(s) ==
  /\ asked' = asked \cup {s}
  /\ \E h \in 0 .. Limit \ {end} :
       /\ Reaches(h, s) /\ MayTake(h, s)
       /\ LET words == Flags(h, h + HeaderSize + s, 0)
          IN  IF Reachable(words)
              THEN /\ Store(words)
                   /\ Give(h, s)
                   /\ UNCHANGED <<end, crashed>>
              ELSE Crash

\* The footer of a new block is placed by the size that is in its header before
\* it is written there.  That sbrk may fail is not looked at.
Grow(s) ==
  /\ asked' = asked \cup {s}
  /\ Reaches(end, s)
  /\ LET footer == end + mem[Size(end)] + HeaderSize
         words  == Headers(end, footer, s)
     IN  IF Readable(end) /\ Reachable(words)
         THEN /\ Store(words)
              /\ Give(end, s)
              /\ end' = end + Block(s)
              /\ UNCHANGED crashed
         ELSE Crash

\* The walk misses the end, and leaves the memory there is.
WalkOff(s) ==
  /\ asked' = asked \cup {s}
  /\ \E h \in 0 .. Limit + Block(s) : h # end /\ Reaches(h, s) /\ ~Readable(h)
  /\ Crash

\* The header and the footer of a block are marked.
Marked(b) ==
  LET h == b.at - HeaderSize
  IN  Flags(h, b.at + mem[Size(h)], 1)

Free(b) ==
  IF Reachable(Marked(b))
  THEN /\ Store(Marked(b))
       /\ blocks' = blocks \ {b}
       /\ UNCHANGED <<end, asked, shared, crashed>>
  ELSE Crash /\ UNCHANGED asked

\* The client writes to its memory.
Write(b, a, d) ==
  IF a \in DOMAIN mem
  THEN /\ mem' = [mem EXCEPT ![a] = d]
       /\ UNCHANGED <<end, blocks, asked, shared, crashed>>
  ELSE Crash /\ UNCHANGED asked

\* A client whose blocks share memory is lost: that far goes the model.
MemNext ==
  /\ ~crashed /\ ~shared
  /\ \/ \E s \in Sizes : Take(s) \/ Grow(s) \/ WalkOff(s)
     \/ \E b \in blocks :
          Free(b) \/ \E a \in Words(b), d \in Data : Write(b, a, d)

MemSpec == MemInit /\ [][MemNext]_memVars

-------------------------------------------------------------------------------

OneSize == Cardinality(asked) = 1
Asked == CHOOSE s \in asked : TRUE
Places == {h \in 0 .. end - 1 : h % Block(Asked) = 0}
Held(h) == Given(h, Asked) \in blocks

\* No memory is given out twice before it is freed, whatever the client writes.
NeverShared == ~shared

\* The process crashes only if there is no memory left: with every block in use, the
\* walk comes to the end, and to headers only; or the last block goes beyond what sbrk
\* gave, which is not looked at.
CrashesOnlyWhenFull ==
  crashed => /\ end + Block(Asked) > Limit
             /\ end <= Limit => \A h \in Places : Held(h)

\* The flag of every block tells whether the client holds it.
HeadersTell ==
  \A h \in Places :
    /\ mem[Size(h)] = Asked
    /\ mem[Available(h)] = IF Held(h) THEN 0 ELSE 1

(***************************************************************************)
(* While every request is for one size, the allocator is right: memory     *)
(* that is held is not given out, the walk over memory meets headers only, *)
(* which tell what is held, and so there is no memory only if all is held. *)
(***************************************************************************)
OneSizeIsSafe == OneSize => NeverShared /\ CrashesOnlyWhenFull /\ HeadersTell

(***************************************************************************)
(* Memory grows only if every block is in use, for requests of one size.   *)
(***************************************************************************)
GrowsOnlyWhenFull ==
  [][OneSize /\ end' # end /\ asked' = asked => \A h \in Places : Held(h)]_memVars
===============================================================================
