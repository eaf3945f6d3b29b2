------------------------------ MODULE HuffmanWrite -----------------------------
(***************************************************************************)
(* C/huffman-write.c: the codes of symbols are written into words.  A code *)
(* and a word are sequences of bits, the highest first.  A step is a       *)
(* symbol.                                                                 *)
(***************************************************************************)
EXTENDS Integers, Sequences

CONSTANTS WordBits, \* MAX_LEN
          Symbols,  \* their codes
          Words,    \* what may be in memory where the first word is
          MaxBits   \* bound: bits that are written

Bits == 0 .. 1

ASSUME HuffmanAssumption ==
  /\ WordBits \in Nat \ {0} /\ MaxBits \in Nat
  /\ \A s \in Symbols : s \in Seq(Bits) /\ Len(s) \in 1 .. WordBits
  /\ Words \subseteq [1 .. WordBits -> Bits]

Clear == [b \in 1 .. WordBits |-> 0]

VARIABLES word,    \* *w
          n_bits,  \* of it
          stored,  \* w_buf; <<>> until main starts
          started,
          dirty,   \* history: there was something in the first word
          stream,  \* history: the bits of all symbols
          cut      \* history: the words whose end cut a symbol with a bit before it

huffmanVars == <<word, n_bits, stored, started, dirty, stream, cut>>

HuffmanTypeOK ==
  /\ word \in [1 .. WordBits -> Bits]
  /\ n_bits \in 0 .. WordBits - 1
  /\ stored \in Seq([1 .. WordBits -> Bits])
  /\ started \in BOOLEAN /\ dirty \in BOOLEAN
  /\ stream \in Seq(Bits)
  /\ cut \subseteq Nat

HuffmanInit ==
  /\ word = Clear /\ n_bits = 0
  /\ stored = <<>> /\ stream = <<>> /\ cut = {}
  /\ started = FALSE /\ dirty = FALSE

-------------------------------------------------------------------------------

\* The word is not initialised.
MainHuffman(junk) ==
  /\ ~started
  /\ started' = TRUE
  /\ word' = junk /\ dirty' = (junk # Clear)
  /\ UNCHANGED <<n_bits, stored, stream, cut>>

\* A shift to the left by a negative number leaves nothing within the word, as the
\* processor takes it modulo 32.
ShiftedIn(s) ==
  [b \in 1 .. WordBits |->
     IF n_bits + Len(s) <= WordBits /\ b \in n_bits + 1 .. n_bits + Len(s) /\ s[b - n_bits] = 1
     THEN 1 ELSE word[b]]

\* MUTANT of Rest: the next word starts with nothing in it.
RestOfNothing(s, n) == Clear

\* The last n bits of the code, at the start of the next word.
Rest(s, n) == [b \in 1 .. WordBits |-> IF b <= n THEN s[Len(s) - n + b] ELSE 0]

\* MUTANT of Full: a word that is just full is left where it is.
FullLate(n) == n > WordBits

Full(n) == n >= WordBits

\* A word that is full is stored, and the symbol shifted into the next one for what was
\* too much.  The last word never is.
Write(s) ==
  LET n == n_bits + Len(s)
  IN  /\ started /\ Len(stream) + Len(s) <= MaxBits
      /\ IF ~Full(n)
         THEN /\ word' = ShiftedIn(s) /\ n_bits' = n
              /\ UNCHANGED stored
         ELSE /\ n_bits' = n - WordBits
              /\ stored' = Append(stored, ShiftedIn(s))
              /\ word' = Rest(s, n - WordBits)
      /\ stream' = stream \o s
      /\ cut' = IF n > WordBits /\ \E b \in 1 .. WordBits - n_bits : s[b] = 1
                THEN cut \cup {Len(stored) + 1} ELSE cut
      /\ UNCHANGED <<started, dirty>>

HuffmanNext ==
  \/ \E junk \in Words : MainHuffman(junk)
  \/ \E s \in Symbols : Write(s)

-------------------------------------------------------------------------------

(***************************************************************************)
(* Every full word of the stream is stored, with the bits of its symbols,  *)
(* but for the first if there was something in it, and for those whose end *)
(* cuts a symbol that has a bit before the cut.                            *)
(***************************************************************************)
HuffmanIsRight ==
  /\ Len(stored) * WordBits + n_bits = Len(stream)
  /\ \A k \in DOMAIN stored :
       k \notin cut /\ ~(k = 1 /\ dirty) =>
         \A b \in 1 .. WordBits : stored[k][b] = stream[(k - 1) * WordBits + b]

===============================================================================
