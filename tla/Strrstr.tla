-------------------------------- MODULE Strrstr --------------------------------
(***************************************************************************)
(* C/strrstr.c: the last occurrence of a string in another.  A string is a *)
(* sequence, with 0 after its last character; a pointer is an index, and 0 *)
(* is NULL.  A step is one test of one of the loops.                       *)
(***************************************************************************)
EXTENDS Integers, Sequences

CONSTANTS Data,  \* the strings that are searched
          Search \* the strings that are searched for

ASSUME StringAssumption == Data \cup Search \subseteq Seq(Nat \ {0})

VARIABLES s1, s2,     \* the arguments
          ss1,        \* where in s1 the comparison starts
          sss1, sss2, \* what is compared
          finding     \* what strrstr does; when done, ss1 is returned, or 0

strrstrVars == <<s1, s2, ss1, sss1, sss2, finding>>

StrrstrTypeOK ==
  /\ s1 \in Seq(Nat \ {0}) /\ s2 \in Seq(Nat \ {0})
  /\ ss1 \in Nat /\ sss1 \in Nat /\ sss2 \in Nat
  /\ finding \in {"idle", "next", "compare", "done"}

StrrstrInit ==
  /\ s1 = <<>> /\ s2 = <<>>
  /\ ss1 = 0 /\ sss1 = 0 /\ sss2 = 0
  /\ finding = "idle"

-------------------------------------------------------------------------------

\* An empty string is found where the search begins.
strrstr(a, b) ==
  /\ finding = "idle"
  /\ s1' = a /\ s2' = b
  /\ IF b = <<>>
     THEN ss1' = 1 /\ finding' = "done"
     ELSE ss1' = Len(a) + 1 /\ finding' = "next"
  /\ UNCHANGED <<sss1, sss2>>

\* The outer loop, from the end to the start.
Back ==
  /\ finding = "next"
  /\ ss1' = ss1 - 1
  /\ IF ss1 = 1
     THEN finding' = "done" /\ UNCHANGED <<sss1, sss2>>
     ELSE sss1' = ss1 - 1 /\ sss2' = 1 /\ finding' = "compare"
  /\ UNCHANGED <<s1, s2>>

CharAt(s, k) == IF k <= Len(s) THEN s[k] ELSE 0

\* MUTANT of Compare: the end of the string is found one character early.
CompareShort ==
  /\ finding = "compare"
  /\ finding' = IF CharAt(s1, sss1) # CharAt(s2, sss2) THEN "next"
                ELSE IF sss2 + 1 >= Len(s2) THEN "done"
                ELSE "compare"
  /\ sss1' = sss1 + 1 /\ sss2' = sss2 + 1
  /\ UNCHANGED <<s1, s2, ss1>>

\* The inner loop.
Compare ==
  /\ finding = "compare"
  /\ finding' = IF CharAt(s1, sss1) # CharAt(s2, sss2) THEN "next"
                ELSE IF CharAt(s2, sss2 + 1) = 0 THEN "done"
                ELSE "compare"
  /\ sss1' = sss1 + 1 /\ sss2' = sss2 + 1
  /\ UNCHANGED <<s1, s2, ss1>>

StrrstrNext ==
  \/ \E a \in Data, b \in Search : strrstr(a, b)
  \/ Back \/ Compare

-------------------------------------------------------------------------------

OccursAt(k) ==
  /\ k + Len(s2) - 1 <= Len(s1)
  /\ \A m \in 1 .. Len(s2) : s1[k + m - 1] = s2[m]

(***************************************************************************)
(* What is returned is the last place where the second string is in the    *)
(* first, the start of it for an empty one, and NULL if there is none; and *)
(* no loop reads beyond the end of a string.                               *)
(***************************************************************************)
StrrstrIsRight ==
  /\ finding = "done" =>
       IF s2 = <<>> THEN ss1 = 1
       ELSE /\ ss1 # 0 => OccursAt(ss1)
            /\ \A k \in DOMAIN s1 : k > ss1 => ~OccursAt(k)
  /\ finding = "compare" => sss1 <= Len(s1) + 1 /\ sss2 <= Len(s2)

===============================================================================
