------------------------------- MODULE Quicksort -------------------------------
(***************************************************************************)
(* C/quicksort.c: an array is sorted in its place.  A step is one test of  *)
(* one of the loops; calls has what is still to be sorted, the part that   *)
(* is worked on first, then those of the calls it is to return to.         *)
(***************************************************************************)
EXTENDS Integers, Sequences, FiniteSets

CONSTANTS Value,    \* what elements may be
          MaxLength \* bound: elements of an array

ASSUME ValueAssumption == Value \subseteq Int /\ 0 \in Value /\ MaxLength \in Nat

VARIABLES given,   \* the array as it was passed
          values,
          calls,   \* parts to sort, by left and right
          i, j, x, \* of the call that runs
          sorting  \* what it does

quicksortVars == <<given, values, calls, i, j, x, sorting>>

Parts == [left : Nat, right : Nat]
left == calls[1].left
right == calls[1].right

QuicksortTypeOK ==
  /\ \E n \in 0 .. MaxLength : {given, values} \subseteq [0 .. n - 1 -> Value]
  /\ calls \in Seq(Parts)
  /\ i \in Int /\ j \in Int /\ x \in Value
  /\ sorting \in {"idle", "call", "up", "down", "swap", "divided", "done"}

QuicksortInit ==
  /\ given = <<>> /\ values = <<>>
  /\ calls = <<>>
  /\ i = 0 /\ j = 0 /\ x = 0
  /\ sorting = "idle"

-------------------------------------------------------------------------------

\* quicksort is called for an array of n elements.
Sort(n, array) ==
  /\ sorting = "idle"
  /\ given' = array /\ values' = array
  /\ calls' = <<[left |-> 0, right |-> n - 1]>>
  /\ sorting' = "call"
  /\ UNCHANGED <<i, j, x>>

\* The part is divided at the element in its middle.
Enter ==
  /\ sorting = "call" /\ calls # <<>>
  /\ i' = left /\ j' = right
  /\ x' = values[(left + right) \div 2]
  /\ sorting' = "up"
  /\ UNCHANGED <<given, values, calls>>

Up ==
  /\ sorting = "up"
  /\ IF values[i] < x /\ i < right
     THEN i' = i + 1 /\ UNCHANGED sorting
     ELSE sorting' = "down" /\ UNCHANGED i
  /\ UNCHANGED <<given, values, calls, j, x>>

Down ==
  /\ sorting = "down"
  /\ IF x < values[j] /\ j > left
     THEN j' = j - 1 /\ UNCHANGED sorting
     ELSE sorting' = "swap" /\ UNCHANGED j
  /\ UNCHANGED <<given, values, calls, i, x>>

Swapped == [values EXCEPT ![i] = values[j], ![j] = values[i]]

\* The end of the do loop.
Swap ==
  /\ sorting = "swap"
  /\ IF i <= j
     THEN values' = Swapped /\ i' = i + 1 /\ j' = j - 1
     ELSE UNCHANGED <<values, i, j>>
  /\ sorting' = IF i' <= j' THEN "up" ELSE "divided"
  /\ UNCHANGED <<given, calls, x>>

\* MUTANT of Divided: the part on the left goes from its second element.
DividedFromSecond ==
  (IF i < right THEN <<[left |-> i, right |-> right]>> ELSE <<>>)
    \o (IF left + 1 < j THEN <<[left |-> left + 1, right |-> j]>> ELSE <<>>)

\* The parts of more than one element; the one on the right comes first.
Divided ==
  (IF i < right THEN <<[left |-> i, right |-> right]>> ELSE <<>>)
    \o (IF left < j THEN <<[left |-> left, right |-> j]>> ELSE <<>>)

Divide ==
  /\ sorting = "divided"
  /\ calls' = Divided \o Tail(calls)
  /\ sorting' = "call"
  /\ UNCHANGED <<given, values, i, j, x>>

Return ==
  /\ sorting = "call" /\ calls = <<>>
  /\ sorting' = "done"
  /\ UNCHANGED <<given, values, calls, i, j, x>>

QuicksortNext ==
  \/ \E n \in 1 .. MaxLength : \E array \in [0 .. n - 1 -> Value] : Sort(n, array)
  \/ Enter \/ Up \/ Down \/ Swap \/ Divide \/ Return

-------------------------------------------------------------------------------

IsAscending == \A a, b \in DOMAIN values : a < b => values[a] <= values[b]

\* Every value is there as many times as it was given.
IsPermuted ==
  /\ DOMAIN values = DOMAIN given
  /\ \A v \in Value :
       Cardinality({a \in DOMAIN values : values[a] = v})
         = Cardinality({a \in DOMAIN given : given[a] = v})

(***************************************************************************)
(* What comes back is sorted and has the elements that were given; what    *)
(* the loops read, before they test whether they are at an end of the      *)
(* part, is in the part, and so in the array.                              *)
(***************************************************************************)
QuicksortIsRight ==
  /\ sorting = "done" => IsAscending /\ IsPermuted
  /\ sorting = "up" => i \in left .. right
  /\ sorting = "down" => j \in left .. right
  /\ sorting \in {"up", "down"} => left .. right \subseteq DOMAIN values

===============================================================================
