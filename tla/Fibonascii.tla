------------------------------- MODULE Fibonascii ------------------------------
(***************************************************************************)
(* C/fibonascii.c: a table of Fibonacci numbers, as unsigned longs for as  *)
(* long as they have room, and as long doubles after that.  A step is a    *)
(* row.  Numbers of long double are taken as exact.                        *)
(***************************************************************************)
EXTENDS Integers, Sequences

CONSTANTS Wide,  \* an unsigned long is in 0 .. Wide - 1
          Rows,  \* of the table: 256
          Limit, \* SIZE_MAX_BYTE, SIZE_MAX_KILOBYTE, ... SIZE_MAX_ZETTABYTE
          Junk   \* what may be in memory

ASSUME FibonasciiAssumption ==
  /\ Wide \in Nat /\ 2 < Wide
  /\ Rows \in Nat
  /\ Limit \in [1 .. 8 -> Nat]
  /\ \A u \in 1 .. 7 : Limit[u] < Limit[u + 1]
  /\ Limit[1] > 1
  /\ Junk \subseteq Int

VARIABLES row,                  \* i; -1 before the first
          fibo_int, fibo_dbl,
          overflow,
          shown                 \* the number and the unit in each row of the table

fibonasciiVars == <<row, fibo_int, fibo_dbl, overflow, shown>>

FibonasciiTypeOK ==
  /\ row \in -1 .. Rows
  /\ fibo_int \in [0 .. Rows - 1 -> 0 .. Wide - 1]
  /\ fibo_dbl \in [0 .. Rows - 1 -> Int]
  /\ overflow \in BOOLEAN
  /\ shown \in Seq([number : Nat, unit : 0 .. 8])
  /\ Len(shown) = IF row = -1 THEN 0 ELSE row

FibonasciiInit ==
  /\ row = -1
  /\ fibo_int = [r \in 0 .. Rows - 1 |-> 0]
  /\ fibo_dbl = [r \in 0 .. Rows - 1 |-> 0]
  /\ overflow = FALSE
  /\ shown = <<>>

-------------------------------------------------------------------------------

\* main starts, with junk in the tables.
Main(junk) ==
  /\ row = -1
  /\ row' = 0
  /\ fibo_dbl' = [r \in 0 .. Rows - 1 |-> junk]
  /\ UNCHANGED <<fibo_int, overflow, shown>>

\* Whether the next sum has no room in an unsigned long, or one before had none.
Overflows == overflow \/ (row > 1 /\ Wide - 1 - fibo_int[row - 2] < fibo_int[row - 1])

\* The sums that the long doubles go on from are stored once.
Stored ==
  IF Overflows /\ ~overflow
  THEN [fibo_dbl EXCEPT ![row - 2] = fibo_int[row - 2], ![row - 1] = fibo_int[row - 1]]
  ELSE fibo_dbl

\* MUTANT of Stored: only the last sum is stored.
StoredLast ==
  IF Overflows /\ ~overflow
  THEN [fibo_dbl EXCEPT ![row - 1] = fibo_int[row - 1]]
  ELSE fibo_dbl

\* Whether it is bytes is asked of the unsigned long.
Unit(int, cur) ==
  IF int < Limit[1] THEN 0
  ELSE CHOOSE u \in 1 .. 8 :
         /\ \A v \in 2 .. u : Limit[v] <= cur
         /\ u < 8 => cur < Limit[u + 1]

Row ==
  /\ row \in 0 .. Rows - 1
  /\ row' = row + 1
  /\ overflow' = Overflows
  /\ fibo_int' = [fibo_int EXCEPT ![row] =
                    IF row > 1 THEN (fibo_int[row - 1] + fibo_int[row - 2]) % Wide ELSE 1]
  /\ fibo_dbl' = IF row > 1
                 THEN [Stored EXCEPT ![row] = Stored[row - 2] + Stored[row - 1]]
                 ELSE fibo_dbl
  /\ LET cur == IF overflow' THEN fibo_dbl'[row] ELSE fibo_int'[row]
     IN  shown' = Append(shown, [number |-> cur, unit |-> Unit(fibo_int'[row], cur)])

FibonasciiNext == (\E junk \in Junk : Main(junk)) \/ Row

-------------------------------------------------------------------------------

\* The number is at least one in its unit, and less than a thousand.
InUnit(number, unit) ==
  /\ unit > 0 => Limit[unit] <= number
  /\ unit < 8 => number < Limit[unit + 1]

(***************************************************************************)
(* The numbers are the sums of the two before, whatever was in memory, and *)
(* go on as they should where an unsigned long has no room any more.  They *)
(* are shown in the unit that fits, but for those that are less than       *)
(* SIZE_MAX_BYTE once they came around.                                    *)
(***************************************************************************)
FibonasciiIsRight ==
  \A r \in DOMAIN shown :
    LET number == shown[r].number
    IN  /\ number = IF r <= 2 THEN 1 ELSE shown[r - 1].number + shown[r - 2].number
        /\ number < Wide \/ number % Wide >= Limit[1] => InUnit(number, shown[r].unit)

===============================================================================
