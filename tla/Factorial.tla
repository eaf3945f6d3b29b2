------------------------------- MODULE Factorial -------------------------------
(***************************************************************************)
(* C/factorial.c: the factorial, in four versions.  A step is one          *)
(* multiplication.                                                         *)
(***************************************************************************)
EXTENDS Integers

CONSTANTS W,       \* an unsigned long is in 0 .. W - 1
          Largest, \* bound: what the factorial of is asked for
          Product  \* the factorials, without a bound

ASSUME ProductAssumption ==
  /\ W \in Nat /\ Largest \in Nat /\ Largest < W /\ 1 < W
  /\ Product \in [0 .. Largest -> Nat]
  /\ Product[0] = 1
  /\ \A k \in 1 .. Largest : Product[k] = k * Product[k - 1]

Versions == {"recursive", "while", "for", "asm"}

VARIABLES version, number, \* what is called, and for what
          n,               \* counts; rcx in the assembler version
          product,         \* x, or rax
          multiplying      \* what it does

factorialVars == <<version, number, n, product, multiplying>>

FactorialTypeOK ==
  /\ version \in Versions
  /\ number \in 0 .. Largest
  /\ n \in 0 .. W - 1
  /\ product \in 0 .. W - 1
  /\ multiplying \in {"idle", "multiply", "done"}

FactorialInit ==
  /\ version = "recursive"
  /\ number = 0 /\ n = 0 /\ product = 0
  /\ multiplying = "idle"

-------------------------------------------------------------------------------

\* All versions know the factorial of zero.  The recursive one has called itself down
\* to it before it multiplies, the others start with the number.
factorial(v, k) ==
  /\ multiplying = "idle"
  /\ version' = v /\ number' = k
  /\ product' = IF v = "recursive" \/ k = 0 THEN 1 ELSE k
  /\ n' = IF v = "recursive" \/ k = 0 THEN 0 ELSE IF v = "asm" THEN k - 1 ELSE k
  /\ multiplying' = IF k = 0 THEN "done" ELSE "multiply"

\* A return, to the call for the next number.
ReturnsTo ==
  /\ version = "recursive"
  /\ n' = n + 1
  /\ product' = ((n + 1) * product) % W
  /\ multiplying' = IF n + 1 = number THEN "done" ELSE "multiply"

\* MUTANT of Downwards: the number is multiplied by before it is decremented.
DownwardsLate ==
  /\ version \in {"while", "for"}
  /\ n' = IF n > 1 THEN n - 1 ELSE n
  /\ product' = IF n > 1 THEN (product * n) % W ELSE product
  /\ multiplying' = IF n > 1 THEN "multiply" ELSE "done"

\* The loops of factorial_while and factorial_for.
Downwards ==
  /\ version \in {"while", "for"}
  /\ n' = IF n > 1 THEN n - 1 ELSE n
  /\ product' = IF n > 1 THEN (product * (n - 1)) % W ELSE product
  /\ multiplying' = IF n > 1 THEN "multiply" ELSE "done"

\* The loop at FACTORIAL: rcx is tested after it is decremented, and so comes around
\* from zero.
Decremented ==
  /\ version = "asm"
  /\ product' = (product * n) % W
  /\ n' = (n + W - 1) % W
  /\ multiplying' = IF n' = 0 THEN "done" ELSE "multiply"

Multiply ==
  /\ multiplying = "multiply"
  /\ ReturnsTo \/ Downwards \/ Decremented
  /\ UNCHANGED <<version, number>>

FactorialNext ==
  \/ \E v \in Versions, k \in 0 .. Largest : factorial(v, k)
  \/ Multiply

-------------------------------------------------------------------------------

(***************************************************************************)
(* Every version answers the factorial as far as an unsigned long has room *)
(* for it.  The assembler version multiplies by zero for 1, and 1 is all   *)
(* it is wrong for.                                                        *)
(***************************************************************************)
FactorialIsRight ==
  multiplying = "done" =>
    product = IF version = "asm" /\ number = 1 THEN 0 ELSE Product[number] % W

===============================================================================
