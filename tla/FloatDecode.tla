------------------------------ MODULE FloatDecode ------------------------------
(***************************************************************************)
(* C/float.c: the fields of a float are made the number they stand for.  A *)
(* step is a bit of the mantissa.  Numbers are in units of the smallest    *)
(* bit there is; the sign is left apart.                                   *)
(***************************************************************************)
EXTENDS Integers

CONSTANTS ExpBits, MantBits \* of a float: 8 and 23

Bias == 2 ^ (ExpBits - 1) - 1
AllOnes == 2 ^ ExpBits - 1

\* More than there is a power of anywhere.
LastPower == ExpBits + 2 ^ ExpBits + 2 ^ ExpBits + MantBits

\* Floats have fewer bits than their exponents reach.  Of powers nothing is taken but how
\* they are defined.
ASSUME FloatAssumption ==
  /\ ExpBits \in Nat /\ MantBits \in Nat /\ ExpBits > 2
  /\ 2 ^ ExpBits \in Nat
  /\ MantBits <= 2 ^ (ExpBits - 1)
  /\ 2 ^ 0 = 1
  /\ \A k \in 0 .. LastPower : 2 ^ k \in Nat /\ 2 ^ (k + 1) = 2 * 2 ^ k

VARIABLES bits,       \* the exponent and the mantissa that are given
          exponent,   \* as an unsigned char
          mantissa,
          bit,        \* of the mantissa that is next, from MantBits down
          floatValue,
          decoding

floatVars == <<bits, exponent, mantissa, bit, floatValue, decoding>>

Infinity == -1

FloatTypeOK ==
  /\ bits \in [exponent : 0 .. AllOnes, mantissa : 0 .. 2 ^ MantBits - 1]
  /\ exponent \in 0 .. AllOnes
  /\ mantissa \in 0 .. 2 ^ (MantBits + 1) - 1
  /\ bit \in 0 .. MantBits
  /\ floatValue \in Nat \cup {Infinity}
  /\ decoding \in {"idle", "bits", "done"}

FloatInit ==
  /\ bits = [exponent |-> 0, mantissa |-> 0]
  /\ exponent = 0 /\ mantissa = 0 /\ bit = 0
  /\ floatValue = 0
  /\ decoding = "idle"

-------------------------------------------------------------------------------

\* exponent is an unsigned char: one that is negative comes around.
Unsigned(k) == k % 2 ^ ExpBits

\* Zero, infinities and what is not a number are all 0.
binary_to_float(e, m) ==
  /\ decoding = "idle"
  /\ bits' = [exponent |-> e, mantissa |-> m]
  /\ IF e = AllOnes \/ (e = 0 /\ m = 0)
     THEN decoding' = "done" /\ UNCHANGED <<exponent, mantissa, bit>>
     ELSE /\ exponent' = Unsigned(IF e = 0 THEN 1 - Bias ELSE e - Bias)
          /\ mantissa' = IF e = 0 THEN m ELSE m + 2 ^ MantBits
          /\ bit' = MantBits
          /\ decoding' = "bits"
  /\ UNCHANGED floatValue

\* MUTANT of Power: the exponent is that of the last bit.
PowerOfLast == bit + MantBits + exponent + Bias - 1

\* Of the unit, in what a set bit adds.
Power == bit + exponent + Bias - 1

IsSet == (mantissa \div 2 ^ bit) % 2 = 1

\* (float)pow is infinite beyond the range, and so is what it is added to.
AddBit ==
  /\ decoding = "bits"
  /\ floatValue' = IF ~IsSet \/ floatValue = Infinity THEN floatValue
                   ELSE IF Power - MantBits + 1 > 2 * Bias THEN Infinity
                   ELSE floatValue + 2 ^ Power
  /\ IF bit = 0 THEN decoding' = "done" /\ UNCHANGED bit
     ELSE bit' = bit - 1 /\ UNCHANGED decoding
  /\ UNCHANGED <<bits, exponent, mantissa>>

FloatNext ==
  \/ \E e \in 0 .. AllOnes, m \in 0 .. 2 ^ MantBits - 1 : binary_to_float(e, m)
  \/ AddBit

-------------------------------------------------------------------------------

(***************************************************************************)
(* Zero, and the numbers from one on, which are the ones whose exponent is *)
(* not negative, are decoded exactly.                                      *)
(***************************************************************************)
FloatIsRight ==
  decoding = "done" =>
    LET e == bits.exponent
        m == bits.mantissa
    IN  /\ e = 0 /\ m = 0 => floatValue = 0
        /\ e >= Bias /\ e < AllOnes => floatValue = (2 ^ MantBits + m) * 2 ^ (e - 1)

(***************************************************************************)
(* Numbers are converted "as specified by the IEEE Standard for            *)
(* Floating-Point Arithmetic (IEEE 754)" (float.c:47-48), here those below *)
(* one that are not denormalized.  Their exponent is negative, and comes   *)
(* around in an unsigned char.                                             *)
(***************************************************************************)
SmallNumbersAreDecoded ==
  decoding = "done" =>
    LET e == bits.exponent
        m == bits.mantissa
    IN  e > 0 /\ e < Bias => floatValue = (2 ^ MantBits + m) * 2 ^ (e - 1)

===============================================================================
