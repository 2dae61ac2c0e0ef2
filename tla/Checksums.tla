----------------------------- MODULE Checksums ------------------------------
(***************************************************************************)
(* The check digits of tracking numbers, upsChecksumValid,                 *)
(* s10ChecksumValid and uspsMod10Valid of internal/shipments, and what     *)
(* they are for: a number copied with one digit wrong.                     *)
(*                                                                         *)
(* A number is its digits; a letter of a UPS number counts as the digit    *)
(* the code makes of it.  The last digit is the check digit.               *)
(***************************************************************************)
EXTENDS Integers, SequencesExt

CONSTANTS
  Serial,  \* scheme -> the serial parts numbers are made of
  Scheme   \* the schemes looked at

VARIABLES scheme, number, original

vars == <<scheme, number, original>>

Digit == 0..9

Odd(i) == i % 2 = 1

(* The weight of the i-th digit; the code counts from 0. *)
S10Weights == <<8, 6, 4, 2, 3, 5, 9, 7>>
FlatWeight(kind, i) == IF kind = "s10" THEN S10Weights[i] ELSE 2
Weight(kind, i) ==
  CASE kind = "ups"  -> IF Odd(i) THEN 1 ELSE 2
    [] kind = "usps" -> IF Odd(i) THEN 3 ELSE 1
    [] kind = "s10"  -> S10Weights[i]

(* The sum after each digit, from the left; the last one counts. *)
Sum(kind, serial) ==
  LET sum[i \in 0..Len(serial)] == IF i = 0 THEN 0 ELSE sum[i - 1] + Weight(kind, i) * serial[i]
  IN sum[Len(serial)]

Remainder(kind, serial) == Sum(kind, serial) % (IF kind = "s10" THEN 11 ELSE 10)

(* The expected check digit. *)
Expected(kind, serial) ==
  LET rem == Remainder(kind, serial)
  IN IF kind # "s10" THEN (10 - rem) % 10
     ELSE IF rem = 1 THEN 0 ELSE IF rem = 0 THEN 5 ELSE 11 - rem

Valid(kind, digits) == Expected(kind, Front(digits)) = Last(digits)

Init ==
  /\ scheme \in Scheme
  /\ \E serial \in Serial[scheme] : number = Append(serial, Expected(scheme, serial))
  /\ original = number

(* One digit is copied wrong. *)
Mistype ==
  /\ number = original
  /\ \E i \in DOMAIN number, d \in Digit :
       d # number[i] /\ number' = [number EXCEPT ![i] = d]
  /\ UNCHANGED <<scheme, original>>

Next == Mistype

Spec == Init /\ [][Next]_vars

-----------------------------------------------------------------------------
TypeOK == scheme \in Scheme /\ {number, original} \subseteq Seq(Digit)

(* What a check digit cannot see: in UPS numbers five more or less at a    *)
(* doubled place, for 2 * 5 is 10; in S10 numbers the remainders 0 and 6,  *)
(* which both give 5.                                                      *)
Blind ==
  \/ scheme = "ups" /\ \E i \in DOMAIN Front(number) :
       ~Odd(i) /\ number[i] - original[i] \in {-5, 5}
  \/ scheme = "s10" /\ {Remainder("s10", Front(number)), Remainder("s10", Front(original))} = {0, 6}

(* A number with one wrong digit is not taken for certain -- save where    *)
(* the scheme is blind, and there it is taken.                             *)
TypoIsCaught == number # original => (Valid(scheme, number) = Blind)
=============================================================================
