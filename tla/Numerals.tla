------------------------------ MODULE Numerals ------------------------------
(***************************************************************************)
(* How format! writes a number that is not negative, with {} or {:x}: its  *)
(* digits in the base of an alphabet, without leading zeros.               *)
(***************************************************************************)
EXTENDS Integers, Sequences

Numeral(digits) ==
  LET written[n \in Nat] ==
        IF n < Len(digits) THEN <<digits[n + 1]>>
        ELSE Append(written[n \div Len(digits)], digits[(n % Len(digits)) + 1])
  IN  written
=============================================================================
