--------------------------- MODULE BitArithmetic ---------------------------
(***************************************************************************)
(* lab5-multithreading/src/config.hpp: the operations on unsigned words    *)
(* that the programs calculate with.  Each is one loop over the bits; a    *)
(* local variable is a function of the number of its rounds.               *)
(***************************************************************************)
EXTENDS Integers

CONSTANT bit_width

ASSUME WidthAssumption == bit_width \in Nat \ {0}

\* 1 << n; as a number, so that 1 << bit_width is one more than the largest word.
pow2[n \in 0 .. bit_width] == IF n = 0 THEN 1 ELSE 2 * pow2[n - 1]

Word == 0 .. pow2[bit_width] - 1
Bit(a, n) == (a \div pow2[n]) % 2
ShiftLeft(a, n) == (a * pow2[n]) % pow2[bit_width]
Complement(a) == pow2[bit_width] - 1 - a

\* The local variables of add after n rounds.
add_carry(a, b) ==
  LET carry[n \in 0 .. bit_width] ==
        IF n = 0 THEN 0 ELSE (Bit(a, n - 1) + Bit(b, n - 1) + carry[n - 1]) \div 2
  IN  carry

add_result(a, b) ==
  LET result[n \in 0 .. bit_width] ==
        IF n = 0 THEN 0
        ELSE result[n - 1]
               + ShiftLeft((Bit(a, n - 1) + Bit(b, n - 1) + add_carry(a, b)[n - 1]) % 2, n - 1)
  IN  result

add[w \in Word \X Word] == add_result(w[1], w[2])[bit_width]

sub[w \in Word \X Word] == add[<<w[1], add[<<Complement(w[2]), 1>>]>>]

\* The local variables of mul after n rounds.
mul_tmp(a) ==
  LET tmp[n \in 0 .. bit_width] == IF n = 0 THEN a ELSE add[<<tmp[n - 1], tmp[n - 1]>>]
  IN  tmp

mul_result(a, b) ==
  LET result[n \in 0 .. bit_width] ==
        IF n = 0 THEN 0
        ELSE IF Bit(b, n - 1) = 1 THEN add[<<result[n - 1], mul_tmp(a)[n - 1]>>] ELSE result[n - 1]
  IN  result

mul[w \in Word \X Word] == mul_result(w[1], w[2])[bit_width]

(* A slip of the pen, a wrong variant of Shift that is part of no           *)
(* specification: AssertsHold of AppleOrangeProperties fails with it.       *)
ShiftAboveZero(b) == IF b <= 1 THEN bit_width
                     ELSE CHOOSE n \in 1 .. bit_width - 1 : Bit(b, n) = 1 /\ b < pow2[n + 1]

\* The highest bit of b that is set, bit_width if there is none.
Shift(b) == IF b = 0 THEN bit_width
            ELSE CHOOSE n \in 0 .. bit_width - 1 : Bit(b, n) = 1 /\ b < pow2[n + 1]

\* The local variables of div when b has been subtracted, where it can be, with
\* every shift down to n.
div_dividend(a, b) ==
  LET dividend[n \in 0 .. bit_width] ==
        IF n + Shift(b) >= bit_width THEN a
        ELSE IF dividend[n + 1] >= ShiftLeft(b, n) THEN sub[<<dividend[n + 1], ShiftLeft(b, n)>>]
        ELSE dividend[n + 1]
  IN  dividend

div_quotient(a, b) ==
  LET quotient[n \in 0 .. bit_width] ==
        IF n + Shift(b) >= bit_width THEN 0
        ELSE IF div_dividend(a, b)[n + 1] >= ShiftLeft(b, n) THEN quotient[n + 1] + pow2[n]
        ELSE quotient[n + 1]
  IN  quotient

div[w \in Word \X Word] == div_quotient(w[1], w[2])[0]
=============================================================================
