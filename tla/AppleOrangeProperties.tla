----------------------- MODULE AppleOrangeProperties -----------------------
(***************************************************************************)
(* What is checked and proved of the apples and oranges.                   *)
(***************************************************************************)
EXTENDS AppleOrange

\* What the asserts say of an operation on two words, or of a round of div.
OperationsAgree ==
  \A a, b \in Word :
    /\ add[<<a, b>>] = (a + b) % pow2[bit_width]
    /\ sub[<<a, b>>] = (a - b) % pow2[bit_width]
    /\ mul[<<a, b>>] = (a * b) % pow2[bit_width]
    /\ b # 0 => /\ div[<<a, b>>] = a \div b
                /\ \A n \in 0 .. bit_width - Shift(b) - 1 :
                     div_dividend(a, b)[n] < ShiftLeft(b, n)

(* config.hpp:38, 47, 71, 88 and 92: the loops over the bits calculate what *)
(* unsigned arithmetic calculates, for every pair of words: sums and        *)
(* products wrap, and in every round of div less is left than was           *)
(* subtracted, up to divisors whose highest bit is set.  What the threads   *)
(* add, and add to, are words at any time, so the asserts hold of it.       *)
AssertsHold ==
  /\ OperationsAgree
  /\ \A t \in Summer : sum[t] \in Word /\ (i[t] < Max(t) => Term(t, i[t]) \in Word)

(* The programs are as parallel as they are named: no two, or no three,     *)
(* sums are calculated at a time, by the order of create and join in two    *)
(* functions that know nothing of each other.                               *)
ParallelAsNamed ==
  Cardinality({t \in Summer : state[t] = "running"})
    <= CASE program = "serial" -> 1 [] program = "parallel_2" -> 2 [] OTHER -> 3

(* main prints and deletes the sums when nobody uses them any more, though  *)
(* it joins two of the four threads only.                                   *)
NobodyOutlivesMain ==
  at["main"] > 4 => \A t \in Summer : state[t] = "ended" /\ seen[t] = Unread

\* What the orange and the parts of the apple add in round n, and the sums of the
\* first terms, in the arithmetic of uint32_t.
PlainTerm(t, n) ==
  CASE t = "part_a" -> ((n * apple_a_mul) % pow2[bit_width]) \div apple_a_div
    [] t = "part_b" -> ((n * apple_b_mul) % pow2[bit_width]) \div apple_b_div
    [] t = "orange" -> orange_init_a * orange_ka + orange_init_b * orange_kb

Totals(t) ==
  LET total[n \in 0 .. Max(t)] ==
        IF n = 0 THEN 0 ELSE (total[n - 1] + PlainTerm(t, n - 1)) % pow2[bit_width]
  IN  total

Total(t) == Totals(t)[Max(t)]

(* Every program ends with the three sums of the serial one.                *)
EndsWithTheSums ==
  <>(state["main"] = "ended" /\ \A t \in Summer : sum[t] = Total(t))
=============================================================================
