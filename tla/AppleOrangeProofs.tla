------------------------- MODULE AppleOrangeProofs -------------------------
(***************************************************************************)
(* Proofs about the arithmetic and the threads of the apples and oranges,  *)
(* for any number of rounds and words of any width.                        *)
(***************************************************************************)
EXTENDS AppleOrangeProperties, FiniteSetTheorems, WellFoundedInduction, TLAPS

-----------------------------------------------------------------------------
(* Induction *)

(* Induction over the natural numbers, for a set instead of a predicate, to *)
(* which the provers cannot apply a theorem. *)
LEMMA SetInduction ==
  ASSUME NEW S, 0 \in S, \A n \in Nat : n \in S => n + 1 \in S
  PROVE  \A n \in Nat : n \in S
<1> DEFINE T == Nat \ S
<1>1. SUFFICES ASSUME T # {} PROVE FALSE
  OBVIOUS
<1>2. PICK x \in T : \A y \in T : <<y, x>> \notin OpToRel(<, Nat)
  <2>1. T \subseteq Nat
    OBVIOUS
  <2> HIDE DEF T
  <2> QED
    BY <1>1, <2>1, NatLessThanWellFounded, WFMin
<1>3. x \in Nat \ {0} /\ x - 1 \in Nat
  OBVIOUS
<1>4. <<x - 1, x>> \in OpToRel(<, Nat)
  BY <1>3 DEF OpToRel
<1>5. x - 1 \in S
  BY <1>2, <1>3, <1>4
<1> QED
  BY <1>3, <1>5

(* Two functions agree if they do so at 0 and from each argument to the next. *)
LEMMA Agree ==
  ASSUME NEW N \in Nat, NEW f, NEW g, f[0] = g[0],
         \A n \in 1 .. N : f[n - 1] = g[n - 1] => f[n] = g[n]
  PROVE  \A n \in 0 .. N : f[n] = g[n]
<1> DEFINE S == {n \in Nat : n <= N => f[n] = g[n]}
<1>1. 0 \in S
  OBVIOUS
<1>2. ASSUME NEW n \in Nat, n \in S PROVE n + 1 \in S
  <2> SUFFICES ASSUME n + 1 <= N PROVE f[n + 1] = g[n + 1]
    OBVIOUS
  <2>1. n + 1 \in 1 .. N /\ (n + 1) - 1 = n /\ f[n] = g[n]
    BY <1>2
  <2> QED
    BY <2>1
<1> HIDE DEF S
<1>3. \A n \in Nat : n \in S
  BY <1>1, <1>2, SetInduction
<1> QED
  BY <1>3 DEF S

\* A descending loop: two functions agree if they do so at the last argument
\* and from each to the one before.
LEMMA AgreeDown ==
  ASSUME NEW N \in Nat, NEW f, NEW g, f[N] = g[N],
         \A n \in 0 .. N - 1 : f[n + 1] = g[n + 1] => f[n] = g[n]
  PROVE  \A n \in 0 .. N : f[n] = g[n]
<1> DEFINE S == {k \in Nat : k <= N => f[N - k] = g[N - k]}
<1>1. 0 \in S
  OBVIOUS
<1>2. ASSUME NEW k \in Nat, k \in S PROVE k + 1 \in S
  <2> SUFFICES ASSUME k + 1 <= N PROVE f[N - (k + 1)] = g[N - (k + 1)]
    OBVIOUS
  <2> DEFINE n == N - (k + 1)
  <2>1. n \in 0 .. N - 1 /\ n + 1 = N - k /\ f[N - k] = g[N - k]
    BY <1>2
  <2> HIDE DEF n
  <2>2. f[n] = g[n]
    BY <2>1
  <2> QED
    BY <2>2 DEF n
<1> HIDE DEF S
<1>3. \A k \in Nat : k \in S
  BY <1>1, <1>2, SetInduction
<1>4. ASSUME NEW n \in 0 .. N PROVE f[n] = g[n]
  <2> DEFINE k == N - n
  <2>1. k \in Nat /\ k <= N /\ N - k = n
    OBVIOUS
  <2> HIDE DEF k
  <2> QED
    BY <1>3, <2>1 DEF S
<1> QED
  BY <1>4

(* A recursive definition on the first natural numbers defines a function.  *)
LEMMA RecursionDefines ==
  \A first \in Nat, step \in [Nat \X Nat -> Nat], N \in Nat :
    \E f \in [0 .. N -> Nat] :
      f[0] = first /\ \A n \in 1 .. N : f[n] = step[<<n, f[n - 1]>>]
<1> SUFFICES ASSUME NEW first \in Nat, NEW step \in [Nat \X Nat -> Nat], NEW N \in Nat
             PROVE  \E f \in [0 .. N -> Nat] :
                      f[0] = first /\ \A n \in 1 .. N : f[n] = step[<<n, f[n - 1]>>]
  OBVIOUS
<1> DEFINE Is(M, f) == f[0] = first /\ \A n \in 1 .. M : f[n] = step[<<n, f[n - 1]>>]
           S == {M \in Nat : \E f \in [0 .. M -> Nat] : Is(M, f)}
<1>1. 0 \in S
  <2> DEFINE g == [n \in 0 .. 0 |-> first]
  <2>1. g \in [0 .. 0 -> Nat] /\ Is(0, g)
    OBVIOUS
  <2> QED
    BY <2>1
<1>2. ASSUME NEW M \in Nat, M \in S PROVE M + 1 \in S
  <2>1. PICK f \in [0 .. M -> Nat] : Is(M, f)
    BY <1>2
  <2> DEFINE last == step[<<M + 1, f[M]>>]
             g == [n \in 0 .. M + 1 |-> IF n <= M THEN f[n] ELSE last]
  <2>2. last \in Nat
    OBVIOUS
  <2> HIDE DEF last
  <2>3. /\ g \in [0 .. M + 1 -> Nat] /\ g[0] = first /\ g[M + 1] = last
        /\ \A n \in 0 .. M : g[n] = f[n]
    BY <2>1, <2>2
  <2> HIDE DEF g
  <2>4. ASSUME NEW n \in 1 .. M + 1 PROVE g[n] = step[<<n, g[n - 1]>>]
    <3>1. CASE n \in 1 .. M
      <4>1. g[n] = f[n] /\ g[n - 1] = f[n - 1] /\ f[n] = step[<<n, f[n - 1]>>]
        BY <2>1, <2>3, <3>1
      <4> QED
        BY <4>1
    <3>2. CASE n = M + 1
      <4>1. g[n - 1] = f[M] /\ g[n] = step[<<M + 1, f[M]>>]
        BY <2>3, <3>2 DEF last
      <4> QED
        BY <3>2, <4>1
    <3> QED
      BY <3>1, <3>2
  <2>5. Is(M + 1, g)
    BY <2>3, <2>4
  <2> HIDE DEF Is
  <2> QED
    BY <2>3, <2>5
<1> HIDE DEF S
<1>3. N \in S
  BY <1>1, <1>2, SetInduction
<1> QED
  BY <1>3 DEF S

-----------------------------------------------------------------------------
(* Quotients and remainders *)

LEMMA DivMod ==
  ASSUME NEW a \in Int, NEW m \in Nat \ {0}
  PROVE  /\ a \div m \in Int /\ (a % m) \in 0 .. m - 1
         /\ a = (a \div m) * m + (a % m)
OBVIOUS

LEMMA DivModUnique ==
  ASSUME NEW a \in Int, NEW m \in Nat \ {0}, NEW q \in Int, NEW r \in 0 .. m - 1,
         a = q * m + r
  PROVE  a \div m = q /\ (a % m) = r
<1> DEFINE d == a \div m
           e == a % m
<1>1. d \in Int /\ e \in 0 .. m - 1 /\ a = d * m + e
  BY DivMod
<1> HIDE DEF d, e
<1>2. (d - q) * m = r - e
  BY <1>1
<1>3. d - q = 0
  <2>1. d - q \in Int /\ (d - q >= 1 => (d - q) * m >= m) /\ (d - q <= -1 => (d - q) * m <= -m)
    BY <1>1
  <2> QED
    BY <1>1, <1>2, <2>1
<1>4. d = q /\ e = r
  BY <1>1, <1>2, <1>3
<1> QED
  BY <1>4 DEF d, e

LEMMA ModAdd ==
  ASSUME NEW a \in Int, NEW b \in Int, NEW m \in Nat \ {0}
  PROVE  (((a % m) + b) % m) = ((a + b) % m)
<1> DEFINE q == a \div m
           r == a % m
           p == (r + b) \div m
           s == (r + b) % m
<1>1. q \in Int /\ r \in 0 .. m - 1 /\ a = q * m + r
  BY DivMod
<1>2. p \in Int /\ s \in 0 .. m - 1 /\ r + b = p * m + s
  <2>1. r + b \in Int
    BY <1>1
  <2> HIDE DEF r
  <2> QED
    BY <2>1, DivMod
<1> HIDE DEF q, r, p, s
<1>3. a + b = (q + p) * m + s /\ q + p \in Int
  BY <1>1, <1>2
<1>4. (a + b) % m = s
  BY <1>2, <1>3, DivModUnique
<1> QED
  BY <1>4 DEF r, s

-----------------------------------------------------------------------------
(* Powers of two *)

LEMMA Powers ==
  /\ pow2[0] = 1
  /\ \A n \in 1 .. bit_width : pow2[n] = 2 * pow2[n - 1]
<1> DEFINE step == [x \in Nat \X Nat |-> 2 * x[2]]
           Body(f) == [n \in 0 .. bit_width |-> IF n = 0 THEN 1 ELSE 2 * f[n - 1]]
<1>1. bit_width \in Nat /\ 1 \in Nat /\ step \in [Nat \X Nat -> Nat]
  BY WidthAssumption
<1>2. PICK f \in [0 .. bit_width -> Nat] :
        f[0] = 1 /\ \A n \in 1 .. bit_width : f[n] = step[<<n, f[n - 1]>>]
  <2> HIDE DEF step
  <2> QED
    <3>1. \A s \in [Nat \X Nat -> Nat], N \in Nat :
            \E f \in [0 .. N -> Nat] : f[0] = 1 /\ \A n \in 1 .. N : f[n] = s[<<n, f[n - 1]>>]
      BY <1>1, RecursionDefines, Zenon
    <3> QED
      BY <1>1, <3>1, Zenon
<1>3. f = Body(f)
  <2>1. ASSUME NEW n \in 0 .. bit_width PROVE f[n] = IF n = 0 THEN 1 ELSE 2 * f[n - 1]
    <3>1. n # 0 => n \in 1 .. bit_width /\ n \in Nat /\ n - 1 \in 0 .. bit_width
      BY <1>1
    <3>2. n # 0 => f[n - 1] \in Nat
      BY <3>1
    <3>3. n # 0 => f[n] = step[<<n, f[n - 1]>>]
      BY <1>2, <3>1, Zenon
    <3> QED
      BY <1>2, <3>1, <3>2, <3>3
  <2> HIDE DEF step
  <2> QED
    BY <2>1
<1>4. pow2 = Body(pow2)
  <2>1. pow2 = CHOOSE g : g = Body(g)
    BY DEF pow2
  <2> HIDE DEF Body
  <2> QED
    BY <1>3, <2>1
<1>5. ASSUME NEW n \in 0 .. bit_width PROVE pow2[n] = IF n = 0 THEN 1 ELSE 2 * pow2[n - 1]
  <2> DEFINE value(n_1) == IF n_1 = 0 THEN 1 ELSE 2 * pow2[n_1 - 1]
  <2>1. pow2 = [n_1 \in 0 .. bit_width |-> value(n_1)]
    BY <1>4
  <2> HIDE DEF value
  <2>2. pow2[n] = value(n)
    BY <2>1
  <2> QED
    BY <2>2 DEF value
<1> QED
  BY <1>1, <1>5

LEMMA PowerType == \A n \in 0 .. bit_width : pow2[n] \in Nat \ {0}
<1> DEFINE S == {n \in Nat : n <= bit_width => pow2[n] \in Nat \ {0}}
<1> USE WidthAssumption
<1>1. 0 \in S
  BY Powers
<1>2. ASSUME NEW n \in Nat, n \in S PROVE n + 1 \in S
  <2> SUFFICES ASSUME n + 1 <= bit_width PROVE pow2[n + 1] \in Nat \ {0}
    OBVIOUS
  <2>1. pow2[n] \in Nat \ {0} /\ pow2[n + 1] = 2 * pow2[n]
    BY <1>2, Powers
  <2> QED
    BY <2>1
<1> HIDE DEF S
<1>3. \A n \in Nat : n \in S
  BY <1>1, <1>2, SetInduction
<1> QED
  BY <1>3 DEF S

LEMMA PowerSum ==
  \A m \in Nat, n \in Nat : m + n <= bit_width => pow2[m + n] = pow2[m] * pow2[n]
<1> SUFFICES ASSUME NEW m \in Nat
             PROVE  \A n \in Nat : m + n <= bit_width => pow2[m + n] = pow2[m] * pow2[n]
  OBVIOUS
<1> DEFINE S == {n \in Nat : m + n <= bit_width => pow2[m + n] = pow2[m] * pow2[n]}
<1> USE WidthAssumption
<1>1. 0 \in S
  BY Powers, PowerType
<1>2. ASSUME NEW n \in Nat, n \in S PROVE n + 1 \in S
  <2> SUFFICES ASSUME m + (n + 1) <= bit_width PROVE pow2[m + (n + 1)] = pow2[m] * pow2[n + 1]
    OBVIOUS
  <2>1. pow2[m + n] = pow2[m] * pow2[n]
    BY <1>2
  <2>2. pow2[m + (n + 1)] = 2 * pow2[m + n] /\ pow2[n + 1] = 2 * pow2[n]
    BY Powers
  <2>3. pow2[m] \in Nat /\ pow2[n] \in Nat
    BY PowerType
  <2> QED
    BY <2>1, <2>2, <2>3
<1> HIDE DEF S
<1>3. \A n \in Nat : n \in S
  BY <1>1, <1>2, SetInduction
<1> QED
  BY <1>3 DEF S

LEMMA PowerGrows ==
  \A m \in Nat, n \in Nat : m <= n /\ n <= bit_width => pow2[m] <= pow2[n]
<1> SUFFICES ASSUME NEW m \in Nat, NEW n \in Nat, m <= n, n <= bit_width
             PROVE  pow2[m] <= pow2[n]
  OBVIOUS
<1> DEFINE p == pow2[m]
           q == pow2[n - m]
<1>1. pow2[n] = p * q
  BY PowerSum
<1>2. p \in Nat \ {0} /\ q \in Nat \ {0}
  <2>1. m \in 0 .. bit_width /\ n - m \in 0 .. bit_width
    BY WidthAssumption
  <2> QED
    BY <2>1, PowerType
<1> HIDE DEF p, q
<1>3. p <= p * q
  BY <1>2
<1> QED
  BY <1>1, <1>3 DEF p

(* The low bits of a number, and the next one. *)
LEMMA LowBits ==
  ASSUME NEW a \in Nat, NEW n \in 0 .. bit_width - 1
  PROVE  /\ Bit(a, n) \in {0, 1}
         /\ (a % pow2[n + 1]) = (a % pow2[n]) + Bit(a, n) * pow2[n]
<1> DEFINE p == pow2[n]
           q == a \div p
           r == a % p
           d == q \div 2
           e == q % 2
<1>1. p \in Nat \ {0} /\ pow2[n + 1] = 2 * p
  BY Powers, PowerType, WidthAssumption
<1> HIDE DEF p
<1>2. q \in Int /\ r \in 0 .. p - 1 /\ a = q * p + r
  <2>1. a \in Int
    OBVIOUS
  <2> QED
    BY <1>1, <2>1, DivMod
<1> HIDE DEF q, r
<1>4. d \in Int /\ e \in 0 .. 1 /\ q = d * 2 + e
  BY <1>2, DivMod
<1> HIDE DEF d, e
<1>5. a = d * (2 * p) + (e * p + r) /\ e * p + r \in 0 .. 2 * p - 1
  BY <1>1, <1>2, <1>4
<1>6. (a % (2 * p)) = e * p + r
  <2>1. a \in Int /\ 2 * p \in Nat \ {0}
    BY <1>1
  <2> QED
    BY <1>4, <1>5, <2>1, DivModUnique
<1> QED
  BY <1>1, <1>4, <1>6 DEF e, q, r, p, Bit

\* The remainders of a number that is not negative and too small to wrap.
LEMMA SmallMod ==
  ASSUME NEW m \in Nat \ {0}, NEW a \in 0 .. m - 1
  PROVE  (a % m) = a /\ a \div m = 0
<1>1. a \in Int /\ 0 \in Int /\ a = 0 * m + a
  OBVIOUS
<1> QED
  BY <1>1, DivModUnique

LEMMA Words ==
  /\ pow2[bit_width] \in Nat \ {0}
  /\ \A a \in Word : a \in Nat /\ a < pow2[bit_width] /\ (a % pow2[bit_width]) = a
<1> DEFINE W == pow2[bit_width]
<1>1. W \in Nat \ {0}
  BY PowerType, WidthAssumption
<1> HIDE DEF W
<1>2. \A a \in 0 .. W - 1 : a \in Nat /\ a < W /\ (a % W) = a
  BY <1>1, SmallMod
<1> QED
  BY <1>1, <1>2 DEF Word, W

-----------------------------------------------------------------------------
(* add *)

\* The sum of the low bits of a and b.
LowSum(a, b, n) == (a % pow2[n]) + (b % pow2[n])

(* A round of the adder: the carry and the result are what the sum of the   *)
(* low bits is divided by the power and what remains.                       *)
LEMMA AddRound ==
  ASSUME NEW a \in Word, NEW b \in Word, NEW n \in 0 .. bit_width - 1,
         NEW ones, ones = Bit(a, n) + Bit(b, n) + (LowSum(a, b, n) \div pow2[n])
  PROVE  /\ LowSum(a, b, n + 1) \div pow2[n + 1] = ones \div 2
         /\ (LowSum(a, b, n + 1) % pow2[n + 1])
              = (LowSum(a, b, n) % pow2[n]) + ShiftLeft(ones % 2, n)
<1> DEFINE p == pow2[n]
           W == pow2[bit_width]
           s == LowSum(a, b, n)
           carry == s \div p
           r == s % p
           d == ones \div 2
           e == ones % 2
           ones_a == Bit(a, n)
           ones_b == Bit(b, n)
<1>1. p \in Nat \ {0} /\ pow2[n + 1] = 2 * p
  BY Powers, PowerType, WidthAssumption
<1>2. W \in Nat \ {0} /\ 2 * p <= W
  <2>1. n + 1 \in Nat /\ n + 1 <= bit_width /\ bit_width \in Nat
    BY WidthAssumption
  <2> QED
    BY <1>1, <2>1, PowerGrows, PowerType
<1>3. a \in Nat /\ b \in Nat
  BY Words
<1>4. (a % p) \in Int /\ (b % p) \in Int
  <2>1. a \in Int /\ b \in Int
    BY <1>3
  <2> HIDE DEF p
  <2> QED
    BY <1>1, <2>1, DivMod
<1>5. /\ ones_a \in {0, 1} /\ ones_b \in {0, 1}
      /\ LowSum(a, b, n + 1) = s + (ones_a + ones_b) * p
  <2> DEFINE x == a % p
             y == b % p
  <2>1. /\ ones_a \in {0, 1} /\ (a % (2 * p)) = x + ones_a * p
        /\ ones_b \in {0, 1} /\ (b % (2 * p)) = y + ones_b * p
    BY <1>1, <1>3, LowBits
  <2>2. x \in Int /\ y \in Int
    BY <1>4
  <2>3. LowSum(a, b, n + 1) = (x + ones_a * p) + (y + ones_b * p) /\ s = x + y
    BY <1>1, <2>1 DEF LowSum
  <2> HIDE DEF x, y, s, ones_a, ones_b, p
  <2> QED
    BY <1>1, <2>1, <2>2, <2>3
<1>6. s \in Int
  BY <1>4 DEF LowSum
<1> HIDE DEF p, s, W
<1>7. carry \in Int /\ r \in 0 .. p - 1 /\ s = carry * p + r
  BY <1>1, <1>6, DivMod
<1>8. ones = ones_a + ones_b + carry
  BY DEF p, s
<1> HIDE DEF carry, r, ones_a, ones_b
<1>9. d \in Int /\ e \in 0 .. 1 /\ ones = d * 2 + e
  <2>1. ones \in Int
    BY <1>5, <1>7, <1>8
  <2> QED
    BY <2>1, DivMod
<1> HIDE DEF d, e
<1>10. LowSum(a, b, n + 1) = d * (2 * p) + (e * p + r) /\ e * p + r \in 0 .. 2 * p - 1
  <2>1. s + (ones_a + ones_b) * p = ones * p + r
    BY <1>1, <1>5, <1>7, <1>8
  <2>2. ones * p = d * (2 * p) + e * p
    BY <1>1, <1>9
  <2>3. e * p \in {0, p}
    BY <1>1, <1>9
  <2> QED
    BY <1>1, <1>5, <1>7, <1>9, <2>1, <2>2, <2>3
<1>11. LowSum(a, b, n + 1) \div (2 * p) = d /\ (LowSum(a, b, n + 1) % (2 * p)) = e * p + r
  <2>1. LowSum(a, b, n + 1) \in Int /\ 2 * p \in Nat \ {0}
    BY <1>1, <1>7, <1>9, <1>10
  <2> QED
    BY <1>9, <1>10, <2>1, DivModUnique
<1>12. ShiftLeft(e, n) = e * p
  <2>1. e * p \in 0 .. W - 1
    BY <1>1, <1>2, <1>9
  <2>2. ((e * p) % W) = e * p
    BY <1>2, <2>1, SmallMod
  <2> QED
    BY <2>2 DEF ShiftLeft, p, W
<1>13. r = (LowSum(a, b, n) % pow2[n])
  BY DEF r, s, p
<1> QED
  BY <1>1, <1>7, <1>11, <1>12, <1>13, <1>9 DEF d, e

LEMMA AddCarry ==
  ASSUME NEW a \in Word, NEW b \in Word
  PROVE  \A n \in 0 .. bit_width : add_carry(a, b)[n] = LowSum(a, b, n) \div pow2[n]
<1> DEFINE Body(f) == [n \in 0 .. bit_width |->
                         IF n = 0 THEN 0 ELSE (Bit(a, n - 1) + Bit(b, n - 1) + f[n - 1]) \div 2]
           g == [n \in 0 .. bit_width |-> LowSum(a, b, n) \div pow2[n]]
<1>0. bit_width \in Nat
  BY WidthAssumption
<1>1. g[0] = 0
  <2>1. (a % 1) = 0 /\ (b % 1) = 0
    BY Words
  <2>2. LowSum(a, b, 0) \div 1 = 0
    BY <2>1, Powers DEF LowSum
  <2> QED
    BY <1>0, <2>2, Powers
<1>2. ASSUME NEW n \in 1 .. bit_width
      PROVE  g[n] = (Bit(a, n - 1) + Bit(b, n - 1) + g[n - 1]) \div 2
  <2> DEFINE m == n - 1
  <2>1. m \in 0 .. bit_width - 1 /\ m + 1 = n /\ m \in 0 .. bit_width /\ n \in 0 .. bit_width
    BY <1>0
  <2> HIDE DEF m
  <2>2. g[n] = LowSum(a, b, n) \div pow2[n] /\ g[m] = LowSum(a, b, m) \div pow2[m]
    BY <2>1
  <2> HIDE DEF g
  <2>3. g[n] = (Bit(a, m) + Bit(b, m) + g[m]) \div 2
    BY <2>1, <2>2, AddRound
  <2> QED
    BY <2>3 DEF m
<1>3. g = Body(g)
  <2>1. ASSUME NEW n \in 0 .. bit_width
        PROVE  g[n] = IF n = 0 THEN 0 ELSE (Bit(a, n - 1) + Bit(b, n - 1) + g[n - 1]) \div 2
    <3> HIDE DEF g
    <3>1. n = 0 \/ n \in 1 .. bit_width
      BY <1>0
    <3> QED
      BY <1>1, <1>2, <3>1
  <2> QED
    BY <2>1
<1> DEFINE carry == add_carry(a, b)
<1>4. carry = Body(carry)
  <2>1. carry = CHOOSE f : f = Body(f)
    BY DEF add_carry
  <2> HIDE DEF g, Body
  <2> QED
    BY <1>3, <2>1
<1> HIDE DEF carry
<1>5. carry[0] = g[0]
  BY <1>0, <1>1, <1>4
<1>6. ASSUME NEW n \in 1 .. bit_width, carry[n - 1] = g[n - 1] PROVE carry[n] = g[n]
  <2>1. carry[n] = (Bit(a, n - 1) + Bit(b, n - 1) + carry[n - 1]) \div 2
    BY <1>0, <1>4
  <2> QED
    BY <1>2, <1>6, <2>1
<1>7. \A n \in 0 .. bit_width : carry[n] = g[n]
  <2> HIDE DEF g
  <2> QED
    BY <1>0, <1>5, <1>6, Agree
<1> QED
  BY <1>7 DEF carry

LEMMA AddResult ==
  ASSUME NEW a \in Word, NEW b \in Word
  PROVE  \A n \in 0 .. bit_width : add_result(a, b)[n] = (LowSum(a, b, n) % pow2[n])
<1> DEFINE Sum(n, last) ==
             last + ShiftLeft((Bit(a, n - 1) + Bit(b, n - 1) + add_carry(a, b)[n - 1]) % 2, n - 1)
           Body(f) == [n \in 0 .. bit_width |-> IF n = 0 THEN 0 ELSE Sum(n, f[n - 1])]
           g == [n \in 0 .. bit_width |-> (LowSum(a, b, n) % pow2[n])]
           result == add_result(a, b)
<1>0. bit_width \in Nat
  BY WidthAssumption
<1>1. g[0] = 0
  <2>1. (LowSum(a, b, 0) % 1) = 0
    <3>1. (a % 1) = 0 /\ (b % 1) = 0
      BY Words
    <3> QED
      BY <3>1, Powers DEF LowSum
  <2> QED
    BY <1>0, <2>1, Powers
<1>2. ASSUME NEW n \in 1 .. bit_width PROVE g[n] = Sum(n, g[n - 1])
  <2> DEFINE m == n - 1
  <2>1. m \in 0 .. bit_width - 1 /\ m + 1 = n /\ m \in 0 .. bit_width /\ n \in 0 .. bit_width
    BY <1>0
  <2> HIDE DEF m
  <2>2. g[n] = (LowSum(a, b, n) % pow2[n]) /\ g[m] = (LowSum(a, b, m) % pow2[m])
    BY <2>1
  <2> HIDE DEF g
  <2>3. g[n] = g[m] + ShiftLeft((Bit(a, m) + Bit(b, m) + add_carry(a, b)[m]) % 2, m)
    BY <2>1, <2>2, AddRound, AddCarry
  <2> QED
    BY <2>3 DEF m
<1> HIDE DEF Sum
<1>3. g = Body(g)
  <2>1. ASSUME NEW n \in 0 .. bit_width PROVE g[n] = IF n = 0 THEN 0 ELSE Sum(n, g[n - 1])
    <3> HIDE DEF g
    <3>1. n = 0 \/ n \in 1 .. bit_width
      BY <1>0
    <3> QED
      BY <1>1, <1>2, <3>1
  <2> QED
    BY <2>1
<1>4. result = Body(result)
  <2>1. result = CHOOSE f : f = Body(f)
    BY DEF add_result, Sum
  <2> HIDE DEF g, Body, result
  <2> QED
    BY <1>3, <2>1
<1> HIDE DEF result
<1>5. result[0] = g[0]
  BY <1>0, <1>1, <1>4
<1>6. ASSUME NEW n \in 1 .. bit_width, result[n - 1] = g[n - 1] PROVE result[n] = g[n]
  <2>1. result[n] = Sum(n, result[n - 1])
    BY <1>0, <1>4
  <2> QED
    BY <1>2, <1>6, <2>1
<1>7. \A n \in 0 .. bit_width : result[n] = g[n]
  <2> HIDE DEF g
  <2> QED
    BY <1>0, <1>5, <1>6, Agree, SMTT(30)
<1> QED
  BY <1>7 DEF result

(* add calculates the sum, and it wraps. *)
LEMMA Add == \A a, b \in Word : add[<<a, b>>] = ((a + b) % pow2[bit_width])
<1> SUFFICES ASSUME NEW a \in Word, NEW b \in Word
             PROVE  add[<<a, b>>] = ((a + b) % pow2[bit_width])
  OBVIOUS
<1>1. add[<<a, b>>] = add_result(a, b)[bit_width]
  BY DEF add
<1>2. bit_width \in 0 .. bit_width
  BY WidthAssumption
<1>3. LowSum(a, b, bit_width) = a + b
  BY Words DEF LowSum
<1> QED
  BY <1>1, <1>2, <1>3, AddResult

-----------------------------------------------------------------------------
(* sub and mul *)

LEMMA ModSum ==
  ASSUME NEW a \in Int, NEW b \in Int, NEW m \in Nat \ {0}
  PROVE  (((a % m) + (b % m)) % m) = ((a + b) % m)
<1>1. (a % m) \in Int /\ (b % m) \in Int
  BY DivMod
<1>2. (((a % m) + (b % m)) % m) = ((a + (b % m)) % m)
  BY <1>1, ModAdd
<1>3. (((b % m) + a) % m) = ((b + a) % m)
  BY ModAdd
<1>4. a + (b % m) = (b % m) + a /\ a + b = b + a
  BY <1>1
<1> QED
  BY <1>2, <1>3, <1>4

LEMMA AddType == \A a, b \in Word : add[<<a, b>>] \in Word
<1> DEFINE W == pow2[bit_width]
<1>1. W \in Nat \ {0} /\ Word = 0 .. W - 1
  BY Words DEF Word
<1> HIDE DEF W
<1>2. \A x \in Nat : (x % W) \in 0 .. W - 1
  <2> SUFFICES ASSUME NEW x \in Nat PROVE (x % W) \in 0 .. W - 1
    OBVIOUS
  <2>1. x \in Int
    OBVIOUS
  <2> QED
    BY <1>1, <2>1, DivMod
<1>3. \A a, b \in Word : a + b \in Nat
  BY Words
<1> QED
  BY <1>1, <1>2, <1>3, Add, ZenonT(40) DEF W

(* sub calculates the difference, and it wraps. *)
LEMMA Sub == \A a, b \in Word : sub[<<a, b>>] \in Word /\ sub[<<a, b>>] = ((a - b) % pow2[bit_width])
<1> SUFFICES ASSUME NEW a \in Word, NEW b \in Word
             PROVE  sub[<<a, b>>] \in Word /\ sub[<<a, b>>] = ((a - b) % pow2[bit_width])
  OBVIOUS
<1> DEFINE W == pow2[bit_width]
           c == Complement(b)
           minus == add[<<c, 1>>]
<1>1. W \in Nat /\ W >= 2
  <2>1. W = 2 * pow2[bit_width - 1] /\ pow2[bit_width - 1] \in Nat \ {0}
    BY WidthAssumption, Powers, PowerType
  <2> QED
    BY <2>1
<1>2. a \in Nat /\ b \in Nat /\ a < W /\ b < W
  BY Words
<1>3. sub[<<a, b>>] = add[<<a, minus>>]
  BY DEF sub
<1>4. c \in Word /\ 1 \in Word /\ c + 1 = W - b
  <2> HIDE DEF W
  <2>1. c = W - 1 - b /\ Word = 0 .. W - 1
    BY DEF Complement, Word, W
  <2> HIDE DEF c
  <2> QED
    BY <1>1, <1>2, <2>1
<1> HIDE DEF c
<1>5. minus = ((W - b) % W) /\ minus \in Word
  BY <1>4, Add, AddType
<1>6. add[<<a, minus>>] = ((a + minus) % W) /\ add[<<a, minus>>] \in Word
  BY <1>5, Add, AddType
<1> HIDE DEF minus, W
<1>7. ((((W - b) % W) + a) % W) = (((W - b) + a) % W)
  <2>1. W - b \in Int /\ a \in Int /\ W \in Nat \ {0}
    BY <1>1, <1>2
  <2> QED
    BY <2>1, ModAdd
<1>8. (((W - b) + a) % W) = ((a - b) % W)
  <2> DEFINE q == (a - b) \div W
             r == (a - b) % W
  <2>1. q \in Int /\ r \in 0 .. W - 1 /\ a - b = q * W + r
    <3>1. a - b \in Int /\ W \in Nat \ {0}
      BY <1>1, <1>2
    <3> QED
      BY <3>1, DivMod
  <2> HIDE DEF q, r
  <2>2. (W - b) + a = (q + 1) * W + r /\ (W - b) + a \in Int /\ q + 1 \in Int /\ W \in Nat \ {0}
    BY <1>1, <1>2, <2>1
  <2>3. (((W - b) + a) % W) = r
    BY <2>1, <2>2, DivModUnique
  <2> QED
    BY <2>3 DEF r
<1>9. a + minus = ((W - b) % W) + a
  <2>1. minus \in Int
    BY <1>5, Words
  <2> QED
    BY <1>2, <1>5, <2>1
<1> QED
  BY <1>3, <1>6, <1>7, <1>8, <1>9 DEF W

LEMMA MulTmp ==
  ASSUME NEW a \in Word
  PROVE  \A n \in 0 .. bit_width : mul_tmp(a)[n] = ((a * pow2[n]) % pow2[bit_width])
<1> DEFINE W == pow2[bit_width]
           Double(last) == add[<<last, last>>]
           Body(f) == [n \in 0 .. bit_width |-> IF n = 0 THEN a ELSE Double(f[n - 1])]
           g == [n \in 0 .. bit_width |-> ((a * pow2[n]) % W)]
           tmp == mul_tmp(a)
<1>0. bit_width \in Nat /\ W \in Nat \ {0} /\ Word = 0 .. W - 1 /\ a \in Nat
  BY WidthAssumption, Words DEF Word
<1>1. g[0] = a
  <2>1. ((a * 1) % W) = a
    BY <1>0, Words
  <2> QED
    BY <1>0, <2>1, Powers
<1>2. ASSUME NEW n \in 1 .. bit_width PROVE g[n] = Double(g[n - 1])
  <2> DEFINE x == a * pow2[n - 1]
             y == x % W
  <2>1. /\ n - 1 \in 0 .. bit_width /\ n \in 0 .. bit_width
        /\ pow2[n] = 2 * pow2[n - 1] /\ pow2[n - 1] \in Nat
    BY <1>0, Powers, PowerType
  <2>2. g[n] = ((a * pow2[n]) % W) /\ g[n - 1] = y
    BY <2>1
  <2>3. x \in Int /\ a * pow2[n] = x + x
    BY <1>0, <2>1
  <2> HIDE DEF x, g, W
  <2>4. y \in Word /\ ((y + y) % W) = ((x + x) % W)
    BY <1>0, <2>3, DivMod, ModSum
  <2> HIDE DEF y
  <2> QED
    BY <2>2, <2>3, <2>4, Add DEF W
<1> HIDE DEF Double, W
<1>3. g = Body(g)
  <2>1. ASSUME NEW n \in 0 .. bit_width PROVE g[n] = IF n = 0 THEN a ELSE Double(g[n - 1])
    <3> HIDE DEF g
    <3>1. n = 0 \/ n \in 1 .. bit_width
      BY <1>0
    <3> QED
      BY <1>1, <1>2, <3>1
  <2> QED
    BY <2>1
<1>4. tmp = Body(tmp)
  <2>1. tmp = CHOOSE f : f = Body(f)
    BY DEF mul_tmp, Double
  <2> HIDE DEF g, Body, tmp
  <2> QED
    BY <1>3, <2>1
<1> HIDE DEF tmp
<1>5. tmp[0] = g[0]
  <2> HIDE DEF g
  <2> QED
    BY <1>0, <1>1, <1>4
<1>6. ASSUME NEW n \in 1 .. bit_width, tmp[n - 1] = g[n - 1] PROVE tmp[n] = g[n]
  <2>1. tmp[n] = Double(tmp[n - 1])
    BY <1>0, <1>4
  <2> HIDE DEF g
  <2> QED
    BY <1>2, <1>6, <2>1
<1>7. \A n \in 0 .. bit_width : tmp[n] = g[n]
  <2> HIDE DEF g
  <2> QED
    BY <1>0, <1>5, <1>6, Agree, SMTT(30)
<1> QED
  BY <1>7 DEF tmp, W

LEMMA MulResult ==
  ASSUME NEW a \in Word, NEW b \in Word
  PROVE  \A n \in 0 .. bit_width :
           mul_result(a, b)[n] = ((a * (b % pow2[n])) % pow2[bit_width])
<1> DEFINE W == pow2[bit_width]
           Sum(n, last) ==
             IF Bit(b, n - 1) = 1 THEN add[<<last, mul_tmp(a)[n - 1]>>] ELSE last
           Body(f) == [n \in 0 .. bit_width |-> IF n = 0 THEN 0 ELSE Sum(n, f[n - 1])]
           g == [n \in 0 .. bit_width |-> ((a * (b % pow2[n])) % W)]
           result == mul_result(a, b)
<1>0. /\ bit_width \in Nat /\ W \in Nat \ {0} /\ Word = 0 .. W - 1
      /\ a \in Nat /\ b \in Nat
  BY WidthAssumption, Words DEF Word
<1>1. g[0] = 0
  <2>1. (b % 1) = 0
    BY <1>0
  <2>2. ((a * 0) % W) = 0
    <3>1. a * 0 = 0 /\ 0 \in 0 .. W - 1
      BY <1>0
    <3> HIDE DEF W
    <3> QED
      BY <1>0, <3>1, SmallMod
  <2> QED
    BY <1>0, <2>1, <2>2, Powers
<1>2. ASSUME NEW n \in 1 .. bit_width PROVE g[n] = Sum(n, g[n - 1])
  <2> DEFINE m == n - 1
             p == pow2[m]
             low == b % p
             x == a * low
             y == a * p
  <2>1. /\ m \in 0 .. bit_width - 1 /\ m + 1 = n
        /\ m \in 0 .. bit_width /\ n \in 0 .. bit_width /\ p \in Nat \ {0}
    BY <1>0, PowerType
  <2> HIDE DEF m
  <2>2. g[n] = ((a * (b % pow2[n])) % W) /\ g[m] = (x % W)
    BY <2>1
  <2>3. mul_tmp(a)[m] = (y % W)
    BY <2>1, MulTmp
  <2>4. Bit(b, m) \in {0, 1} /\ (b % pow2[n]) = low + Bit(b, m) * p
    BY <1>0, <2>1, LowBits
  <2> HIDE DEF p
  <2>5. low \in Int
    <3>1. b \in Int
      BY <1>0
    <3> QED
      BY <2>1, <3>1, DivMod
  <2> HIDE DEF low, g, W
  <2>6. x \in Int /\ y \in Int /\ a * (low + p) = x + y /\ low + 0 * p = low /\ low + 1 * p = low + p
    BY <1>0, <2>1, <2>5
  <2> HIDE DEF x, y
  <2>7. (x % W) \in Word /\ (y % W) \in Word /\ (((x % W) + (y % W)) % W) = ((x + y) % W)
    BY <1>0, <2>6, DivMod, ModSum
  <2>8. CASE Bit(b, m) = 1
    <3>1. g[n] = ((x + y) % W)
      BY <2>2, <2>4, <2>6, <2>8
    <3>2. add[<<x % W, y % W>>] = (((x % W) + (y % W)) % W)
      BY <2>7, Add DEF W
    <3>3. g[n] = add[<<g[m], mul_tmp(a)[m]>>]
      BY <2>2, <2>3, <2>7, <3>1, <3>2
    <3> QED
      BY <2>8, <3>3 DEF m
  <2>9. CASE Bit(b, m) = 0
    <3>1. g[n] = g[m]
      BY <2>2, <2>4, <2>6, <2>9 DEF x
    <3> QED
      BY <2>9, <3>1 DEF m
  <2> QED
    BY <2>4, <2>8, <2>9
<1> HIDE DEF Sum, W
<1>3. g = Body(g)
  <2>1. ASSUME NEW n \in 0 .. bit_width PROVE g[n] = IF n = 0 THEN 0 ELSE Sum(n, g[n - 1])
    <3> HIDE DEF g
    <3>1. n = 0 \/ n \in 1 .. bit_width
      BY <1>0
    <3> QED
      BY <1>1, <1>2, <3>1
  <2> QED
    BY <2>1
<1>4. result = Body(result)
  <2>1. result = CHOOSE f : f = Body(f)
    BY DEF mul_result, Sum
  <2> HIDE DEF g, Body, result
  <2> QED
    BY <1>3, <2>1
<1> HIDE DEF result
<1>5. result[0] = g[0]
  BY <1>0, <1>1, <1>4
<1>6. ASSUME NEW n \in 1 .. bit_width, result[n - 1] = g[n - 1] PROVE result[n] = g[n]
  <2>1. result[n] = Sum(n, result[n - 1])
    BY <1>0, <1>4
  <2> QED
    BY <1>2, <1>6, <2>1
<1>7. \A n \in 0 .. bit_width : result[n] = g[n]
  <2> HIDE DEF g
  <2> QED
    BY WidthAssumption, <1>5, <1>6, Agree
<1> QED
  BY <1>7 DEF result, W

(* mul calculates the product, and it wraps. *)
LEMMA Mul == \A a, b \in Word : mul[<<a, b>>] \in Word /\ mul[<<a, b>>] = ((a * b) % pow2[bit_width])
<1> SUFFICES ASSUME NEW a \in Word, NEW b \in Word
             PROVE  mul[<<a, b>>] \in Word /\ mul[<<a, b>>] = ((a * b) % pow2[bit_width])
  OBVIOUS
<1> DEFINE W == pow2[bit_width]
<1>1. mul[<<a, b>>] = mul_result(a, b)[bit_width]
  BY DEF mul
<1>2. bit_width \in 0 .. bit_width /\ (b % W) = b
  BY WidthAssumption, Words
<1>3. mul[<<a, b>>] = ((a * b) % W)
  BY <1>1, <1>2, MulResult
<1>4. W \in Nat \ {0} /\ Word = 0 .. W - 1 /\ a * b \in Int
  BY Words DEF Word
<1> HIDE DEF W
<1>5. ((a * b) % W) \in Word
  BY <1>4, DivMod
<1> QED
  BY <1>3, <1>5 DEF W

-----------------------------------------------------------------------------
(* div *)

LEMMA HighestBit ==
  ASSUME NEW b \in Word \ {0}
  PROVE  /\ Shift(b) \in 0 .. bit_width - 1
         /\ pow2[Shift(b)] <= b /\ b < pow2[Shift(b) + 1]
<1> DEFINE High(n) == Bit(b, n) = 1 /\ b < pow2[n + 1]
           S == {n \in Nat : n <= bit_width /\ b < pow2[n] => \E m \in 0 .. n - 1 : High(m)}
<1>0. bit_width \in Nat \ {0} /\ b \in Nat /\ b # 0 /\ b < pow2[bit_width]
  BY WidthAssumption, Words
<1>1. 0 \in S
  BY <1>0, Powers
<1>2. ASSUME NEW n \in Nat, n \in S PROVE n + 1 \in S
  <2> SUFFICES ASSUME n + 1 <= bit_width, b < pow2[n + 1]
               PROVE  \E m \in 0 .. (n + 1) - 1 : High(m)
    OBVIOUS
  <2>1. n \in 0 .. bit_width /\ pow2[n] \in Nat \ {0} /\ pow2[n + 1] = 2 * pow2[n]
    BY <1>0, Powers, PowerType
  <2>2. CASE b < pow2[n]
    <3> HIDE DEF High
    <3> QED
      BY <1>0, <1>2, <2>1, <2>2
  <2>3. CASE ~(b < pow2[n])
    <3> DEFINE p == pow2[n]
    <3>1. b = 1 * p + (b - p) /\ b - p \in 0 .. p - 1 /\ b \in Int /\ p \in Nat \ {0}
      BY <1>0, <2>1, <2>3
    <3> HIDE DEF p
    <3>2. b \div p = 1
      BY <3>1, DivModUnique
    <3>3. High(n)
      BY <3>2 DEF Bit, p
    <3> QED
      BY <3>3
  <2> QED
    BY <2>2, <2>3
<1> HIDE DEF S
<1>3. bit_width \in S
  BY <1>0, <1>1, <1>2, SetInduction
<1>4. \E n \in 0 .. bit_width - 1 : High(n)
  BY <1>0, <1>3 DEF S
<1>5. Shift(b) \in 0 .. bit_width - 1 /\ High(Shift(b))
  <2>1. Shift(b) = CHOOSE n \in 0 .. bit_width - 1 : High(n)
    BY DEF Shift
  <2> HIDE DEF High
  <2> QED
    BY <1>4, <2>1
<1>6. pow2[Shift(b)] <= b
  <2> DEFINE p == pow2[Shift(b)]
  <2>1. p \in Nat \ {0}
    BY <1>0, <1>5, PowerType
  <2>2. (b \div p) % 2 = 1
    BY <1>5 DEF Bit
  <2> HIDE DEF p
  <2>3. ~(b < p)
    <3> SUFFICES ASSUME b < p PROVE FALSE
      OBVIOUS
    <3>1. b \in 0 .. p - 1
      BY <1>0, <2>1
    <3>2. b \div p = 0
      BY <2>1, <3>1, SmallMod
    <3> QED
      BY <2>2, <3>2
  <2> QED
    BY <1>0, <2>1, <2>3 DEF p
<1> QED
  BY <1>5, <1>6

\* b shifted by n, not wrapped.
Shifted(b, n) == b * pow2[n]

(* What is shifted out of the word, and what is not. *)
LEMMA Shifts ==
  ASSUME NEW b \in Word \ {0}, NEW n \in 0 .. bit_width
  PROVE  /\ Shifted(b, n) \in Nat \ {0}
         /\ n + Shift(b) >= bit_width => Shifted(b, n) >= pow2[bit_width]
         /\ n + Shift(b) < bit_width =>
              /\ Shifted(b, n + 1) = 2 * Shifted(b, n)
              /\ Shifted(b, n) < pow2[bit_width]
              /\ ShiftLeft(b, n) = Shifted(b, n)
<1> DEFINE h == Shift(b)
           p == pow2[n]
           W == pow2[bit_width]
<1>0. /\ bit_width \in Nat \ {0} /\ b \in Nat \ {0}
      /\ W \in Nat \ {0} /\ p \in Nat \ {0}
  BY WidthAssumption, Words, PowerType
<1>1. h \in 0 .. bit_width - 1 /\ pow2[h] <= b /\ b < pow2[h + 1]
  BY HighestBit
<1>2. Shifted(b, n) = b * p /\ b * p \in Nat \ {0}
  BY <1>0 DEF Shifted
<1>3. ASSUME n + h >= bit_width PROVE b * p >= W
  <2> DEFINE k == bit_width - h
             q == pow2[k]
  <2>1. k \in Nat /\ k <= n /\ h \in Nat /\ k + h = bit_width /\ n <= bit_width /\ n \in Nat
        /\ k \in 0 .. bit_width
    BY <1>0, <1>1, <1>3
  <2> HIDE DEF k
  <2>2. q <= p /\ W = q * pow2[h] /\ q \in Nat
    BY <2>1, PowerGrows, PowerSum, PowerType
  <2>3. pow2[h] \in Nat
    BY <1>0, <1>1, PowerType
  <2> HIDE DEF q, p, W
  <2>4. q * pow2[h] <= q * b /\ q * b <= p * b /\ p * b = b * p
    BY <1>0, <1>1, <2>2, <2>3
  <2> QED
    BY <1>0, <2>2, <2>3, <2>4
<1>4. ASSUME n + h < bit_width PROVE pow2[n + 1] = 2 * p /\ b * p < W
  <2>1. n \in Nat /\ h + 1 \in Nat /\ n + (h + 1) <= bit_width /\ n + (h + 1) \in Nat
        /\ bit_width \in Nat /\ h + 1 \in 0 .. bit_width /\ n + 1 \in 1 .. bit_width
    BY <1>0, <1>1, <1>4
  <2>2. pow2[n + (h + 1)] = p * pow2[h + 1] /\ pow2[n + (h + 1)] <= W /\ pow2[h + 1] \in Nat
    BY <2>1, PowerGrows, PowerSum, PowerType
  <2>3. pow2[n + 1] = 2 * p
    BY <2>1, Powers
  <2> HIDE DEF p, W
  <2>4. b * p < p * pow2[h + 1]
    BY <1>0, <1>1, <2>2
  <2>5. pow2[n + (h + 1)] \in Nat
    BY <1>0, <2>2
  <2> QED
    BY <1>0, <1>2, <2>2, <2>3, <2>4, <2>5
<1>5. ASSUME b * p < W PROVE ShiftLeft(b, n) = b * p
  <2> DEFINE s == b * p
  <2>1. s \in 0 .. W - 1
    BY <1>0, <1>2, <1>5
  <2>2. ShiftLeft(b, n) = (s % W)
    BY DEF ShiftLeft
  <2> HIDE DEF s, W
  <2>3. (s % W) = s
    BY <1>0, <2>1, SmallMod
  <2> QED
    BY <2>2, <2>3 DEF s
<1>6. ASSUME n + h < bit_width PROVE Shifted(b, n + 1) = 2 * (b * p)
  <2> HIDE DEF p
  <2>1. Shifted(b, n + 1) = b * (2 * p)
    BY <1>4, <1>6 DEF Shifted
  <2> QED
    BY <1>0, <2>1
<1> QED
  BY <1>1, <1>2, <1>3, <1>4, <1>5, <1>6

(* A round of long division: from what is left and the quotient by twice m. *)
LEMMA DivRound ==
  \A a \in Nat, m \in Nat \ {0} :
    \E x : /\ x = (a % (2 * m)) /\ x \in 0 .. 2 * m - 1 /\ x <= a
           /\ x >= m => (a % m) = x - m /\ a \div m = 2 * (a \div (2 * m)) + 1
           /\ x < m => (a % m) = x /\ a \div m = 2 * (a \div (2 * m))
<1> SUFFICES ASSUME NEW a \in Nat, NEW m \in Nat \ {0}, NEW x, x = (a % (2 * m))
             PROVE  /\ x \in 0 .. 2 * m - 1 /\ x <= a
                    /\ x >= m => (a % m) = x - m /\ a \div m = 2 * (a \div (2 * m)) + 1
                    /\ x < m => (a % m) = x /\ a \div m = 2 * (a \div (2 * m))
  OBVIOUS
<1> DEFINE q == a \div (2 * m)
<1>1. q \in Int /\ x \in 0 .. 2 * m - 1 /\ a = q * (2 * m) + x
  <2> DEFINE k == 2 * m
  <2>1. a \in Int /\ k \in Nat \ {0}
    OBVIOUS
  <2> HIDE DEF k
  <2>2. a \div k \in Int /\ (a % k) \in 0 .. k - 1 /\ a = (a \div k) * k + (a % k)
    BY <2>1, DivMod
  <2> QED
    BY <2>2 DEF k
<1> HIDE DEF q
<1>2. x <= a
  <2>1. q >= 0
    <3>1. q < 0 => q * (2 * m) <= -(2 * m)
      BY <1>1
    <3> QED
      BY <1>1, <3>1
  <2>2. q * (2 * m) >= 0
    BY <1>1, <2>1
  <2> QED
    BY <1>1, <2>2
<1>3. CASE x >= m
  <2>1. a = (2 * q + 1) * m + (x - m) /\ 2 * q + 1 \in Int /\ x - m \in 0 .. m - 1 /\ a \in Int
    BY <1>1, <1>3
  <2>2. a \div m = 2 * q + 1 /\ (a % m) = x - m
    BY <2>1, DivModUnique
  <2> QED
    BY <1>1, <1>3, <2>2 DEF q
<1>4. CASE x < m
  <2>1. a = (2 * q) * m + x /\ 2 * q \in Int /\ x \in 0 .. m - 1 /\ a \in Int
    BY <1>1, <1>4
  <2>2. a \div m = 2 * q /\ (a % m) = x
    BY <2>1, DivModUnique
  <2> QED
    BY <1>1, <1>4, <2>2 DEF q
<1> QED
  BY <1>1, <1>2, <1>3, <1>4

LEMMA DivDividend ==
  ASSUME NEW a \in Word, NEW b \in Word \ {0}
  PROVE  \A n \in 0 .. bit_width : div_dividend(a, b)[n] = (a % Shifted(b, n))
<1> DEFINE h == Shift(b)
           W == pow2[bit_width]
           Subtract(n, last) == IF last >= ShiftLeft(b, n) THEN sub[<<last, ShiftLeft(b, n)>>] ELSE last
           Value(n, last) == IF n + h >= bit_width THEN a ELSE Subtract(n, last)
           Body(f) == [n \in 0 .. bit_width |-> Value(n, f[n + 1])]
           g == [n \in 0 .. bit_width |-> (a % Shifted(b, n))]
           dividend == div_dividend(a, b)
<1>0. bit_width \in Nat
  BY WidthAssumption
<1>1. W \in Nat \ {0} /\ Word = 0 .. W - 1 /\ a \in Nat /\ a < W /\ h \in 0 .. bit_width - 1
  BY Words, HighestBit DEF Word
<1>2. ASSUME NEW n \in 0 .. bit_width PROVE g[n] = Value(n, g[n + 1])
  <2> DEFINE m == Shifted(b, n)
  <2>1. m \in Nat \ {0}
    BY Shifts
  <2>2. g[n] = (a % m)
    OBVIOUS
  <2>3. CASE n + h >= bit_width
    <3>1. m >= W
      BY <2>3, Shifts
    <3> HIDE DEF m, W
    <3>2. a \in 0 .. m - 1
      BY <1>1, <2>1, <3>1
    <3>3. (a % m) = a
      BY <2>1, <3>2, SmallMod
    <3> HIDE DEF g
    <3> QED
      BY <2>2, <2>3, <3>3
  <2>4. CASE ~(n + h >= bit_width)
    <3>1. n + h < bit_width /\ n + 1 \in 0 .. bit_width
      BY <1>0, <1>1, <2>4
    <3>2. Shifted(b, n + 1) = 2 * m /\ m < W /\ ShiftLeft(b, n) = m
      BY <3>1, Shifts
    <3> DEFINE x == a % (2 * m)
    <3>3. g[n + 1] = x
      BY <3>1, <3>2
    <3> HIDE DEF g, m
    <3>4. /\ x \in 0 .. 2 * m - 1 /\ x <= a
          /\ x >= m => (a % m) = x - m
          /\ x < m => (a % m) = x
      <4>1. x = (a % (2 * m)) /\ a \in Nat
        BY <1>1
      <4> HIDE DEF x
      <4> QED
        BY <2>1, <4>1, DivRound, ZenonT(40)
    <3>5. x \in Word /\ m \in Word
      <4> HIDE DEF x, W
      <4> QED
        BY <1>1, <2>1, <3>2, <3>4
    <3> HIDE DEF x
    <3>6. CASE x >= m
      <4>1. sub[<<x, m>>] = ((x - m) % W)
        BY <3>5, Sub
      <4>2. x - m \in 0 .. W - 1
        <5> HIDE DEF W
        <5> QED
          BY <1>1, <2>1, <3>5, <3>6
      <4> HIDE DEF W
      <4>3. ((x - m) % W) = x - m
        BY <1>1, <4>2, SmallMod
      <4> QED
        BY <2>2, <2>4, <3>2, <3>3, <3>4, <3>6, <4>1, <4>3
    <3>7. CASE x < m
      <4>1. ~(x >= m)
        BY <2>1, <3>4, <3>7
      <4> QED
        BY <2>2, <2>4, <3>2, <3>3, <3>4, <3>7, <4>1
    <3> QED
      BY <2>1, <3>4, <3>6, <3>7
  <2> QED
    BY <2>3, <2>4
<1> HIDE DEF Value, W
<1>3. g = Body(g)
  <2>1. ASSUME NEW n \in 0 .. bit_width PROVE g[n] = Value(n, g[n + 1])
    BY <1>2
  <2> QED
    BY <2>1
<1>4. dividend = Body(dividend)
  <2>1. dividend = CHOOSE f : f = Body(f)
    BY DEF div_dividend, Value
  <2> HIDE DEF g, Body, dividend
  <2> QED
    BY <1>3, <2>1
<1> HIDE DEF dividend, g, h
<1>5. ASSUME NEW n \in 0 .. bit_width PROVE dividend[n] = Value(n, dividend[n + 1])
  BY <1>4
<1>6. dividend[bit_width] = g[bit_width]
  <2>1. bit_width \in 0 .. bit_width /\ bit_width + h >= bit_width
    BY <1>0, <1>1
  <2>2. \A last : Value(bit_width, last) = a
    BY <2>1 DEF Value
  <2> QED
    BY <1>2, <1>5, <2>1, <2>2
<1>7. ASSUME NEW n \in 0 .. bit_width - 1, dividend[n + 1] = g[n + 1] PROVE dividend[n] = g[n]
  BY <1>0, <1>2, <1>5, <1>7
<1>8. \A n \in 0 .. bit_width : dividend[n] = g[n]
  BY <1>0, <1>6, <1>7, AgreeDown
<1> QED
  BY <1>8 DEF dividend, g

LEMMA DivQuotient ==
  ASSUME NEW a \in Word, NEW b \in Word \ {0}
  PROVE  \A n \in 0 .. bit_width :
           div_quotient(a, b)[n] = (a \div Shifted(b, n)) * pow2[n]
<1> DEFINE h == Shift(b)
           W == pow2[bit_width]
           Subtract(n, last) ==
             IF div_dividend(a, b)[n + 1] >= ShiftLeft(b, n) THEN last + pow2[n] ELSE last
           Value(n, last) == IF n + h >= bit_width THEN 0 ELSE Subtract(n, last)
           Body(f) == [n \in 0 .. bit_width |-> Value(n, f[n + 1])]
           g == [n \in 0 .. bit_width |-> (a \div Shifted(b, n)) * pow2[n]]
           quotient == div_quotient(a, b)
<1>0. bit_width \in Nat
  BY WidthAssumption
<1>1. W \in Nat \ {0} /\ a \in Nat /\ a < W /\ h \in 0 .. bit_width - 1
  BY Words, HighestBit
<1>2. ASSUME NEW n \in 0 .. bit_width PROVE g[n] = Value(n, g[n + 1])
  <2> DEFINE m == Shifted(b, n)
             p == pow2[n]
  <2>1. m \in Nat \ {0} /\ p \in Nat \ {0}
    BY Shifts, PowerType
  <2>2. g[n] = (a \div m) * p
    OBVIOUS
  <2>3. CASE n + h >= bit_width
    <3>1. m >= W
      BY <2>3, Shifts
    <3> HIDE DEF m, W
    <3>2. a \in 0 .. m - 1
      BY <1>1, <2>1, <3>1
    <3>3. a \div m = 0
      BY <2>1, <3>2, SmallMod
    <3> HIDE DEF g, p
    <3>4. g[n] = 0
      BY <2>1, <2>2, <3>3
    <3> QED
      BY <2>3, <3>4
  <2>4. CASE ~(n + h >= bit_width)
    <3>1. n + h < bit_width /\ n + 1 \in 0 .. bit_width /\ n + 1 \in 1 .. bit_width
      BY <1>0, <1>1, <2>4
    <3>2. Shifted(b, n + 1) = 2 * m /\ ShiftLeft(b, n) = m /\ pow2[n + 1] = 2 * p
      BY <3>1, Shifts, Powers
    <3>3. g[n + 1] = (a \div (2 * m)) * (2 * p) /\ div_dividend(a, b)[n + 1] = (a % (2 * m))
      BY <3>1, <3>2, DivDividend
    <3> HIDE DEF g, m, p
    <3>4. PICK x : /\ x = (a % (2 * m)) /\ x \in 0 .. 2 * m - 1
                   /\ x >= m => a \div m = 2 * (a \div (2 * m)) + 1
                   /\ x < m => a \div m = 2 * (a \div (2 * m))
      BY <1>1, <2>1, DivRound
    <3> DEFINE d == a \div (2 * m)
    <3>5. d \in Int
      <4> DEFINE k == 2 * m
      <4>1. a \in Int /\ k \in Nat \ {0}
        BY <1>1, <2>1
      <4> HIDE DEF k
      <4>2. a \div k \in Int
        BY <4>1, DivMod
      <4> QED
        BY <4>2 DEF k
    <3>6. Value(n, g[n + 1]) = IF x >= m THEN d * (2 * p) + p ELSE d * (2 * p)
      BY <2>4, <3>2, <3>3, <3>4 DEF p
    <3>7. g[n] = (IF x >= m THEN 2 * d + 1 ELSE 2 * d) * p
      <4>1. x >= m \/ x < m
        BY <2>1, <3>4
      <4> QED
        BY <2>2, <3>4, <4>1
    <3> HIDE DEF d, Value
    <3>8. (2 * d + 1) * p = d * (2 * p) + p /\ (2 * d) * p = d * (2 * p)
      BY <2>1, <3>5
    <3> QED
      BY <3>6, <3>7, <3>8
  <2> QED
    BY <2>3, <2>4
<1> HIDE DEF Value, W
<1>3. g = Body(g)
  <2>1. ASSUME NEW n \in 0 .. bit_width PROVE g[n] = Value(n, g[n + 1])
    BY <1>2
  <2> QED
    BY <2>1
<1>4. quotient = Body(quotient)
  <2>1. quotient = CHOOSE f : f = Body(f)
    BY DEF div_quotient, Value
  <2> HIDE DEF g, Body, quotient
  <2> QED
    BY <1>3, <2>1
<1> HIDE DEF quotient, g, h
<1>5. ASSUME NEW n \in 0 .. bit_width PROVE quotient[n] = Value(n, quotient[n + 1])
  BY <1>4
<1>6. quotient[bit_width] = g[bit_width]
  <2>1. bit_width \in 0 .. bit_width /\ bit_width + h >= bit_width
    BY <1>0, <1>1
  <2>2. \A last : Value(bit_width, last) = 0
    BY <2>1 DEF Value
  <2> QED
    BY <1>2, <1>5, <2>1, <2>2
<1>7. ASSUME NEW n \in 0 .. bit_width - 1, quotient[n + 1] = g[n + 1] PROVE quotient[n] = g[n]
  BY <1>0, <1>2, <1>5, <1>7
<1>8. \A n \in 0 .. bit_width : quotient[n] = g[n]
  BY <1>0, <1>6, <1>7, AgreeDown
<1> QED
  BY <1>8 DEF quotient, g

(* div calculates the quotient. *)
LEMMA Div == \A a \in Word, b \in Word \ {0} : div[<<a, b>>] = a \div b
<1> SUFFICES ASSUME NEW a \in Word, NEW b \in Word \ {0} PROVE div[<<a, b>>] = a \div b
  OBVIOUS
<1>1. div[<<a, b>>] = div_quotient(a, b)[0]
  BY DEF div
<1>2. 0 \in 0 .. bit_width /\ a \in Int /\ b \in Nat \ {0}
  BY WidthAssumption, Words
<1>3. div_quotient(a, b)[0] = (a \div Shifted(b, 0)) * pow2[0]
  BY <1>2, DivQuotient
<1>4. Shifted(b, 0) = b
  BY <1>2, Powers DEF Shifted
<1>5. a \div b \in Int
  BY <1>2, DivMod
<1> QED
  BY <1>1, <1>3, <1>4, <1>5, Powers

(* In every round less is left than was subtracted. *)
LEMMA DivLeaves ==
  ASSUME NEW a \in Word, NEW b \in Word \ {0}, NEW n \in 0 .. bit_width - Shift(b) - 1
  PROVE  div_dividend(a, b)[n] < ShiftLeft(b, n)
<1> DEFINE m == Shifted(b, n)
<1>1. n \in 0 .. bit_width /\ n + Shift(b) < bit_width
  BY WidthAssumption, HighestBit
<1>2. m \in Nat \ {0} /\ ShiftLeft(b, n) = m /\ div_dividend(a, b)[n] = (a % m)
  BY <1>1, Shifts, DivDividend
<1>3. a \in Int
  BY Words
<1> HIDE DEF m
<1>4. (a % m) \in 0 .. m - 1
  BY <1>2, <1>3, DivMod
<1> QED
  BY <1>2, <1>4

(* The loops over the bits calculate what unsigned arithmetic does. *)
LEMMA ArithmeticIsRight == OperationsAgree
<1> SUFFICES ASSUME NEW a \in Word, NEW b \in Word
             PROVE  /\ add[<<a, b>>] = ((a + b) % pow2[bit_width])
                    /\ sub[<<a, b>>] = ((a - b) % pow2[bit_width])
                    /\ mul[<<a, b>>] = ((a * b) % pow2[bit_width])
                    /\ b # 0 => /\ div[<<a, b>>] = a \div b
                                /\ \A n \in 0 .. bit_width - Shift(b) - 1 :
                                     div_dividend(a, b)[n] < ShiftLeft(b, n)
  BY DEF OperationsAgree
<1> QED
  BY Add, Sub, Mul, Div, DivLeaves

-----------------------------------------------------------------------------
(* The threads *)

Thread == Summer \union Creator

(* The types of what tells how far the threads are.  That the sums are      *)
(* words is part of Adding below.                                           *)
TypeOK ==
  /\ program \in Program
  /\ state \in [Thread -> {"unborn", "running", "ended"}]
  /\ at \in [Creator -> 1 .. 5]
  /\ i \in [Summer -> Nat]
  /\ seen = [t \in Summer |-> seen[t]]

\* The threads that t creates, whether it creates both before it joins one,
\* and where its Script creates the second and joins the first.
First(t) == IF t = "main" THEN "apple" ELSE "part_a"
Second(t) == IF t = "main" THEN "orange" ELSE "part_b"
Both(t) == IF t = "main" THEN program # "serial" ELSE program \in {"parallel_3", "parallel_3_mutex"}
CreatesSecond(t) == IF Both(t) THEN 2 ELSE 3
JoinsFirst(t) == IF Both(t) THEN 3 ELSE 2

\* A thread lives from its creation to its join.
Life ==
  /\ state["main"] # "unborn"
  /\ \A t \in Creator :
       /\ state[t] = "unborn" => at[t] = 1
       /\ state[t] = "ended" => at[t] > 4
       /\ at[t] = 1 => state[First(t)] = "unborn"
       /\ at[t] <= CreatesSecond(t) => state[Second(t)] = "unborn"
       /\ at[t] > JoinsFirst(t) => state[First(t)] = "ended"
       /\ at[t] > 4 => state[Second(t)] = "ended"

\* A thread that has read its sum has not left its loop.
InLoop == \A t \in Summer : seen[t] # Unread => state[t] = "running" /\ i[t] < Max(t)

IInv == TypeOK /\ Life /\ InLoop

LEMMA Maxes == \A t \in Summer : Max(t) \in Nat \ {0}
BY AppleOrangeAssumption DEF Max, Word

(* How large the sets of threads can be. *)
LEMMA OneMore ==
  ASSUME NEW S, NEW x, IsFiniteSet(S)
  PROVE  /\ IsFiniteSet(S \union {x})
         /\ Cardinality(S) \in Nat /\ Cardinality(S \union {x}) \in Nat
         /\ Cardinality(S \union {x}) <= Cardinality(S) + 1
<1>1. /\ IsFiniteSet(S \union {x})
      /\ Cardinality(S \union {x}) = IF x \in S THEN Cardinality(S) ELSE Cardinality(S) + 1
  BY FS_AddElement
<1>2. Cardinality(S) \in Nat
  BY FS_CardinalityType
<1> QED
  BY <1>1, <1>2

LEMMA PairSize ==
  \A x, y : IsFiniteSet({x, y}) /\ Cardinality({x, y}) \in Nat /\ Cardinality({x, y}) <= 2
<1> SUFFICES ASSUME NEW x, NEW y
             PROVE  IsFiniteSet({x, y}) /\ Cardinality({x, y}) \in Nat /\ Cardinality({x, y}) <= 2
  OBVIOUS
<1>1. {x, y} = {x} \union {y}
  OBVIOUS
<1>2. IsFiniteSet({x}) /\ Cardinality({x}) = 1
  BY FS_Singleton
<1>3. /\ IsFiniteSet({x} \union {y}) /\ Cardinality({x} \union {y}) \in Nat
      /\ Cardinality({x} \union {y}) <= Cardinality({x}) + 1
  BY <1>2, OneMore
<1> QED
  BY <1>1, <1>2, <1>3

LEMMA SummerSize ==
  IsFiniteSet(Summer) /\ Cardinality(Summer) \in Nat /\ Cardinality(Summer) <= 3
<1> DEFINE Parts == {"part_a", "part_b"}
<1>1. IsFiniteSet(Parts) /\ Cardinality(Parts) \in Nat /\ Cardinality(Parts) <= 2
  BY PairSize
<1>2. Summer = Parts \union {"orange"}
  BY DEF Summer
<1> HIDE DEF Parts
<1>3. /\ IsFiniteSet(Parts \union {"orange"}) /\ Cardinality(Parts \union {"orange"}) \in Nat
      /\ Cardinality(Parts \union {"orange"}) <= Cardinality(Parts) + 1
  BY <1>1, OneMore
<1> QED
  BY <1>1, <1>2, <1>3

LEMMA Families ==
  ASSUME NEW t \in Creator
  PROVE  /\ First(t) \in Thread /\ Second(t) \in Thread
         /\ First(t) # t /\ Second(t) # t /\ First(t) # Second(t)
         /\ First(t) # "main" /\ Second(t) # "main"
         /\ \A u \in Creator \ {t} : {First(t), Second(t)} \cap {First(u), Second(u)} = {}
BY DEF First, Second, Creator, Summer, Thread

(* What the script of a creator tells it to do.                             *)
LEMMA CreateMeans ==
  ASSUME TypeOK, NEW t \in Creator, Create(t)
  PROVE  /\ state[t] = "running" /\ at' = [at EXCEPT ![t] = @ + 1]
         /\ UNCHANGED <<program, i, seen>>
         /\ \/ at[t] = 1 /\ state' = [state EXCEPT ![First(t)] = "running"]
            \/ at[t] = CreatesSecond(t) /\ state' = [state EXCEPT ![Second(t)] = "running"]
<1>1. at[t] \in 1 .. 4
  BY DEF TypeOK, Create
<1>2. Script(t)[at[t]][1] = "create" /\ state' = [state EXCEPT ![Script(t)[at[t]][2]] = "running"]
  BY DEF Create
<1>3. CASE at[t] = 1
  <2>1. Script(t)[1][2] = First(t)
    BY DEF Script, First
  <2> QED
    BY <1>2, <1>3, <2>1 DEF Create
<1>4. CASE at[t] = 2
  <2>1. Both(t) /\ Script(t)[2][2] = Second(t)
    BY <1>2, <1>4 DEF Script, Second, Both
  <2> QED
    BY <1>2, <1>4, <2>1 DEF Create, CreatesSecond
<1>5. CASE at[t] = 3
  <2>1. ~Both(t) /\ Script(t)[3][2] = Second(t)
    BY <1>2, <1>5 DEF Script, Second, Both
  <2> QED
    BY <1>2, <1>5, <2>1 DEF Create, CreatesSecond
<1>6. CASE at[t] = 4
  BY <1>2, <1>6 DEF Script
<1> QED
  BY <1>1, <1>3, <1>4, <1>5, <1>6

LEMMA JoinMeans ==
  ASSUME TypeOK, NEW t \in Creator, Join(t)
  PROVE  /\ state[t] = "running" /\ at' = [at EXCEPT ![t] = @ + 1]
         /\ UNCHANGED <<program, state, i, seen>>
         /\ \/ at[t] = JoinsFirst(t) /\ state[First(t)] = "ended"
            \/ at[t] = 4 /\ state[Second(t)] = "ended"
<1>1. at[t] \in 1 .. 4
  BY DEF TypeOK, Join
<1>2. Script(t)[at[t]][1] = "join" /\ state[Script(t)[at[t]][2]] = "ended"
  BY DEF Join
<1>3. CASE at[t] = 1
  BY <1>2, <1>3 DEF Script
<1>4. CASE at[t] = 2
  BY <1>2, <1>4 DEF Join, Script, First, JoinsFirst, Both
<1>5. CASE at[t] = 3
  BY <1>2, <1>5 DEF Join, Script, First, JoinsFirst, Both
<1>6. CASE at[t] = 4
  BY <1>2, <1>6 DEF Join, Script, Second
<1> QED
  BY <1>1, <1>3, <1>4, <1>5, <1>6

-----------------------------------------------------------------------------

LEMMA InitEstablishes == Init => IInv
BY DEF Init, IInv, TypeOK, Life, InLoop, Thread, Summer, Creator, First, Second,
       CreatesSecond, JoinsFirst, Both

LEMMA CreatePreserves ==
  ASSUME IInv, NEW t \in Creator, Create(t)
  PROVE  IInv'
<1> USE DEF IInv, TypeOK, Life, InLoop
<1>1. PICK u \in {First(t), Second(t)} :
        /\ state[t] = "running" /\ at' = [at EXCEPT ![t] = @ + 1]
        /\ UNCHANGED <<program, i, seen>>
        /\ state' = [state EXCEPT ![u] = "running"] /\ state[u] = "unborn"
        /\ \/ at[t] = 1 /\ u = First(t)
           \/ at[t] = CreatesSecond(t) /\ u = Second(t)
  BY CreateMeans
<1>2. u \in Thread /\ u # t /\ u # "main" /\ at[t] \in 1 .. 3
  BY <1>1, Families DEF CreatesSecond
<1>3. TypeOK'
  BY <1>1, <1>2
<1>4. InLoop'
  BY <1>1, <1>2
<1>5. Life'
  <2> SUFFICES ASSUME NEW c \in Creator PROVE Life!2!(c)'
    BY <1>1, <1>2
  <2>1. UNCHANGED <<CreatesSecond(c), JoinsFirst(c)>>
    BY <1>1 DEF CreatesSecond, JoinsFirst, Both
  <2>2. CASE c = t
    BY <1>1, <1>2, <2>1, <2>2, Families DEF CreatesSecond, JoinsFirst
  <2>3. CASE c # t
    <3>1. First(c) # u /\ Second(c) # u /\ at'[c] = at[c]
      BY <1>1, <2>3, Families
    <3> QED
      BY <1>1, <1>2, <2>1, <2>3, <3>1, Families
  <2> QED
    BY <2>2, <2>3
<1> QED
  BY <1>3, <1>4, <1>5

LEMMA JoinPreserves ==
  ASSUME IInv, NEW t \in Creator, Join(t)
  PROVE  IInv'
<1> USE DEF IInv, TypeOK, Life, InLoop
<1>1. /\ state[t] = "running" /\ at' = [at EXCEPT ![t] = @ + 1]
      /\ UNCHANGED <<program, state, i, seen>>
      /\ \/ at[t] = JoinsFirst(t) /\ state[First(t)] = "ended"
         \/ at[t] = 4 /\ state[Second(t)] = "ended"
  BY JoinMeans
<1>2. at[t] \in 2 .. 4
  BY <1>1 DEF JoinsFirst
<1>3. TypeOK' /\ InLoop'
  BY <1>1, <1>2
<1>4. Life'
  <2> SUFFICES ASSUME NEW c \in Creator PROVE Life!2!(c)'
    BY <1>1
  <2>1. UNCHANGED <<CreatesSecond(c), JoinsFirst(c)>>
    BY <1>1 DEF CreatesSecond, JoinsFirst, Both
  <2>2. CASE c = t
    BY <1>1, <1>2, <2>1, <2>2 DEF CreatesSecond, JoinsFirst
  <2>3. CASE c # t
    BY <1>1, <2>1, <2>3
  <2> QED
    BY <2>2, <2>3
<1> QED
  BY <1>3, <1>4

LEMMA EndPreserves ==
  ASSUME IInv, NEW t \in Thread, End(t)
  PROVE  IInv'
<1> USE DEF IInv, TypeOK, Life, InLoop
<1>1. /\ state[t] = "running" /\ state' = [state EXCEPT ![t] = "ended"]
      /\ t \in Summer => i[t] = Max(t)
      /\ t \notin Summer => at[t] > 4
      /\ UNCHANGED <<program, at, i, seen>>
  BY DEF End
<1>2. TypeOK'
  BY <1>1
<1>3. InLoop'
  BY <1>1, Maxes
<1>4. Life'
  <2> SUFFICES ASSUME NEW c \in Creator PROVE Life!2!(c)'
    BY <1>1
  <2>1. UNCHANGED <<CreatesSecond(c), JoinsFirst(c)>> /\ c \notin Summer
    BY <1>1 DEF CreatesSecond, JoinsFirst, Both, Creator, Summer
  <2>2. First(c) \in Thread /\ Second(c) \in Thread /\ c \in Thread
    BY Families DEF Thread
  <2> QED
    BY <1>1, <2>1, <2>2
<1> QED
  BY <1>2, <1>3, <1>4

LEMMA LoopPreserves ==
  ASSUME IInv, NEW t \in Summer, ReadSum(t) \/ Assign(t)
  PROVE  IInv'
<1> USE DEF IInv, TypeOK, InLoop
<1>1. UNCHANGED <<program, state, at>>
  BY DEF ReadSum, Assign
<1>2. Life'
  BY <1>1 DEF Life, CreatesSecond, JoinsFirst, Both
<1>3. CASE ReadSum(t)
  BY <1>1, <1>2, <1>3 DEF ReadSum
<1>4. CASE Assign(t)
  <2>1. /\ i' = [i EXCEPT ![t] = @ + 1] /\ seen' = [seen EXCEPT ![t] = Unread]
    BY <1>4, Zenon DEF Assign
  <2> QED
    BY <1>1, <1>2, <2>1
<1> QED
  BY <1>3, <1>4

LEMMA NextPreserves == IInv /\ [Next]_vars => IInv'
<1> SUFFICES ASSUME IInv, [Next]_vars PROVE IInv'
  OBVIOUS
<1>1. CASE UNCHANGED vars
  BY <1>1 DEF vars, IInv, TypeOK, Life, InLoop, CreatesSecond, JoinsFirst, Both
<1>2. ASSUME NEW t \in Creator, CreatorStep(t) PROVE IInv'
  BY <1>2, CreatePreserves, JoinPreserves, EndPreserves DEF CreatorStep, Thread
<1>3. ASSUME NEW t \in Summer, SummerStep(t) PROVE IInv'
  BY <1>3, LoopPreserves, EndPreserves DEF SummerStep, Thread
<1> QED
  BY <1>1, <1>2, <1>3 DEF Next

-----------------------------------------------------------------------------

(* The invariant holds of every behaviour: the threads of every program     *)
(* live from their creation to their join.                                  *)
THEOREM InvariantHolds == SafeSpec => []IInv
BY InitEstablishes, NextPreserves, PTL DEF SafeSpec

(* The sums are in no use any more when main() prints and deletes them, for *)
(* any number of rounds.                                                    *)
THEOREM NobodyEverOutlivesMain == SafeSpec => []NobodyOutlivesMain
<1>1. IInv => NobodyOutlivesMain
  <2> SUFFICES ASSUME IInv, at["main"] > 4
               PROVE  \A t \in Summer : state[t] = "ended" /\ seen[t] = Unread
    BY DEF NobodyOutlivesMain
  <2>1. state["apple"] = "ended" /\ state["orange"] = "ended"
    BY DEF IInv, TypeOK, Life, Creator, First, Second, JoinsFirst
  <2>2. state["part_a"] = "ended" /\ state["part_b"] = "ended"
    BY <2>1 DEF IInv, TypeOK, Life, Creator, First, Second, JoinsFirst
  <2> QED
    BY <2>1, <2>2 DEF IInv, InLoop, Summer
<1> QED
  BY <1>1, InvariantHolds, PTL

(* At most one, two or three sums are calculated at a time, as the program  *)
(* is named, for any number of rounds.                                      *)
THEOREM AlwaysParallelAsNamed == SafeSpec => []ParallelAsNamed
<1> DEFINE Running == {t \in Summer : state[t] = "running"}
<1>1. /\ \A x : IsFiniteSet({x}) /\ Cardinality({x}) = 1
      /\ \A x, y : IsFiniteSet({x, y}) /\ Cardinality({x, y}) \in Nat /\ Cardinality({x, y}) <= 2
      /\ IsFiniteSet(Summer) /\ Cardinality(Summer) \in Nat /\ Cardinality(Summer) <= 3
  BY FS_Singleton, PairSize, SummerSize
<1>2. \A T : Running \subseteq T /\ IsFiniteSet(T)
            => Cardinality(Running) \in Nat /\ Cardinality(T) \in Nat
               /\ Cardinality(Running) <= Cardinality(T)
  BY FS_Subset, FS_CardinalityType
<1>3. IInv => ParallelAsNamed
  <2> SUFFICES ASSUME IInv PROVE ParallelAsNamed
    OBVIOUS
  <2>1. ~Both("apple") => ~(state["part_a"] = "running" /\ state["part_b"] = "running")
    BY DEF IInv, TypeOK, Life, Creator, First, Second, CreatesSecond, JoinsFirst
  <2>2. CASE program = "serial"
    <3>1. state["orange"] = "running" => state["part_a"] = "ended" /\ state["part_b"] = "ended"
      BY <2>2 DEF IInv, TypeOK, Life, Creator, First, Second, CreatesSecond, JoinsFirst, Both
    <3>2. \E x : Running \subseteq {x}
      BY <2>1, <2>2, <3>1 DEF Summer, Both
    <3>3. Cardinality(Running) <= 1
      BY <1>1, <1>2, <3>2
    <3> QED
      BY <2>2, <3>3 DEF ParallelAsNamed
  <2>3. CASE program = "parallel_2"
    <3>1. PICK x : Running \subseteq {x, "orange"}
      BY <2>1, <2>3 DEF Summer, Both
    <3>2. /\ IsFiniteSet({x, "orange"}) /\ Cardinality({x, "orange"}) \in Nat
          /\ Cardinality({x, "orange"}) <= 2
      BY <1>1
    <3>3. Cardinality(Running) \in Nat /\ Cardinality(Running) <= Cardinality({x, "orange"})
      BY <1>2, <3>1, <3>2
    <3>4. Cardinality(Running) <= 2
      BY <3>2, <3>3
    <3> QED
      BY <2>3, <3>4 DEF ParallelAsNamed
  <2>4. CASE program \notin {"serial", "parallel_2"}
    <3>1. Cardinality(Running) <= 3
      BY <1>1, <1>2
    <3> QED
      BY <2>4, <3>1 DEF ParallelAsNamed
  <2> QED
    BY <2>2, <2>3, <2>4
<1> QED
  BY <1>3, InvariantHolds, PTL

-----------------------------------------------------------------------------
(* The sums *)

LEMMA Quotients == \A a \in Nat, m \in Nat \ {0} : a \div m \in Nat /\ a \div m <= a
<1> SUFFICES ASSUME NEW a \in Nat, NEW m \in Nat \ {0}
             PROVE  a \div m \in Nat /\ a \div m <= a
  OBVIOUS
<1> DEFINE d == a \div m
           e == a % m
<1>1. d \in Int /\ e \in 0 .. m - 1 /\ a = d * m + e
  BY DivMod
<1> HIDE DEF d, e
<1>2. d < 0 => d * m <= -m
  BY <1>1
<1>3. d >= 0 => d <= d * m
  BY <1>1
<1>4. d \in Nat /\ d <= a
  BY <1>1, <1>2, <1>3
<1> QED
  BY <1>4 DEF d

LEMMA Numbers ==
  /\ APPLE_MAX_VALUE \in Word
  /\ {apple_a_mul, apple_b_mul, orange_init_a, orange_init_b, orange_ka, orange_kb} \subseteq Word
  /\ {apple_a_div, apple_b_div} \subseteq Word \ {0}
  /\ Word \subseteq Nat
BY AppleOrangeAssumption DEF Word

LEMMA WordMod == \A a \in Int : (a % pow2[bit_width]) \in Word
<1> DEFINE W == pow2[bit_width]
<1>1. W \in Nat \ {0} /\ Word = 0 .. W - 1
  BY Words DEF Word
<1> HIDE DEF W
<1>2. \A a \in Int : (a % W) \in Word
  BY <1>1, DivMod
<1> QED
  BY <1>2 DEF W

(* A part of the apple adds the quotient of a product that wraps. *)
LEMMA PartTerm ==
  ASSUME NEW k \in Word, NEW d \in Word \ {0}, NEW n \in Int
  PROVE  /\ ((n * k) % pow2[bit_width]) \div d \in Word
         /\ n \in Word => div[<<mul[<<n, k>>], d>>] = ((n * k) % pow2[bit_width]) \div d
<1> DEFINE x == (n * k) % pow2[bit_width]
<1>1. x \in Word
  <2>1. n * k \in Int
    BY Words
  <2> QED
    BY <2>1, WordMod
<1>2. n \in Word => mul[<<n, k>>] = x
  BY Mul
<1> HIDE DEF x
<1>3. x \in Nat /\ d \in Nat \ {0}
  BY <1>1, Words
<1>4. x \div d \in Nat /\ x \div d <= x
  BY <1>3, Quotients
<1>5. \A y \in Nat : y <= x => y \in Word
  BY <1>1, Words DEF Word
<1>6. n \in Word => div[<<mul[<<n, k>>], d>>] = x \div d
  BY <1>1, <1>2, Div
<1> QED
  BY <1>4, <1>5, <1>6 DEF x

(* What the threads add is what they should, but for whole words. *)
LEMMA Terms ==
  ASSUME NEW t \in Summer
  PROVE  /\ \A n \in Int : PlainTerm(t, n) \in Nat
         /\ \A s \in Word, n \in 0 .. Max(t) - 1 :
              /\ Term(t, n) \in Word
              /\ add[<<s, Term(t, n)>>] = ((s + PlainTerm(t, n)) % pow2[bit_width])
<1> DEFINE W == pow2[bit_width]
<1>1. ASSUME NEW k \in Word, NEW d \in Word \ {0}, t # "orange",
             \A n \in Int : PlainTerm(t, n) = ((n * k) % W) \div d,
             \A n \in Int : Term(t, n) = div[<<mul[<<n, k>>], d>>]
      PROVE  /\ \A n \in Int : PlainTerm(t, n) \in Nat
             /\ \A s \in Word, n \in 0 .. Max(t) - 1 :
                  /\ Term(t, n) \in Word
                  /\ add[<<s, Term(t, n)>>] = ((s + PlainTerm(t, n)) % W)
  <2>1. \A n \in Int : PlainTerm(t, n) \in Word /\ PlainTerm(t, n) \in Nat
    BY <1>1, PartTerm, Words
  <2>2. ASSUME NEW n \in 0 .. Max(t) - 1 PROVE n \in Word /\ n \in Int
    <3>1. Max(t) = APPLE_MAX_VALUE /\ Word = 0 .. W - 1 /\ W \in Nat
      BY <1>1, Words DEF Max, Word
    <3>2. APPLE_MAX_VALUE \in 0 .. W - 1
      BY <3>1, Numbers
    <3> HIDE DEF W
    <3> QED
      BY <3>1, <3>2
  <2>3. ASSUME NEW n \in 0 .. Max(t) - 1 PROVE Term(t, n) = PlainTerm(t, n) /\ Term(t, n) \in Word
    <3>1. n \in Word /\ n \in Int
      BY <2>2
    <3>2. div[<<mul[<<n, k>>], d>>] = ((n * k) % W) \div d
      BY <3>1, PartTerm, Zenon
    <3>3. Term(t, n) = PlainTerm(t, n)
      BY <1>1, <3>1, <3>2, Zenon
    <3> QED
      BY <2>1, <3>1, <3>3, Zenon
  <2>4. ASSUME NEW s \in Word, NEW n \in 0 .. Max(t) - 1
        PROVE  add[<<s, Term(t, n)>>] = ((s + PlainTerm(t, n)) % W)
    BY <2>3, Add
  <2> QED
    BY <2>1, <2>3, <2>4
<1>2. CASE t = "part_a"
  BY <1>1, <1>2, Numbers DEF Term, PlainTerm
<1>3. CASE t = "part_b"
  BY <1>1, <1>3, Numbers DEF Term, PlainTerm
<1>4. CASE t = "orange"
  <2> DEFINE x == orange_init_a * orange_ka
             y == orange_init_b * orange_kb
             z == add[<<mul[<<orange_init_a, orange_ka>>], mul[<<orange_init_b, orange_kb>>]>>]
  <2>1. \A n : PlainTerm(t, n) = x + y /\ Term(t, n) = z
    BY <1>4 DEF Term, PlainTerm
  <2>2. /\ orange_init_a \in Word /\ orange_ka \in Word
        /\ orange_init_b \in Word /\ orange_kb \in Word
    BY Numbers
  <2>3. x \in Int /\ y \in Int /\ x + y \in Nat
    <3>1. /\ orange_init_a \in Nat /\ orange_ka \in Nat
          /\ orange_init_b \in Nat /\ orange_kb \in Nat
      BY <2>2, Words
    <3> QED
      BY <3>1
  <2>4. /\ mul[<<orange_init_a, orange_ka>>] \in Word /\ mul[<<orange_init_b, orange_kb>>] \in Word
        /\ mul[<<orange_init_a, orange_ka>>] = (x % W) /\ mul[<<orange_init_b, orange_kb>>] = (y % W)
    BY <2>2, Mul
  <2>5. z \in Word /\ z = (((x % W) + (y % W)) % W)
    BY <2>4, Add, AddType
  <2> HIDE DEF x, y, z
  <2>6. W \in Nat \ {0}
    BY Words
  <2>7. z = ((x + y) % W)
    <3> HIDE DEF W
    <3> QED
      BY <2>3, <2>5, <2>6, ModSum
  <2>8. ASSUME NEW s \in Word PROVE add[<<s, z>>] = ((s + (x + y)) % W)
    <3>1. s \in Int /\ x + y \in Int
      BY <2>3, Words
    <3>2. add[<<s, z>>] = ((s + z) % W) /\ z \in Int
      BY <2>5, Add, Words
    <3> HIDE DEF W
    <3>3. ((((x + y) % W) + s) % W) = (((x + y) + s) % W)
      BY <2>6, <3>1, ModAdd
    <3>4. s + z = ((x + y) % W) + s /\ (x + y) + s = s + (x + y)
      BY <2>3, <2>7, <3>1, <3>2
    <3> QED
      BY <3>2, <3>3, <3>4
  <2> QED
    BY <2>1, <2>3, <2>5, <2>8
<1> QED
  BY <1>2, <1>3, <1>4 DEF Summer

LEMMA TotalsDefined ==
  ASSUME NEW t \in Summer
  PROVE  /\ Totals(t)[0] = 0
         /\ \A n \in 0 .. Max(t) - 1 :
              Totals(t)[n + 1] = ((Totals(t)[n] + PlainTerm(t, n)) % pow2[bit_width])
<1> DEFINE W == pow2[bit_width]
           N == Max(t)
           term == [n \in Int |-> PlainTerm(t, n)]
           step == [x \in Nat \X Nat |-> (x[2] + term[x[1] - 1]) % W]
           Value(n, last) == (last + PlainTerm(t, n - 1)) % W
           Body(f) == [n \in 0 .. N |-> IF n = 0 THEN 0 ELSE Value(n, f[n - 1])]
<1>1. N \in Nat /\ W \in Nat \ {0} /\ term \in [Int -> Nat]
      /\ \A n \in Int : term[n] = PlainTerm(t, n)
  BY Maxes, Words, Terms
<1> HIDE DEF N, W, term
<1>2. step \in [Nat \X Nat -> Nat] /\ 0 \in Nat
  <2>1. \A n \in Nat, m \in Nat : ((n + term[m - 1]) % W) \in Nat
    <3> SUFFICES ASSUME NEW n \in Nat, NEW m \in Nat PROVE ((n + term[m - 1]) % W) \in Nat
      OBVIOUS
    <3>1. n + term[m - 1] \in Int
      BY <1>1
    <3> QED
      BY <1>1, <3>1, DivMod
  <2> QED
    BY <2>1
<1>3. PICK f \in [0 .. N -> Nat] :
        f[0] = 0 /\ \A n \in 1 .. N : f[n] = step[<<n, f[n - 1]>>]
  <2> HIDE DEF step
  <2>1. \A s \in [Nat \X Nat -> Nat], M \in Nat :
          \E f \in [0 .. M -> Nat] : f[0] = 0 /\ \A n \in 1 .. M : f[n] = s[<<n, f[n - 1]>>]
    BY <1>2, RecursionDefines, Zenon
  <2> QED
    BY <1>1, <1>2, <2>1, Zenon
<1>4. f = Body(f)
  <2>1. ASSUME NEW n \in 0 .. N PROVE f[n] = IF n = 0 THEN 0 ELSE Value(n, f[n - 1])
    <3>1. n # 0 => n \in 1 .. N /\ n \in Nat /\ n - 1 \in 0 .. N /\ n - 1 \in Int
      BY <1>1
    <3>2. n # 0 => f[n - 1] \in Nat
      BY <3>1
    <3>3. n # 0 => f[n] = step[<<n, f[n - 1]>>]
      BY <1>3, <3>1, Zenon
    <3>4. n # 0 => f[n] = ((f[n - 1] + term[n - 1]) % W)
      BY <3>1, <3>2, <3>3
    <3> QED
      BY <1>1, <1>3, <3>1, <3>4
  <2> HIDE DEF step, Value
  <2> QED
    BY <2>1
<1> DEFINE total == Totals(t)
<1>5. total = Body(total)
  <2>1. total = CHOOSE g : g = Body(g)
    BY DEF Totals, N, W
  <2> HIDE DEF Body, total
  <2> QED
    BY <1>4, <2>1
<1> HIDE DEF total, Value
<1>6. ASSUME NEW n \in 0 .. N PROVE total[n] = IF n = 0 THEN 0 ELSE Value(n, total[n - 1])
  BY <1>5
<1>7. ASSUME NEW n \in 0 .. N - 1 PROVE total[n + 1] = ((total[n] + PlainTerm(t, n)) % W)
  <2>1. n + 1 \in 0 .. N /\ n + 1 # 0 /\ (n + 1) - 1 = n
    BY <1>1
  <2>2. total[n + 1] = Value(n + 1, total[(n + 1) - 1])
    BY <1>6, <2>1
  <2> QED
    BY <2>1, <2>2 DEF Value
<1>8. total[0] = 0
  BY <1>1, <1>6, SMTT(30)
<1> QED
  BY <1>7, <1>8 DEF total, N, W

\* A sum is the sum of the terms up to the loop index, and a sum that is being
\* added to has not changed since it was read.
Adding ==
  /\ sum \in [Summer -> Word]
  /\ \A t \in Summer : /\ i[t] <= Max(t) /\ sum[t] = Totals(t)[i[t]]
                       /\ seen[t] # Unread => seen[t] = sum[t]
                       /\ state[t] = "ended" => i[t] = Max(t)

LEMMA AddingAtFirst == Init => Adding
<1> SUFFICES ASSUME Init PROVE Adding
  OBVIOUS
<1>1. 0 \in Word
  BY Words DEF Word
<1>2. /\ i = [t \in Summer |-> 0] /\ sum = [t \in Summer |-> 0]
      /\ seen = [t \in Summer |-> Unread] /\ \A t \in Summer : state[t] = "unborn"
  BY DEF Init, Summer
<1> QED
  BY <1>1, <1>2, Maxes, TotalsDefined DEF Adding

LEMMA AddingPreserved == IInv /\ Adding /\ [Next]_vars => Adding'
<1> SUFFICES ASSUME IInv, Adding, [Next]_vars PROVE Adding'
  OBVIOUS
<1>1. /\ state \in [Thread -> {"unborn", "running", "ended"}] /\ i \in [Summer -> Nat]
      /\ seen = [t \in Summer |-> seen[t]] /\ Summer \subseteq Thread /\ Creator \subseteq Thread
      /\ \A t \in Summer : seen[t] # Unread => state[t] = "running" /\ i[t] < Max(t)
  BY DEF IInv, TypeOK, InLoop, Thread
<1>2. ASSUME NEW t \in Creator, Create(t) PROVE Adding'
  <2>1. PICK u \in Thread : state' = [state EXCEPT ![u] = "running"] /\ UNCHANGED <<i, sum, seen>>
    BY <1>2, CreateMeans, Families DEF IInv, Create
  <2> QED
    BY <1>1, <2>1 DEF Adding
<1>3. ASSUME NEW t \in Creator, Join(t) PROVE Adding'
  BY <1>3 DEF Adding, Join
<1>4. ASSUME NEW t \in Thread, End(t) PROVE Adding'
  <2>1. /\ state' = [state EXCEPT ![t] = "ended"]
        /\ t \in Summer => i[t] = Max(t)
        /\ UNCHANGED <<i, sum, seen>>
    BY <1>4 DEF End
  <2> QED
    BY <1>1, <2>1 DEF Adding
<1>5. ASSUME NEW t \in Summer, ReadSum(t) PROVE Adding'
  <2>1. seen' = [seen EXCEPT ![t] = sum[t]] /\ UNCHANGED <<state, i, sum>>
    BY <1>5 DEF ReadSum
  <2> QED
    BY <1>1, <2>1 DEF Adding
<1>6. ASSUME NEW t \in Summer, Assign(t) PROVE Adding'
  <2> DEFINE next == add[<<seen[t], Term(t, i[t])>>]
  <2>1. /\ seen[t] # Unread /\ sum' = [sum EXCEPT ![t] = next]
        /\ i' = [i EXCEPT ![t] = @ + 1] /\ seen' = [seen EXCEPT ![t] = Unread]
        /\ state' = state
    BY <1>6 DEF Assign
  <2>2. seen[t] = sum[t] /\ sum[t] \in Word /\ i[t] \in 0 .. Max(t) - 1 /\ state[t] = "running"
    BY <1>1, <2>1, Maxes DEF Adding
  <2>3. next \in Word /\ next = ((sum[t] + PlainTerm(t, i[t])) % pow2[bit_width])
    BY <2>2, Terms, AddType
  <2>4. next = Totals(t)[i[t] + 1]
    BY <2>2, <2>3, TotalsDefined DEF Adding
  <2> HIDE DEF next
  <2>5. sum' \in [Summer -> Word]
    BY <2>1, <2>3 DEF Adding
  <2>6. /\ i'[t] = i[t] + 1 /\ i[t] + 1 <= Max(t) /\ sum'[t] = next /\ seen'[t] = Unread
        /\ state'[t] = "running"
    BY <1>1, <2>1, <2>2, Maxes DEF Adding
  <2>7. \A u \in Summer \ {t} :
          i'[u] = i[u] /\ sum'[u] = sum[u] /\ seen'[u] = seen[u] /\ state'[u] = state[u]
    BY <1>1, <2>1 DEF Adding
  <2>8. ASSUME NEW u \in Summer
        PROVE  /\ i'[u] <= Max(u) /\ sum'[u] = Totals(u)[i'[u]]
               /\ seen'[u] # Unread => seen'[u] = sum'[u]
               /\ state'[u] = "ended" => i'[u] = Max(u)
    <3>1. CASE u = t
      BY <2>4, <2>6, <3>1
    <3>2. CASE u # t
      BY <2>7, <3>2 DEF Adding
    <3> QED
      BY <3>1, <3>2
  <2>9. \A u : Max(u)' = Max(u) /\ Totals(u)' = Totals(u)
    BY DEF Max, Totals, PlainTerm
  <2> QED
    BY <2>5, <2>8, <2>9 DEF Adding
<1>7. CASE UNCHANGED vars
  BY <1>7 DEF vars, Adding
<1> QED
  BY <1>1, <1>2, <1>3, <1>4, <1>5, <1>6, <1>7 DEF Next, CreatorStep, SummerStep

LEMMA AddingHolds == SafeSpec => []Adding
BY InvariantHolds, AddingAtFirst, AddingPreserved, PTL DEF SafeSpec

(* The asserts of config.hpp hold for words of any width and every two of   *)
(* them, and the threads operate on words.                                  *)
THEOREM AssertsAlwaysHold == SafeSpec => []AssertsHold
<1>1. IInv /\ Adding => AssertsHold
  <2> SUFFICES ASSUME IInv, Adding, NEW t \in Summer
               PROVE  sum[t] \in Word /\ (i[t] < Max(t) => Term(t, i[t]) \in Word)
    BY ArithmeticIsRight DEF AssertsHold
  <2>1. sum[t] \in Word /\ i[t] \in Nat
    BY DEF IInv, TypeOK, Adding
  <2>2. ASSUME i[t] < Max(t) PROVE i[t] \in 0 .. Max(t) - 1
    BY <2>1, <2>2, Maxes
  <2> QED
    BY <2>1, <2>2, Terms
<1> QED
  BY <1>1, AddingHolds, InvariantHolds, PTL

(* Whichever of the eight programs runs and however its threads interleave, *)
(* when it has ended the sums are those of the terms, calculated with words *)
(* of any width in any number of rounds, by the loops over the bits: the    *)
(* half of EndsWithTheSums that is not about time.                          *)
THEOREM EndsWithNoOtherSums ==
  SafeSpec => [](state["main"] = "ended" => \A t \in Summer : sum[t] = Total(t))
<1>1. IInv /\ NobodyOutlivesMain /\ Adding
        => (state["main"] = "ended" => \A t \in Summer : sum[t] = Total(t))
  <2> SUFFICES ASSUME IInv, NobodyOutlivesMain, Adding, state["main"] = "ended", NEW t \in Summer
               PROVE  sum[t] = Total(t)
    OBVIOUS
  <2>1. at["main"] > 4
    BY DEF IInv, Life, Creator
  <2> QED
    BY <2>1 DEF NobodyOutlivesMain, Adding, Total
<1> QED
  BY <1>1, AddingHolds, InvariantHolds, NobodyEverOutlivesMain, PTL

-----------------------------------------------------------------------------
(* Progress: what EndsWithTheSums needs besides fairness.                   *)

\* Whom a creator has created, and that a thread holds the mutex just from its
\* read to its assignment.
Creating ==
  \A t \in Creator : /\ at[t] > 1 => state[First(t)] # "unborn"
                     /\ at[t] > CreatesSecond(t) => state[Second(t)] # "unborn"

Locking ==
  /\ mutex # None => mutex \in Summer /\ Locks(mutex)
  /\ \A t \in Summer : Locks(t) => (seen[t] # Unread <=> mutex = t)

\* When a thread can take its next step, by itself: the guards of its actions.
CreatorCanStep(t) ==
  /\ state[t] = "running"
  /\ \/ at[t] <= 4 /\ Script(t)[at[t]][1] = "create"
     \/ at[t] <= 4 /\ Script(t)[at[t]][1] = "join" /\ state[Script(t)[at[t]][2]] = "ended"
     \/ at[t] > 4

SummerCanStep(t) ==
  \/ state[t] = "running" /\ i[t] < Max(t) /\ seen[t] = Unread /\ (Locks(t) => mutex = None)
  \/ seen[t] # Unread
  \/ state[t] = "running" /\ i[t] = Max(t)

SomebodyCanStep == \/ \E t \in Creator : CreatorCanStep(t)
                   \/ \E t \in Summer : SummerCanStep(t)

\* How many more steps a creator and a summer can take.
CreatorSteps(t) ==
  CASE state[t] = "unborn" -> 6
    [] state[t] = "running" -> 6 - at[t]
    [] state[t] = "ended" -> 0

SummerSteps(t) ==
  LET rounds == 2 * (Max(t) - i[t]) - (IF seen[t] = Unread THEN 0 ELSE 1)
  IN  CASE state[t] = "unborn" -> rounds + 2
        [] state[t] = "running" -> rounds + 1
        [] state[t] = "ended" -> rounds

StepCounts == /\ \A t \in Creator : CreatorSteps(t) \in Nat
              /\ \A t \in Summer : SummerSteps(t) \in Nat

\* A step after which somebody has fewer steps to take and nobody has more.
StepSpent ==
  /\ \A t \in Creator : CreatorSteps(t)' <= CreatorSteps(t)
  /\ \A t \in Summer : SummerSteps(t)' <= SummerSteps(t)
  /\ \/ \E t \in Creator : CreatorSteps(t)' < CreatorSteps(t)
     \/ \E t \in Summer : SummerSteps(t)' < SummerSteps(t)

LEMMA CreatingAtFirst == Init => Creating
BY DEF Init, Creating, CreatesSecond

LEMMA CreatingPreserved == IInv /\ Creating /\ [Next]_vars => Creating'
<1> SUFFICES ASSUME IInv, Creating, [Next]_vars, NEW c \in Creator PROVE Creating!(c)'
  BY DEF Creating
<1> USE DEF Creating, IInv, TypeOK
<1>1. /\ First(c) \in Thread /\ Second(c) \in Thread /\ Creator \subseteq Thread
      /\ Summer \subseteq Thread /\ at[c] \in 1 .. 5 /\ CreatesSecond(c) \in {2, 3}
  BY Families DEF Thread, CreatesSecond
<1>2. CASE UNCHANGED program
  <2>0. UNCHANGED CreatesSecond(c)
    BY <1>2 DEF CreatesSecond, Both
  <2>1. ASSUME NEW t \in Creator, Create(t) PROVE Creating!(c)'
    <3>1. PICK u \in {First(t), Second(t)} :
            /\ at' = [at EXCEPT ![t] = @ + 1] /\ state' = [state EXCEPT ![u] = "running"]
            /\ \/ at[t] = 1 /\ u = First(t)
               \/ at[t] = CreatesSecond(t) /\ u = Second(t)
      BY <2>1, CreateMeans
    <3>2. \A other \in Thread : state[other] # "unborn" => state'[other] # "unborn"
      BY <3>1
    <3>3. CASE c = t
      BY <1>1, <2>0, <3>1, <3>2, <3>3
    <3>4. CASE c # t
      BY <1>1, <2>0, <3>1, <3>2, <3>4
    <3> QED
      BY <3>3, <3>4
  <2>2. ASSUME NEW t \in Creator, Join(t) PROVE Creating!(c)'
    <3>1. /\ at' = [at EXCEPT ![t] = @ + 1] /\ UNCHANGED state
          /\ at[t] = JoinsFirst(t) \/ at[t] = 4
      BY <2>2, JoinMeans
    <3>2. at[t] \in 2 .. 4 /\ at[t] # CreatesSecond(t)
      BY <3>1 DEF JoinsFirst, CreatesSecond
    <3>3. CASE c = t
      BY <1>1, <2>0, <3>1, <3>2, <3>3
    <3>4. CASE c # t
      BY <1>1, <2>0, <3>1, <3>4
    <3> QED
      BY <3>3, <3>4
  <2>3. ASSUME NEW t \in Thread, End(t) PROVE Creating!(c)'
    BY <1>1, <2>0, <2>3 DEF End
  <2>4. ASSUME NEW t \in Summer, ReadSum(t) \/ Assign(t) PROVE Creating!(c)'
    BY <1>1, <2>0, <2>4 DEF ReadSum, Assign
  <2>5. CASE UNCHANGED vars
    BY <2>0, <2>5 DEF vars
  <2> QED
    BY <1>1, <2>1, <2>2, <2>3, <2>4, <2>5 DEF Next, CreatorStep, SummerStep
<1> QED
  BY <1>2 DEF Next, CreatorStep, SummerStep, Create, Join, End, ReadSum, Assign, vars

LEMMA LockingAtFirst == Init => Locking
BY DEF Init, Locking, Summer, None

LEMMA LockingPreserved == IInv /\ Adding /\ Locking /\ [Next]_vars => Locking'
<1> SUFFICES ASSUME IInv, Adding, Locking, [Next]_vars PROVE Locking'
  OBVIOUS
<1>1. /\ seen = [t \in Summer |-> seen[t]] /\ None \notin Summer
      /\ \A t \in Summer : sum[t] # Unread
  BY Words DEF IInv, TypeOK, Adding, None, Summer, Unread
<1>2. ASSUME NEW t \in Summer, ReadSum(t) PROVE Locking'
  BY <1>1, <1>2 DEF ReadSum, Locking, Locks
<1>3. ASSUME NEW t \in Summer, Assign(t) PROVE Locking'
  BY <1>1, <1>3 DEF Assign, Locking, Locks
<1>4. CASE UNCHANGED <<program, seen, mutex>>
  BY <1>4 DEF Locking, Locks
<1> QED
  BY <1>2, <1>3, <1>4 DEF Next, CreatorStep, SummerStep, Create, Join, End, vars

(* The script of a creator that cannot go on: it joins a thread that runs.  *)
LEMMA BlockedInJoin ==
  ASSUME IInv, Creating, NEW t \in Creator, state[t] = "running", ~CreatorCanStep(t)
  PROVE  state[First(t)] = "running" \/ state[Second(t)] = "running"
<1> USE DEF IInv, TypeOK, Creating
<1>1. at[t] \in 1 .. 4
  BY DEF CreatorCanStep
<1>2. First(t) \in Thread /\ Second(t) \in Thread
  BY Families
<1>3. Script(t)[at[t]][1] # "create"
  BY <1>1 DEF CreatorCanStep
<1>4. /\ Script(t)[at[t]][1] = "join" /\ state[Script(t)[at[t]][2]] # "ended"
      /\ \/ at[t] > 1 /\ Script(t)[at[t]][2] = First(t)
         \/ at[t] > CreatesSecond(t) /\ Script(t)[at[t]][2] = Second(t)
  <2>1. CASE at[t] = 1
    BY <1>3, <2>1 DEF Script
  <2>2. CASE at[t] = 2
    BY <1>1, <1>3, <2>2 DEF Script, First, CreatorCanStep
  <2>3. CASE at[t] = 3
    BY <1>1, <1>3, <2>3 DEF Script, First, CreatorCanStep
  <2>4. CASE at[t] = 4
    BY <1>1, <1>3, <2>4 DEF Script, Second, CreatorCanStep, CreatesSecond
  <2> QED
    BY <1>1, <2>1, <2>2, <2>3, <2>4
<1> QED
  BY <1>2, <1>4

(* A thread that runs and calculates a sum can go on, or the one that holds *)
(* the mutex can.                                                           *)
LEMMA SummersGoOn ==
  ASSUME IInv, Adding, Locking, NEW t \in Summer, state[t] = "running"
  PROVE  \E u \in Summer : SummerCanStep(u)
<1>1. i[t] \in Nat /\ i[t] <= Max(t) /\ Max(t) \in Nat
  BY Maxes DEF IInv, TypeOK, Adding
<1>2. CASE i[t] = Max(t) \/ seen[t] # Unread \/ (Locks(t) => mutex = None)
  BY <1>1, <1>2 DEF SummerCanStep
<1>3. CASE mutex # None
  BY <1>3 DEF Locking, SummerCanStep
<1> QED
  BY <1>2, <1>3

(* No program is ever deadlocked: until main has ended some thread can go   *)
(* on, joining in whatever order and locking a mutex or not.                *)
THEOREM NeverDeadlocked == SafeSpec => [](state["main"] # "ended" => SomebodyCanStep)
<1>1. IInv /\ Adding /\ Creating /\ Locking => (state["main"] # "ended" => SomebodyCanStep)
  <2> SUFFICES ASSUME IInv, Adding, Creating, Locking, state["main"] # "ended",
                      \A t \in Creator : ~CreatorCanStep(t)
               PROVE  \E t \in Summer : SummerCanStep(t)
    BY DEF SomebodyCanStep
  <2>1. state["main"] = "running"
    BY DEF IInv, TypeOK, Life, Thread, Creator
  <2>2. state["apple"] = "running" \/ state["orange"] = "running"
    BY <2>1, BlockedInJoin DEF Creator, First, Second
  <2>3. \E t \in Summer : state[t] = "running"
    BY <2>2, BlockedInJoin DEF Creator, First, Second, Summer
  <2> QED
    BY <2>3, SummersGoOn
<1> QED
  BY <1>1, AddingHolds, InvariantHolds, CreatingAtFirst, CreatingPreserved, LockingAtFirst,
     LockingPreserved, PTL DEF SafeSpec

LEMMA StepsAreCounted == IInv /\ Adding => StepCounts
<1> SUFFICES ASSUME IInv, Adding PROVE StepCounts
  OBVIOUS
<1>1. ASSUME NEW t \in Creator PROVE CreatorSteps(t) \in Nat
  <2>1. state[t] \in {"unborn", "running", "ended"} /\ at[t] \in 1 .. 5
    BY DEF IInv, TypeOK, Thread
  <2> QED
    BY <2>1 DEF CreatorSteps
<1>2. ASSUME NEW t \in Summer PROVE SummerSteps(t) \in Nat
  <2>1. /\ state[t] \in {"unborn", "running", "ended"} /\ i[t] \in Nat /\ Max(t) \in Nat
        /\ i[t] <= Max(t) /\ (seen[t] # Unread => i[t] < Max(t))
    BY Maxes DEF IInv, TypeOK, Thread, InLoop, Adding
  <2>2. 2 * (Max(t) - i[t]) - (IF seen[t] = Unread THEN 0 ELSE 1) \in Nat
    BY <2>1
  <2> QED
    BY <2>1, <2>2 DEF SummerSteps
<1> QED
  BY <1>1, <1>2 DEF StepCounts

\* How the count of one thread falls when the others stay as they are.
LEMMA OneSpends ==
  ASSUME StepCounts,
         NEW t \in Thread,
         \A c \in Creator : c = t => CreatorSteps(c)' < CreatorSteps(c)
                                     /\ CreatorSteps(c)' <= CreatorSteps(c),
         \A s \in Summer : s = t => SummerSteps(s)' < SummerSteps(s)
                                    /\ SummerSteps(s)' <= SummerSteps(s),
         \A c \in Creator : c # t => CreatorSteps(c)' = CreatorSteps(c),
         \A s \in Summer : s # t => SummerSteps(s)' = SummerSteps(s)
  PROVE  StepSpent
<1>1. /\ \A c \in Creator : CreatorSteps(c)' = CreatorSteps(c) => CreatorSteps(c)' <= CreatorSteps(c)
      /\ \A s \in Summer : SummerSteps(s)' = SummerSteps(s) => SummerSteps(s)' <= SummerSteps(s)
  BY DEF StepCounts
<1> QED
  BY <1>1 DEF StepSpent, Thread

\* What the counts are made of.
LEMMA CountTypes ==
  ASSUME IInv, Adding
  PROVE  /\ \A c \in Creator : /\ state[c] \in {"unborn", "running", "ended"} /\ at[c] \in 1 .. 5
                               /\ state[c] = "unborn" => at[c] = 1
         /\ \A s \in Summer : /\ state[s] \in {"unborn", "running", "ended"}
                              /\ i[s] \in Nat /\ Max(s) \in Nat
BY Maxes DEF IInv, TypeOK, Life, Thread, Adding

LEMMA CreateSpends ==
  ASSUME IInv, Adding, NEW t \in Creator, Create(t)
  PROVE  StepSpent
<1>1. PICK u \in {First(t), Second(t)} :
        /\ state[t] = "running" /\ at' = [at EXCEPT ![t] = @ + 1]
        /\ UNCHANGED <<i, seen>>
        /\ state' = [state EXCEPT ![u] = "running"] /\ state[u] = "unborn"
        /\ \/ at[t] = 1 /\ u = First(t)
           \/ at[t] = CreatesSecond(t) /\ u = Second(t)
  BY CreateMeans DEF IInv, TypeOK, Life
<1>2. u \in Thread /\ u # t /\ state \in [Thread -> {"unborn", "running", "ended"}]
      /\ at \in [Creator -> 1 .. 5] /\ Creator \subseteq Thread /\ Summer \subseteq Thread
  BY <1>1, Families DEF Thread, IInv, TypeOK
<1>3. CreatorSteps(t)' < CreatorSteps(t) /\ CreatorSteps(t)' <= CreatorSteps(t)
  <2>1. state'[t] = "running" /\ at'[t] = at[t] + 1 /\ at[t] \in Int
    BY <1>1, <1>2
  <2> QED
    BY <1>1, <2>1 DEF CreatorSteps
<1>4. ASSUME NEW c \in Creator, c # t PROVE CreatorSteps(c)' <= CreatorSteps(c)
  <2>1. at'[c] = at[c]
        /\ (state'[c] = state[c] \/ (state[c] = "unborn" /\ state'[c] = "running"))
    BY <1>1, <1>2, <1>4
  <2> QED
    BY <2>1, CountTypes DEF CreatorSteps
<1>5. ASSUME NEW s \in Summer PROVE SummerSteps(s)' <= SummerSteps(s)
  <2>1. i'[s] = i[s] /\ seen'[s] = seen[s] /\ Max(s)' = Max(s)
        /\ (state'[s] = state[s] \/ (state[s] = "unborn" /\ state'[s] = "running"))
    BY <1>1, <1>2 DEF Max
  <2> QED
    BY <2>1, CountTypes DEF SummerSteps
<1> QED
  BY <1>3, <1>4, <1>5 DEF StepSpent

LEMMA JoinSpends ==
  ASSUME IInv, Adding, NEW t \in Creator, Join(t)
  PROVE  StepSpent
<1>1. /\ state[t] = "running" /\ at' = [at EXCEPT ![t] = @ + 1]
      /\ UNCHANGED <<state, i, seen>>
  BY JoinMeans DEF IInv
<1>2. t \in Thread /\ at \in [Creator -> 1 .. 5] /\ t \notin Summer
  BY DEF Thread, IInv, TypeOK, Creator, Summer
<1>3. CreatorSteps(t)' < CreatorSteps(t) /\ CreatorSteps(t)' <= CreatorSteps(t)
  BY <1>1, <1>2 DEF CreatorSteps
<1>4. ASSUME NEW c \in Creator, c # t PROVE CreatorSteps(c)' = CreatorSteps(c)
  BY <1>1, <1>2, <1>4 DEF CreatorSteps
<1>5. ASSUME NEW s \in Summer PROVE SummerSteps(s)' = SummerSteps(s)
  BY <1>1 DEF SummerSteps, Max
<1> QED
  BY <1>2, <1>3, <1>4, <1>5, StepsAreCounted, OneSpends

LEMMA EndSpends ==
  ASSUME IInv, Adding, NEW t \in Thread, End(t)
  PROVE  StepSpent
<1>1. /\ state[t] = "running" /\ state' = [state EXCEPT ![t] = "ended"]
      /\ UNCHANGED <<at, i, seen>>
  BY DEF End
<1>2. /\ state'[t] = "ended" /\ \A u \in Thread \ {t} : state'[u] = state[u]
      /\ Creator \subseteq Thread /\ Summer \subseteq Thread
  BY <1>1 DEF Thread, IInv, TypeOK
<1>3. ASSUME NEW c \in Creator, c = t
      PROVE  CreatorSteps(c)' < CreatorSteps(c) /\ CreatorSteps(c)' <= CreatorSteps(c)
  BY <1>1, <1>2, <1>3, CountTypes DEF CreatorSteps
<1>4. ASSUME NEW s \in Summer, s = t
      PROVE  SummerSteps(s)' < SummerSteps(s) /\ SummerSteps(s)' <= SummerSteps(s)
  BY <1>1, <1>2, <1>4, CountTypes DEF SummerSteps, Max
<1>5. ASSUME NEW c \in Creator, c # t PROVE CreatorSteps(c)' = CreatorSteps(c)
  BY <1>1, <1>2, <1>5 DEF CreatorSteps
<1>6. ASSUME NEW s \in Summer, s # t PROVE SummerSteps(s)' = SummerSteps(s)
  BY <1>1, <1>2, <1>6 DEF SummerSteps, Max
<1> QED
  BY <1>3, <1>4, <1>5, <1>6, StepsAreCounted, OneSpends

LEMMA LoopSpends ==
  ASSUME IInv, Adding, NEW t \in Summer, ReadSum(t) \/ Assign(t)
  PROVE  StepSpent
<1>1. UNCHANGED <<state, at>> /\ t \in Thread /\ t \notin Creator
  BY DEF ReadSum, Assign, Thread, Creator, Summer
<1>2. /\ \A s \in Summer \ {t} : i'[s] = i[s] /\ seen'[s] = seen[s]
      /\ \/ seen[t] = Unread /\ seen'[t] # Unread /\ i'[t] = i[t]
         \/ seen[t] # Unread /\ seen'[t] = Unread /\ i'[t] = i[t] + 1
  <2>1. /\ seen = [s \in Summer |-> seen[s]] /\ i \in [Summer -> Nat] /\ sum[t] # Unread
    BY Words DEF IInv, TypeOK, Adding, Unread
  <2>2. CASE ReadSum(t)
    BY <2>1, <2>2 DEF ReadSum
  <2>3. CASE Assign(t)
    <3>1. /\ seen[t] # Unread
          /\ i' = [i EXCEPT ![t] = @ + 1] /\ seen' = [seen EXCEPT ![t] = Unread]
      BY <2>3, Zenon DEF Assign
    <3> QED
      BY <2>1, <3>1
  <2> QED
    BY <2>2, <2>3
<1>3. SummerSteps(t)' < SummerSteps(t) /\ SummerSteps(t)' <= SummerSteps(t)
  BY <1>1, <1>2, CountTypes DEF SummerSteps, Max
<1>4. ASSUME NEW c \in Creator PROVE CreatorSteps(c)' = CreatorSteps(c)
  BY <1>1 DEF CreatorSteps
<1>5. ASSUME NEW s \in Summer, s # t PROVE SummerSteps(s)' = SummerSteps(s)
  BY <1>1, <1>2, <1>5 DEF SummerSteps, Max
<1> QED
  BY <1>1, <1>3, <1>4, <1>5, StepsAreCounted, OneSpends

(* The steps that every thread has left run out, in all eight programs and  *)
(* for any number of rounds.                                                *)
THEOREM StepsRunOut == SafeSpec => []StepCounts /\ [][StepSpent]_vars
<1>1. IInv /\ Adding /\ [Next]_vars => [StepSpent]_vars
  BY CreateSpends, JoinSpends, EndSpends, LoopSpends DEF Next, CreatorStep, SummerStep, Thread
<1>2. IInv /\ Adding => StepCounts
  BY StepsAreCounted
<1> HIDE DEF StepCounts, StepSpent
<1> QED
  BY <1>1, <1>2, AddingHolds, InvariantHolds, PTL DEF SafeSpec
=============================================================================
