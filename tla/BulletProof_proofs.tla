------------------------ MODULE BulletProof_proofs -------------------------
(***************************************************************************)
(* What the library promises, for every prime order, every number of bits  *)
(* and every choice of files, readings, tapes and challenges.              *)
(*                                                                         *)
(* The argument goes from the numbers modulo Order over sums, vectors and  *)
(* points to one round of the inner product argument; then to the          *)
(* invariant Inv of the whole call, from which each check of the verifier  *)
(* is shown to say one congruence of what the digits of the witness miss.  *)
(***************************************************************************)
EXTENDS BulletProof, FiniteSetTheorems, SequenceTheorems, TLAPS

-----------------------------------------------------------------------------
(* Induction                                                               *)

\* Every nonempty set of naturals has a least element.
LEMMA Least ==
  ASSUME NEW T, T \subseteq Nat, T # {}
  PROVE  \E n \in T : \A k \in T : n <= k
<1>1. \E x \in T : \A y \in T : ~ (<<y, x>> \in OpToRel(<, Nat))
  BY NatLessThanWellFounded, WFMin
<1>2. ASSUME NEW x \in T, NEW y \in T, <<y, x>> \notin OpToRel(<, Nat) PROVE x <= y
  BY <1>2 DEF OpToRel
<1> QED BY <1>1, <1>2

\* A set of naturals that has 0 and with each number the next has all.
LEMMA Induction ==
  ASSUME NEW T, T \subseteq Nat, 0 \in T, \A n \in T : n + 1 \in T
  PROVE  \A n \in Nat : n \in T
<1> SUFFICES ASSUME NEW k \in Nat, k \notin T PROVE FALSE
  OBVIOUS
<1> DEFINE U == {n \in Nat : n \notin T}
<1>1. PICK n \in U : \A j \in U : n <= j
  <2>1. U # {} /\ U \subseteq Nat
    OBVIOUS
  <2> HIDE DEF U
  <2> QED BY <2>1, Least
<1>2. n - 1 \in T
  BY <1>1
<1> QED BY <1>1, <1>2

-----------------------------------------------------------------------------
(* Numbers modulo Order                                                    *)

Cg(a, b) == \E q \in Int : a = b + q * Order

\* A remainder is in the field, and congruent to its number.
LEMMA CgMod ==
  ASSUME NEW a \in Int
  PROVE  a % Order \in Fp /\ a % Order \in Int /\ Cg(a % Order, a)
<1>1. /\ a % Order \in 0 .. Order - 1
      /\ a = Order * (a \div Order) + (a % Order)
      /\ a \div Order \in Int
  BY OrderIsPrime
<1>2. a % Order = a + (-(a \div Order)) * Order
  BY <1>1, OrderIsPrime
<1> QED BY <1>1, <1>2 DEF Cg, Fp

\* Congruent elements of the field are equal.
LEMMA CgUnique ==
  ASSUME NEW a \in Fp, NEW b \in Fp, Cg(a, b)
  PROVE  a = b
<1>1. PICK q \in Int : a = b + q * Order
  BY DEF Cg
<1>2. q < 1 /\ q > -1
  <2>1. q >= 1 => q * Order >= Order
    BY OrderIsPrime
  <2>2. q <= -1 => q * Order <= -Order
    BY OrderIsPrime
  <2> QED BY <1>1, <2>1, <2>2, OrderIsPrime DEF Fp
<1>3. q = 0
  BY <1>2
<1> QED BY <1>1, <1>3, OrderIsPrime DEF Fp

\* Congruence is reflexive, ...
LEMMA CgRefl == ASSUME NEW a \in Int PROVE Cg(a, a)
<1>1. a = a + 0 * Order
  BY OrderIsPrime
<1> QED BY <1>1 DEF Cg

\* ... symmetric ...
LEMMA CgSym == ASSUME NEW a \in Int, NEW b \in Int, Cg(a, b) PROVE Cg(b, a)
<1>1. PICK q \in Int : a = b + q * Order
  BY DEF Cg
<1>2. b = a + (-q) * Order
  BY <1>1, OrderIsPrime
<1> QED BY <1>2 DEF Cg

\* ... and transitive.
LEMMA CgTrans ==
  ASSUME NEW a \in Int, NEW b \in Int, NEW c \in Int, Cg(a, b), Cg(b, c)
  PROVE  Cg(a, c)
<1>1. PICK q \in Int : a = b + q * Order
  BY DEF Cg
<1>2. PICK r \in Int : b = c + r * Order
  BY DEF Cg
<1>3. a = c + (q + r) * Order
  BY <1>1, <1>2, OrderIsPrime
<1> QED BY <1>3 DEF Cg

\* Congruence is kept by sums ...
LEMMA CgAdd ==
  ASSUME NEW a \in Int, NEW b \in Int, NEW c \in Int, NEW d \in Int, Cg(a, b), Cg(c, d)
  PROVE  Cg(a + c, b + d)
<1>1. PICK q \in Int : a = b + q * Order
  BY DEF Cg
<1>2. PICK r \in Int : c = d + r * Order
  BY DEF Cg
<1>3. a + c = (b + d) + (q + r) * Order
  BY <1>1, <1>2, OrderIsPrime
<1> QED BY <1>3 DEF Cg

\* ... and by products.
LEMMA CgMul ==
  ASSUME NEW a \in Int, NEW b \in Int, NEW c \in Int, NEW d \in Int, Cg(a, b), Cg(c, d)
  PROVE  Cg(a * c, b * d)
<1>1. PICK q \in Int : a = b + q * Order
  BY DEF Cg
<1>2. PICK r \in Int : c = d + r * Order
  BY DEF Cg
<1>3. a * c = b * d + (b * r + q * d + q * r * Order) * Order
  BY <1>1, <1>2, OrderIsPrime
<1>4. b * r + q * d + q * r * Order \in Int
  BY OrderIsPrime
<1> QED BY <1>3, <1>4 DEF Cg

\* Congruent numbers are one number in the field.
LEMMA CgEqual ==
  ASSUME NEW a \in Int, NEW b \in Int
  PROVE  Cg(a, b) <=> a % Order = b % Order
<1>1. ASSUME Cg(a, b) PROVE a % Order = b % Order
  <2>1. Cg(a % Order, b)
    BY <1>1, CgMod, CgTrans
  <2>2. Cg(b, b % Order)
    BY CgMod, CgSym
  <2> QED BY <2>1, <2>2, CgMod, CgTrans, CgUnique
<1>2. ASSUME a % Order = b % Order PROVE Cg(a, b)
  <2>1. Cg(a, a % Order) /\ Cg(b % Order, b)
    BY CgMod, CgSym
  <2> QED BY <1>2, <2>1, CgMod, CgTrans
<1> QED BY <1>1, <1>2

\* ModInverse finds the inverse of a number that is not zero in the field.
LEMMA InverseOf ==
  ASSUME NEW a \in Int, ~Cg(a, 0)
  PROVE  /\ ModInverse(a) \in 1 .. Order - 1
         /\ Cg(a * ModInverse(a), 1)
<1>1. \E b \in Fp : (a * b) % Order = 1
  <2>1. a % Order \in 1 .. Order - 1
    <3>1. a % Order # 0
      BY CgMod, CgSym
    <3> QED BY <3>1, CgMod, OrderIsPrime DEF Fp
  <2>2. PICK b \in 1 .. Order - 1 : ((a % Order) * b) % Order = 1
    BY <2>1, OrderIsPrime
  <2>3. Cg((a % Order) * b, a * b)
    <3>1. b \in Int /\ a % Order \in Int /\ Cg(a % Order, a) /\ Cg(b, b)
      BY CgMod, CgRefl, OrderIsPrime
    <3> QED BY <3>1, CgMul
  <2>4. ((a % Order) * b) % Order = (a * b) % Order
    BY <2>3, CgEqual, CgMod, OrderIsPrime
  <2> QED BY <2>2, <2>4, OrderIsPrime DEF Fp
<1>2. ModInverse(a) \in Fp /\ (a * ModInverse(a)) % Order = 1
  BY <1>1 DEF ModInverse
<1> DEFINE b == ModInverse(a)
<1> HIDE DEF b
<1>3. b \in Int /\ a * b \in Int
  BY <1>2, OrderIsPrime DEF Fp, b
<1>4. Cg(a * b, 1)
  <2>1. Cg((a * b) % Order, a * b)
    BY <1>3, CgMod
  <2> QED BY <1>2, <1>3, <2>1, CgSym DEF b
<1>5. b # 0
  <2>1. SUFFICES ASSUME b = 0 PROVE FALSE
    OBVIOUS
  <2>2. a * b = 0 /\ 0 % Order = 0
    BY <2>1, OrderIsPrime
  <2> QED BY <2>2, <1>2 DEF b
<1> QED BY <1>2, <1>4, <1>5, OrderIsPrime DEF b, Fp

\* Challenges are not zero in the field.
LEMMA NonZero ==
  ASSUME NEW a \in 1 .. Order - 1
  PROVE  a \in Int /\ ~Cg(a, 0)
<1>1. Order \in Int
  BY OrderIsPrime
<1>2. a \in Fp /\ 0 \in Fp /\ a # 0 /\ a \in Int
  BY <1>1, OrderIsPrime DEF Fp
<1> QED BY <1>2, CgUnique

\* The field has no divisors of zero.
LEMMA NoZeroDivisor ==
  ASSUME NEW a \in Int, NEW b \in Int, ~Cg(a, 0), Cg(a * b, 0)
  PROVE  Cg(b, 0)
<1> DEFINE i == ModInverse(a)
<1>1. i \in Int /\ Cg(a * i, 1)
  BY InverseOf, OrderIsPrime
<1> HIDE DEF i
<1>2. PICK q \in Int : a * i = 1 + q * Order
  BY <1>1 DEF Cg
<1>3. PICK r \in Int : a * b = 0 + r * Order
  BY DEF Cg
<1>4. b = (a * i) * b - q * Order * b
  BY <1>2, OrderIsPrime
<1>5. (a * i) * b = i * (a * b)
  BY <1>1
<1>6. b = 0 + (i * r - q * b) * Order
  BY <1>1, <1>3, <1>4, <1>5, OrderIsPrime
<1>7. i * r - q * b \in Int
  BY <1>1
<1> QED BY <1>6, <1>7 DEF Cg

-----------------------------------------------------------------------------
(* Recursive functions on 0 .. n                                           *)

\* p begins with e and goes on by step.
Recursive(p, n, e, step) ==
    p[0] = e /\ \A i \in 1 .. n : p[i] = step[i][p[i - 1]]

\* A first value and a step define a function on 0 .. n, ...
LEMMA RecursionExists ==
  ASSUME NEW n \in Nat, NEW S, NEW e \in S, NEW step \in [1 .. n -> [S -> S]]
  PROVE  \E p \in [0 .. n -> S] : Recursive(p, n, e, step)
<1> DEFINE T == {k \in Nat : k <= n => \E p \in [0 .. k -> S] : Recursive(p, k, e, step)}
<1>1. 0 \in T
  <2>1. [i \in 0 .. 0 |-> e] \in [0 .. 0 -> S]
    OBVIOUS
  <2>2. Recursive([i \in 0 .. 0 |-> e], 0, e, step)
    BY DEF Recursive
  <2> QED BY <2>1, <2>2
<1>2. ASSUME NEW k \in T PROVE k + 1 \in T
  <2> SUFFICES ASSUME k + 1 <= n
               PROVE  \E p \in [0 .. k + 1 -> S] : Recursive(p, k + 1, e, step)
    OBVIOUS
  <2>1. PICK p \in [0 .. k -> S] : Recursive(p, k, e, step)
    OBVIOUS
  <2> DEFINE q == [i \in 0 .. k + 1 |-> IF i <= k THEN p[i] ELSE step[k + 1][p[k]]]
  <2>2. q \in [0 .. k + 1 -> S]
    OBVIOUS
  <2>3. q[0] = e /\ \A i \in 1 .. k + 1 : q[i] = step[i][q[i - 1]]
    <3>1. q[0] = e
      BY <2>1 DEF Recursive
    <3>2. ASSUME NEW i \in 1 .. k + 1 PROVE q[i] = step[i][q[i - 1]]
      <4>1. CASE i <= k
        BY <4>1, <2>1 DEF Recursive
      <4>2. CASE i = k + 1
        BY <4>2
      <4> QED BY <4>1, <4>2
    <3> QED BY <3>1, <3>2
  <2> QED BY <2>2, <2>3 DEF Recursive
<1>3. T \subseteq Nat
  OBVIOUS
<1> HIDE DEF T
<1>4. n \in T
  BY <1>1, <1>2, <1>3, Induction
<1> QED BY <1>4 DEF T

\* ... and one only.
LEMMA RecursionUnique ==
  ASSUME NEW n \in Nat, NEW e, NEW step, NEW p, NEW q,
         Recursive(p, n, e, step), Recursive(q, n, e, step)
  PROVE  \A i \in 0 .. n : p[i] = q[i]
<1> DEFINE T == {k \in Nat : k <= n => p[k] = q[k]}
<1>1. 0 \in T
  BY DEF Recursive
<1>2. ASSUME NEW k \in T PROVE k + 1 \in T
  BY DEF Recursive
<1>3. T \subseteq Nat
  OBVIOUS
<1> HIDE DEF T
<1>4. \A k \in Nat : k \in T
  BY <1>1, <1>2, <1>3, Induction
<1> QED BY <1>4 DEF T

-----------------------------------------------------------------------------
(* Sums                                                                    *)

SumStep(f, n) == [i \in 1 .. n |-> [s \in Int |-> (s + f[i]) % Order]]

Ints(f, n) == \A i \in 1 .. n : f[i] \in Int

\* A step of a sum.
LEMMA SumStepIs ==
  ASSUME NEW f, NEW n \in Nat, NEW i \in 1 .. n, NEW s \in Int
  PROVE  SumStep(f, n)[i][s] = (s + f[i]) % Order
BY DEF SumStep

\* The sum is the end of a function that goes on by SumStep.
LEMMA SumDef ==
  ASSUME NEW f, NEW n \in Nat, Ints(f, n)
  PROVE  \E s \in [0 .. n -> Int] : Recursive(s, n, 0, SumStep(f, n)) /\ Sum(f, n) = s[n]
<1>1. SumStep(f, n) \in [1 .. n -> [Int -> Int]]
  <2>1. ASSUME NEW i \in 1 .. n, NEW s \in Int PROVE (s + f[i]) % Order \in Int
    BY CgMod DEF Ints
  <2> QED BY <2>1 DEF SumStep
<1>2. PICK p \in [0 .. n -> Int] : Recursive(p, n, 0, SumStep(f, n))
  <2> DEFINE st == SumStep(f, n)
  <2>1. st \in [1 .. n -> [Int -> Int]] /\ 0 \in Int
    BY <1>1
  <2> HIDE DEF st
  <2>2. \E p \in [0 .. n -> Int] : Recursive(p, n, 0, st)
    BY <2>1, RecursionExists
  <2> QED BY <2>2 DEF st
<1> DEFINE Is(s) == s = [i \in 0 .. n |-> IF i = 0 THEN 0 ELSE (s[i - 1] + f[i]) % Order]
           c == CHOOSE s : Is(s)
<1>3. Is(p)
  <2>1. \A i \in 1 .. n : p[i] = (p[i - 1] + f[i]) % Order
    <3>1. ASSUME NEW i \in 1 .. n PROVE p[i] = (p[i - 1] + f[i]) % Order
      <4>1. p[i - 1] \in Int /\ p[i] = SumStep(f, n)[i][p[i - 1]]
        BY <1>2 DEF Recursive
      <4> QED BY <4>1, SumStepIs
    <3> QED BY <3>1
  <2> QED BY <1>2, <2>1 DEF Recursive
<1>4. Is(c)
  <2> HIDE DEF Is
  <2> QED BY <1>3
<1>5. Sum(f, n) = c[n]
  BY DEF Sum
<1> HIDE DEF c
<1>6. \A i \in 0 .. n : c[i] = p[i]
  <2> DEFINE T == {k \in Nat : k <= n => c[k] = p[k]}
  <2>1. 0 \in T
    BY <1>3, <1>4
  <2>2. ASSUME NEW k \in T PROVE k + 1 \in T
    <3> SUFFICES ASSUME k + 1 <= n PROVE c[k + 1] = p[k + 1]
      OBVIOUS
    <3>1. c[k + 1] = (c[k] + f[k + 1]) % Order
      BY <1>4
    <3>2. p[k + 1] = (p[k] + f[k + 1]) % Order
      BY <1>3
    <3> QED BY <3>1, <3>2
  <2>3. T \subseteq Nat
    OBVIOUS
  <2> HIDE DEF T
  <2>4. \A k \in Nat : k \in T
    BY <2>1, <2>2, <2>3, Induction
  <2> QED BY <2>4 DEF T
<1> QED BY <1>2, <1>5, <1>6

\* The sum of nothing.
LEMMA SumZero == ASSUME NEW f PROVE Sum(f, 0) = 0
BY SumDef DEF Ints, Recursive

\* The sum of one element more.
LEMMA SumNext ==
  ASSUME NEW f, NEW n \in Nat, Ints(f, n + 1)
  PROVE  Sum(f, n + 1) = (Sum(f, n) + f[n + 1]) % Order
<1>1. Ints(f, n)
  BY DEF Ints
<1>2. PICK s \in [0 .. n -> Int] : Recursive(s, n, 0, SumStep(f, n)) /\ Sum(f, n) = s[n]
  BY <1>1, SumDef
<1>3. PICK t \in [0 .. n + 1 -> Int] :
          Recursive(t, n + 1, 0, SumStep(f, n + 1)) /\ Sum(f, n + 1) = t[n + 1]
  BY SumDef
<1>4. \A i \in 1 .. n + 1 : t[i] = (t[i - 1] + f[i]) % Order
  <2>1. ASSUME NEW i \in 1 .. n + 1 PROVE t[i] = (t[i - 1] + f[i]) % Order
    <3>1. t[i - 1] \in Int /\ t[i] = SumStep(f, n + 1)[i][t[i - 1]]
      BY <1>3 DEF Recursive
    <3> QED BY <3>1, SumStepIs
  <2> QED BY <2>1
<1>5. Recursive(t, n, 0, SumStep(f, n))
  <2>1. ASSUME NEW i \in 1 .. n PROVE t[i] = SumStep(f, n)[i][t[i - 1]]
    <3>1. t[i - 1] \in Int /\ t[i] = (t[i - 1] + f[i]) % Order
      BY <1>3, <1>4
    <3> QED BY <3>1, SumStepIs
  <2>2. t[0] = 0
    BY <1>3 DEF Recursive
  <2> QED BY <2>1, <2>2 DEF Recursive
<1>6. t[n] = s[n]
  BY <1>2, <1>5, RecursionUnique
<1> QED BY <1>2, <1>3, <1>4, <1>6

\* A sum of integers is in the field.
LEMMA SumType ==
  ASSUME NEW f, NEW n \in Nat, Ints(f, n)
  PROVE  Sum(f, n) \in Fp /\ Sum(f, n) \in Int
<1>1. CASE n = 0
  BY <1>1, SumZero, OrderIsPrime DEF Fp
<1>2. CASE n # 0
  <2>1. PICK s \in [0 .. n -> Int] : Recursive(s, n, 0, SumStep(f, n)) /\ Sum(f, n) = s[n]
    BY SumDef
  <2>2. s[n] = (s[n - 1] + f[n]) % Order
    <3>1. s[n - 1] \in Int /\ s[n] = SumStep(f, n)[n][s[n - 1]]
      BY <1>2, <2>1 DEF Recursive
    <3> QED BY <1>2, <3>1, SumStepIs
  <2>3. s[n - 1] + f[n] \in Int
    BY <1>2, <2>1 DEF Ints
  <2> QED BY <2>1, <2>2, <2>3, CgMod
<1> QED BY <1>1, <1>2

\* A sum of four times as many terms, a factor before each, is the sum of sums.
LEMMA SumLinear ==
  ASSUME NEW n \in Nat, NEW f, NEW f1, NEW f2, NEW f3, NEW f4,
         NEW c1 \in Int, NEW c2 \in Int, NEW c3 \in Int, NEW c4 \in Int,
         Ints(f, n), Ints(f1, n), Ints(f2, n), Ints(f3, n), Ints(f4, n),
         \A i \in 1 .. n : Cg(f[i], c1 * f1[i] + c2 * f2[i] + c3 * f3[i] + c4 * f4[i])
  PROVE  Cg(Sum(f, n), c1 * Sum(f1, n) + c2 * Sum(f2, n) + c3 * Sum(f3, n) + c4 * Sum(f4, n))
<1> DEFINE C4(k) == c1 * Sum(f1, k) + c2 * Sum(f2, k) + c3 * Sum(f3, k) + c4 * Sum(f4, k)
           T == {k \in Nat : k <= n => Cg(Sum(f, k), C4(k))}
<1>1. 0 \in T
  <2>1. Sum(f, 0) = 0 /\ C4(0) = 0
    BY SumZero
  <2> QED BY <2>1, CgRefl
<1>2. ASSUME NEW k \in T PROVE k + 1 \in T
  <2> SUFFICES ASSUME k + 1 <= n PROVE Cg(Sum(f, k + 1), C4(k + 1))
    OBVIOUS
  <2>1. ASSUME NEW o, Ints(o, n)
        PROVE  /\ Sum(o, k) \in Int /\ o[k + 1] \in Int /\ Sum(o, k + 1) \in Int
               /\ \E q \in Int : Sum(o, k + 1) = Sum(o, k) + o[k + 1] + q * Order
    <3>1. Ints(o, k) /\ Ints(o, k + 1) /\ o[k + 1] \in Int
      BY <2>1 DEF Ints
    <3>2. Sum(o, k) \in Int /\ Sum(o, k + 1) \in Int
      BY <3>1, SumType
    <3>3. Sum(o, k + 1) = (Sum(o, k) + o[k + 1]) % Order
      BY <3>1, SumNext
    <3>4. Cg(Sum(o, k + 1), Sum(o, k) + o[k + 1])
      BY <3>1, <3>2, <3>3, CgMod
    <3> QED BY <3>1, <3>2, <3>4 DEF Cg
  <2>2. PICK q \in Int : Sum(f, k + 1) = Sum(f, k) + f[k + 1] + q * Order
    BY <2>1
  <2>3. PICK q1 \in Int : Sum(f1, k + 1) = Sum(f1, k) + f1[k + 1] + q1 * Order
    BY <2>1
  <2>4. PICK q2 \in Int : Sum(f2, k + 1) = Sum(f2, k) + f2[k + 1] + q2 * Order
    BY <2>1
  <2>5. PICK q3 \in Int : Sum(f3, k + 1) = Sum(f3, k) + f3[k + 1] + q3 * Order
    BY <2>1
  <2>6. PICK q4 \in Int : Sum(f4, k + 1) = Sum(f4, k) + f4[k + 1] + q4 * Order
    BY <2>1
  <2>7. PICK r \in Int : Sum(f, k) = C4(k) + r * Order
    BY DEF Cg
  <2>8. PICK t \in Int : f[k + 1] = c1 * f1[k + 1] + c2 * f2[k + 1] + c3 * f3[k + 1]
                                      + c4 * f4[k + 1] + t * Order
    BY DEF Cg
  <2>9. Sum(f, k + 1) = C4(k + 1)
            + (r + t + q - c1 * q1 - c2 * q2 - c3 * q3 - c4 * q4) * Order
    <3>1. /\ Sum(f1, k) \in Int /\ f1[k + 1] \in Int /\ Sum(f2, k) \in Int /\ f2[k + 1] \in Int
          /\ Sum(f3, k) \in Int /\ f3[k + 1] \in Int /\ Sum(f4, k) \in Int /\ f4[k + 1] \in Int
          /\ Order \in Int
      BY <2>1, OrderIsPrime
    <3> HIDE DEF T
    <3> QED BY <2>2, <2>3, <2>4, <2>5, <2>6, <2>7, <2>8, <3>1
  <2>10. r + t + q - c1 * q1 - c2 * q2 - c3 * q3 - c4 * q4 \in Int
    OBVIOUS
  <2> QED BY <2>9, <2>10 DEF Cg
<1>3. T \subseteq Nat
  OBVIOUS
<1> HIDE DEF T
<1>4. n \in T
  BY <1>1, <1>2, <1>3, Induction
<1> QED BY <1>4 DEF T

\* Terms that are congruent have one sum.
LEMMA SumCongruent ==
  ASSUME NEW n \in Nat, NEW f, NEW f1, Ints(f, n), Ints(f1, n),
         \A i \in 1 .. n : Cg(f[i], f1[i])
  PROVE  Sum(f, n) = Sum(f1, n)
<1>1. \A i \in 1 .. n : Cg(f[i], 1 * f1[i] + 0 * f1[i] + 0 * f1[i] + 0 * f1[i])
  BY DEF Ints
<1>2. Cg(Sum(f, n), 1 * Sum(f1, n) + 0 * Sum(f1, n) + 0 * Sum(f1, n) + 0 * Sum(f1, n))
  <2>1. 0 \in Int /\ 1 \in Int
    OBVIOUS
  <2> QED BY <1>1, <2>1, SumLinear
<1>3. Sum(f, n) \in Fp /\ Sum(f1, n) \in Fp /\ Sum(f1, n) \in Int
  BY SumType
<1>4. Cg(Sum(f, n), Sum(f1, n))
  BY <1>2, <1>3
<1> QED BY <1>3, <1>4, CgUnique

\* A sum is that of its first k terms and the rest.
LEMMA SumSplit ==
  ASSUME NEW k \in Nat, NEW n \in Nat, NEW f, NEW r, Ints(f, k + n),
         \A i \in 1 .. n : r[i] = f[k + i]
  PROVE  Cg(Sum(f, k + n), Sum(f, k) + Sum(r, n))
<1> DEFINE T == {l \in Nat : l <= n => Cg(Sum(f, k + l), Sum(f, k) + Sum(r, l))}
<1>0. Sum(f, k) \in Int
  <2>1. Ints(f, k)
    BY DEF Ints
  <2> QED BY <2>1, SumType
<1>1. 0 \in T
  <2>1. Sum(r, 0) = 0
    BY SumZero
  <2> QED BY <1>0, <2>1, CgRefl
<1>2. ASSUME NEW l \in T PROVE l + 1 \in T
  <2> SUFFICES ASSUME l + 1 <= n PROVE Cg(Sum(f, k + (l + 1)), Sum(f, k) + Sum(r, l + 1))
    OBVIOUS
  <2> DEFINE a == Sum(f, k + l)
             b == Sum(r, l)
             e == r[l + 1]
  <2>1. /\ Ints(f, k + l) /\ Ints(f, (k + l) + 1) /\ Ints(r, l) /\ Ints(r, l + 1)
        /\ e \in Int /\ f[(k + l) + 1] = e
    BY DEF Ints
  <2>2. a \in Int /\ b \in Int
    BY <2>1, SumType
  <2>3. Sum(f, (k + l) + 1) = (a + e) % Order
    BY <2>1, SumNext
  <2>4. Sum(r, l + 1) = (b + e) % Order
    BY <2>1, SumNext
  <2>5. Cg(a, Sum(f, k) + b)
    OBVIOUS
  <2> HIDE DEF a, b, e
  <2>6. Cg((a + e) % Order, a + e) /\ Cg((b + e) % Order, b + e)
    BY <2>1, <2>2, CgMod
  <2>7. PICK q \in Int : a = Sum(f, k) + b + q * Order
    BY <2>5 DEF Cg
  <2>8. PICK q1 \in Int : Sum(f, (k + l) + 1) = a + e + q1 * Order
    BY <2>3, <2>6 DEF Cg
  <2>9. PICK q2 \in Int : Sum(r, l + 1) = b + e + q2 * Order
    BY <2>4, <2>6 DEF Cg
  <2>10. Sum(f, (k + l) + 1) = Sum(f, k) + Sum(r, l + 1) + (q + q1 - q2) * Order
    BY <1>0, <2>1, <2>2, <2>7, <2>8, <2>9, OrderIsPrime
  <2>11. k + (l + 1) = (k + l) + 1
    OBVIOUS
  <2> QED BY <2>10, <2>11 DEF Cg
<1>3. T \subseteq Nat
  OBVIOUS
<1> HIDE DEF T
<1>4. n \in T
  BY <1>1, <1>2, <1>3, Induction
<1> QED BY <1>4 DEF T

\* A sum of zeros but for one term is that term.
LEMMA SumUnit ==
  ASSUME NEW n \in Nat, NEW f, Ints(f, n), NEW j \in 1 .. n,
         \A i \in 1 .. n : i # j => Cg(f[i], 0)
  PROVE  Cg(Sum(f, n), f[j])
<1> DEFINE T == {l \in Nat : l <= n => /\ l < j => Cg(Sum(f, l), 0)
                                       /\ l >= j => Cg(Sum(f, l), f[j])}
<1>1. 0 \in T
  BY SumZero, CgRefl
<1>2. ASSUME NEW l \in T PROVE l + 1 \in T
  <2> SUFFICES ASSUME l + 1 <= n
               PROVE  /\ l + 1 < j => Cg(Sum(f, l + 1), 0)
                      /\ l + 1 >= j => Cg(Sum(f, l + 1), f[j])
    OBVIOUS
  <2>1. Ints(f, l) /\ Ints(f, l + 1) /\ f[l + 1] \in Int /\ f[j] \in Int
    BY DEF Ints
  <2>2. Sum(f, l) \in Int /\ Sum(f, l + 1) \in Int
    BY <2>1, SumType
  <2>3. Cg(Sum(f, l + 1), Sum(f, l) + f[l + 1])
    BY <2>1, <2>2, SumNext, CgMod
  <2>4. ASSUME NEW a \in Int, NEW b \in Int, Cg(Sum(f, l), a), Cg(f[l + 1], b)
        PROVE  Cg(Sum(f, l + 1), a + b)
    <3>1. Cg(Sum(f, l) + f[l + 1], a + b)
      BY <2>1, <2>2, <2>4, CgAdd
    <3> QED BY <2>1, <2>2, <2>3, <3>1, CgTrans
  <2>5. CASE l + 1 < j
    <3>1. Cg(Sum(f, l), 0) /\ Cg(f[l + 1], 0)
      BY <2>5
    <3> QED BY <2>4, <2>5, <3>1
  <2>6. CASE l + 1 = j
    <3>1. Cg(Sum(f, l), 0) /\ Cg(f[l + 1], f[j]) /\ 0 + f[j] = f[j]
      BY <2>1, <2>6, CgRefl
    <3>2. Cg(Sum(f, l + 1), 0 + f[j])
      BY <2>1, <2>4, <3>1
    <3> QED BY <2>6, <3>1, <3>2
  <2>7. CASE l + 1 > j
    <3>1. Cg(Sum(f, l), f[j]) /\ Cg(f[l + 1], 0) /\ f[j] + 0 = f[j]
      BY <2>1, <2>7
    <3>2. Cg(Sum(f, l + 1), f[j] + 0)
      BY <2>1, <2>4, <3>1
    <3> QED BY <2>7, <3>1, <3>2
  <2> QED BY <2>5, <2>6, <2>7
<1>3. T \subseteq Nat
  OBVIOUS
<1> HIDE DEF T
<1>4. n \in T
  BY <1>1, <1>2, <1>3, Induction
<1> QED BY <1>4 DEF T

-----------------------------------------------------------------------------
(* Vectors and points                                                      *)

\* Two vectors p and q are folded into p1 and q1 by s and its inverse t; f,
\* fL, fR and f1 are the products of the elements, of the left half of p and
\* the right one of q, of the other two, and of the folded vectors.
Folding(n, p, q, p1, q1, s, t, f, fL, fR, f1) ==
    /\ Ints(p, n + n) /\ Ints(q, n + n) /\ Ints(p1, n) /\ Ints(q1, n)
    /\ \A i \in 1 .. n : Cg(p1[i], p[i] * s + p[n + i] * t)
    /\ \A i \in 1 .. n : Cg(q1[i], q[i] * t + q[n + i] * s)
    /\ \A i \in 1 .. n + n : f[i] = p[i] * q[i]
    /\ \A i \in 1 .. n : fL[i] = p[i] * q[n + i]
    /\ \A i \in 1 .. n : fR[i] = p[n + i] * q[i]
    /\ \A i \in 1 .. n : f1[i] = p1[i] * q1[i]

\* One round of folding: the inner product of the halves, added with the
\* challenge and its inverse, is the inner product of the whole and what the
\* halves have across.
LEMMA FoldSum ==
  ASSUME NEW n \in Nat, NEW p, NEW q, NEW p1, NEW q1, NEW f, NEW fL, NEW fR, NEW f1,
         NEW s \in Int, NEW t \in Int, Cg(s * t, 1), Folding(n, p, q, p1, q1, s, t, f, fL, fR, f1)
  PROVE  Cg(Sum(f1, n), Sum(f, n + n) + s * s * Sum(fL, n) + t * t * Sum(fR, n))
<1>0. /\ Ints(p, n + n) /\ Ints(q, n + n) /\ Ints(p1, n) /\ Ints(q1, n)
      /\ \A i \in 1 .. n : Cg(p1[i], p[i] * s + p[n + i] * t)
      /\ \A i \in 1 .. n : Cg(q1[i], q[i] * t + q[n + i] * s)
      /\ \A i \in 1 .. n + n : f[i] = p[i] * q[i]
      /\ \A i \in 1 .. n : fL[i] = p[i] * q[n + i]
      /\ \A i \in 1 .. n : fR[i] = p[n + i] * q[i]
      /\ \A i \in 1 .. n : f1[i] = p1[i] * q1[i]
  BY DEF Folding
<1> DEFINE r == [i \in 1 .. n |-> f[n + i]]
<1>1. /\ Ints(f, n + n) /\ Ints(f, n) /\ Ints(r, n)
      /\ Ints(fL, n) /\ Ints(fR, n) /\ Ints(f1, n)
  BY <1>0 DEF Ints
<1>2. \A i \in 1 .. n : Cg(f1[i], 1 * f[i] + 1 * r[i] + (s * s) * fL[i] + (t * t) * fR[i])
  <2> TAKE i \in 1 .. n
  <2> DEFINE a == p[i]
             b == p[n + i]
             c == q[i]
             d == q[n + i]
  <2>1. a \in Int /\ b \in Int /\ c \in Int /\ d \in Int
    BY <1>0 DEF Ints
  <2>2. /\ f1[i] = p1[i] * q1[i] /\ f[i] = a * c /\ r[i] = b * d
        /\ fL[i] = a * d /\ fR[i] = b * c
    BY <1>0
  <2>3. PICK k1 \in Int : p1[i] = a * s + b * t + k1 * Order
    BY <1>0 DEF Cg
  <2>4. PICK k2 \in Int : q1[i] = c * t + d * s + k2 * Order
    BY <1>0 DEF Cg
  <2>5. PICK k3 \in Int : s * t = 1 + k3 * Order
    BY DEF Cg
  <2> HIDE DEF a, b, c, d, r
  <2> DEFINE u1 == (a * c) * k3
             u2 == (b * d) * k3
             u3 == (a * s + b * t) * k2 + (c * t + d * s) * k1 + k1 * k2 * Order
             k == u1 + u2 + u3
  <2>6. Order \in Int
    BY OrderIsPrime
  <2>7. p1[i] * q1[i] = (a * c) * (s * t) + (b * d) * (s * t) + (s * s) * (a * d)
                            + (t * t) * (b * c) + u3 * Order
    BY <2>1, <2>3, <2>4, <2>6
  <2>8. p1[i] * q1[i] = a * c + b * d + (s * s) * (a * d) + (t * t) * (b * c) + k * Order
    <3>1. (a * c) * (s * t) = a * c + u1 * Order
      BY <2>1, <2>5, <2>6
    <3>2. (b * d) * (s * t) = b * d + u2 * Order
      BY <2>1, <2>5, <2>6
    <3>3. u1 \in Int /\ u2 \in Int /\ u3 \in Int
      BY <2>1, <2>6
    <3> DEFINE w1 == a * c
               w2 == b * d
               w3 == (s * s) * (a * d)
               w4 == (t * t) * (b * c)
    <3>4. w1 \in Int /\ w2 \in Int /\ w3 \in Int /\ w4 \in Int
      BY <2>1
    <3>5. p1[i] * q1[i] = (w1 + u1 * Order) + (w2 + u2 * Order) + w3 + w4 + u3 * Order
      BY <2>7, <3>1, <3>2
    <3> HIDE DEF u1, u2, u3, w1, w2, w3, w4
    <3>6. p1[i] * q1[i] = w1 + w2 + w3 + w4 + (u1 + u2 + u3) * Order
      BY <2>6, <3>3, <3>4, <3>5
    <3> QED BY <3>6 DEF w1, w2, w3, w4
  <2>9. k \in Int
    BY <2>1, <2>6
  <2>10. f1[i] = (1 * f[i] + 1 * r[i] + (s * s) * fL[i] + (t * t) * fR[i]) + k * Order
    <3>1. 1 * f[i] = a * c /\ 1 * r[i] = b * d
      BY <2>1, <2>2
    <3> QED BY <2>2, <2>8, <3>1
  <2> HIDE DEF k
  <2> QED BY <2>9, <2>10 DEF Cg
<1> HIDE DEF r
<1>3. s * s \in Int /\ t * t \in Int /\ 1 \in Int
  OBVIOUS
<1>4. Cg(Sum(f1, n), 1 * Sum(f, n) + 1 * Sum(r, n) + (s * s) * Sum(fL, n) + (t * t) * Sum(fR, n))
  BY <1>1, <1>2, <1>3, SumLinear
<1>5. Cg(Sum(f, n + n), Sum(f, n) + Sum(r, n))
  <2>1. \A i \in 1 .. n : r[i] = f[n + i]
    BY DEF r
  <2> QED BY <1>1, <2>1, SumSplit
<1> DEFINE A == Sum(f1, n)
           B == Sum(f, n)
           D == Sum(r, n)
           E == Sum(f, n + n)
           l == (s * s) * Sum(fL, n)
           m == (t * t) * Sum(fR, n)
<1>6. A \in Int /\ B \in Int /\ D \in Int /\ E \in Int /\ l \in Int /\ m \in Int
  BY <1>1, <1>3, SumType
<1>7. PICK k1 \in Int : A = 1 * B + 1 * D + l + m + k1 * Order
  BY <1>4 DEF Cg
<1>8. PICK k2 \in Int : E = B + D + k2 * Order
  BY <1>5 DEF Cg
<1> HIDE DEF A, B, D, E, l, m
<1>9. A = E + l + m + (k1 - k2) * Order
  BY <1>6, <1>7, <1>8, OrderIsPrime
<1> QED BY <1>9 DEF Cg, A, E, l, m

Vectors(n, S) == [1 .. n -> S]

\* A vector is a sequence of its length.
LEMMA VectorLen ==
  ASSUME NEW n \in Nat, NEW S, NEW a \in Vectors(n, S)
  PROVE  a \in Seq(S) /\ Len(a) = n /\ DOMAIN a = 1 .. n
BY DEF Vectors

\* Vectors are added element by element, ...
LEMMA VectorAddIs ==
  ASSUME NEW n \in Nat, NEW a \in Vectors(n, Int), NEW b \in Vectors(n, Int)
  PROVE  /\ VectorAdd(a, b) \in Vectors(n, Int)
         /\ \A i \in 1 .. n : Cg(VectorAdd(a, b)[i], a[i] + b[i])
<1>1. Len(a) = n
  BY VectorLen
<1>2. \A i \in 1 .. n : /\ (a[i] + b[i]) % Order \in Int
                        /\ Cg((a[i] + b[i]) % Order, a[i] + b[i])
  BY CgMod DEF Vectors
<1> QED BY <1>1, <1>2 DEF Vectors, VectorAdd

\* ... and scaled so.
LEMMA VectorScalarMulIs ==
  ASSUME NEW n \in Nat, NEW a \in Vectors(n, Int), NEW s \in Int
  PROVE  /\ VectorScalarMul(a, s) \in Vectors(n, Int)
         /\ \A i \in 1 .. n : Cg(VectorScalarMul(a, s)[i], a[i] * s)
<1>1. Len(a) = n
  BY VectorLen
<1>2. \A i \in 1 .. n : /\ (a[i] * s) % Order \in Int
                        /\ Cg((a[i] * s) % Order, a[i] * s)
  BY CgMod DEF Vectors
<1> QED BY <1>1, <1>2 DEF Vectors, VectorScalarMul

\* The terms of an inner product.
Terms(a, b, n) == [i \in 1 .. n |-> a[i] * b[i]]

\* The terms of an inner product.
LEMMA TermsAreInts ==
  ASSUME NEW n \in Nat, NEW a \in Vectors(n, Int), NEW b \in Vectors(n, Int)
  PROVE  Ints(Terms(a, b, n), n) /\ \A i \in 1 .. n : Terms(a, b, n)[i] = a[i] * b[i]
BY DEF Ints, Terms, Vectors

\* The inner product is the sum of its terms.
LEMMA InnerProductIs ==
  ASSUME NEW n \in Nat, NEW a \in Vectors(n, Int), NEW b \in Vectors(n, Int)
  PROVE  /\ VectorInnerProduct(a, b) = Sum(Terms(a, b, n), n)
         /\ VectorInnerProduct(a, b) \in Fp /\ VectorInnerProduct(a, b) \in Int
<1>1. Len(a) = n
  BY VectorLen
<1>2. VectorInnerProduct(a, b) = Sum(Terms(a, b, n), n)
  BY <1>1 DEF VectorInnerProduct, Terms
<1> QED BY <1>2, TermsAreInts, SumType

\* Left and Right are the halves of a vector.
LEMMA HalvesAre ==
  ASSUME NEW n \in Nat, NEW S, NEW a \in Vectors(n + n, S)
  PROVE  /\ Left(a) \in Vectors(n, S) /\ Right(a) \in Vectors(n, S)
         /\ \A i \in 1 .. n : Left(a)[i] = a[i] /\ Right(a)[i] = a[n + i]
<1>1. Len(a) = n + n /\ (n + n) \div 2 = n
  BY VectorLen
<1>2. \A i \in 1 .. n : a[i] \in S /\ a[n + i] \in S
  BY DEF Vectors
<1>3. \A i \in n + 1 .. n + n : a[i] \in S
  BY DEF Vectors
<1>4. /\ SubSeq(a, 1, n) \in Seq(S)
      /\ Len(SubSeq(a, 1, n)) = IF 1 <= n THEN n - 1 + 1 ELSE 0
      /\ \A i \in 1 .. n - 1 + 1 : SubSeq(a, 1, n)[i] = a[1 + i - 1]
  BY <1>2, SubSeqProperties
<1>5. /\ SubSeq(a, n + 1, n + n) \in Seq(S)
      /\ Len(SubSeq(a, n + 1, n + n)) = IF n + 1 <= n + n THEN n + n - (n + 1) + 1 ELSE 0
      /\ \A i \in 1 .. n + n - (n + 1) + 1 : SubSeq(a, n + 1, n + n)[i] = a[n + 1 + i - 1]
  BY <1>3, SubSeqProperties
<1>6. Len(SubSeq(a, 1, n)) = n /\ \A i \in 1 .. n : SubSeq(a, 1, n)[i] = a[i]
  BY <1>4
<1>7. Len(SubSeq(a, n + 1, n + n)) = n /\ \A i \in 1 .. n : SubSeq(a, n + 1, n + n)[i] = a[n + i]
  BY <1>5
<1>8. ASSUME NEW s \in Seq(S), Len(s) = n PROVE s \in Vectors(n, S)
  BY <1>8 DEF Vectors
<1>9. Left(a) = SubSeq(a, 1, n) /\ Right(a) = SubSeq(a, n + 1, n + n)
  BY <1>1 DEF Left, Right
<1>10. Left(a) \in Vectors(n, S) /\ Right(a) \in Vectors(n, S)
  BY <1>4, <1>5, <1>6, <1>7, <1>8, <1>9
<1> QED BY <1>6, <1>7, <1>9, <1>10

Points == [Generators -> Fp]

\* The coefficients of a point are in the field.
LEMMA PointInt == ASSUME NEW p \in Points, NEW k \in Generators PROVE p[k] \in Int /\ p[k] \in Fp
BY OrderIsPrime DEF Points, Fp

\* Points of congruent coefficients are equal.
LEMMA PointsEqual ==
  ASSUME NEW p \in Points, NEW q \in Points, \A k \in Generators : Cg(p[k], q[k])
  PROVE  p = q
<1>1. \A k \in Generators : p[k] = q[k]
  BY PointInt, CgUnique
<1> QED BY <1>1 DEF Points

\* Points are added generator by generator, ...
LEMMA AddIs ==
  ASSUME NEW p \in Points, NEW q \in Points
  PROVE  /\ Add(p, q) \in Points
         /\ \A k \in Generators : Cg(Add(p, q)[k], p[k] + q[k])
<1>1. \A k \in Generators : /\ (p[k] + q[k]) % Order \in Fp
                            /\ Cg((p[k] + q[k]) % Order, p[k] + q[k])
  BY CgMod, PointInt
<1> QED BY <1>1 DEF Points, Add

\* ... and scaled so.
LEMMA ScalarMultIs ==
  ASSUME NEW p \in Points, NEW s \in Int
  PROVE  /\ ScalarMult(p, s) \in Points
         /\ \A k \in Generators : Cg(ScalarMult(p, s)[k], p[k] * s)
<1>1. \A k \in Generators : /\ (p[k] * s) % Order \in Fp
                            /\ Cg((p[k] * s) % Order, p[k] * s)
  BY CgMod, PointInt
<1> QED BY <1>1 DEF Points, ScalarMult

\* The coefficients at k of a vector of points.
At(p, k, n) == [i \in 1 .. n |-> p[i][k]]

\* One generator of a vector of points.
LEMMA AtIs ==
  ASSUME NEW n \in Nat, NEW p \in Vectors(n, Points), NEW k \in Generators
  PROVE  At(p, k, n) \in Vectors(n, Int) /\ \A i \in 1 .. n : At(p, k, n)[i] = p[i][k]
<1>1. \A i \in 1 .. n : p[i] \in Points
  BY DEF Vectors
<1>2. \A i \in 1 .. n : p[i][k] \in Int
  BY <1>1, PointInt
<1> QED BY <1>2 DEF At, Vectors

\* The multi-exponentiation is an inner product at each generator.
LEMMA MulSumIs ==
  ASSUME NEW n \in Nat, NEW a \in Vectors(n, Int), NEW p \in Vectors(n, Points)
  PROVE  /\ VectorScalarMulSum(a, p) \in Points
         /\ \A k \in Generators :
               /\ VectorScalarMulSum(a, p)[k] = Sum(Terms(a, At(p, k, n), n), n)
               /\ Sum(Terms(a, At(p, k, n), n), n) \in Int
<1>1. Len(a) = n
  BY VectorLen
<1>2. ASSUME NEW k \in Generators
      PROVE  /\ [i \in 1 .. n |-> a[i] * p[i][k]] = Terms(a, At(p, k, n), n)
             /\ Sum(Terms(a, At(p, k, n), n), n) \in Fp
             /\ Sum(Terms(a, At(p, k, n), n), n) \in Int
  <2>1. Ints(Terms(a, At(p, k, n), n), n)
    BY AtIs, TermsAreInts
  <2> QED BY <2>1, SumType DEF Terms, At
<1>3. VectorScalarMulSum(a, p)
        = [k \in Generators |-> Sum([i \in 1 .. n |-> a[i] * p[i][k]], n)]
  BY <1>1 DEF VectorScalarMulSum
<1> QED BY <1>2, <1>3 DEF Points

\* Vectors of points are scaled ...
LEMMA VectorScalarExpIs ==
  ASSUME NEW n \in Nat, NEW p \in Vectors(n, Points), NEW s \in Int
  PROVE  /\ VectorScalarExp(p, s) \in Vectors(n, Points)
         /\ \A i \in 1 .. n, k \in Generators : Cg(VectorScalarExp(p, s)[i][k], p[i][k] * s)
<1>1. Len(p) = n
  BY VectorLen
<1>2. \A i \in 1 .. n : p[i] \in Points
  BY DEF Vectors
<1>3. \A i \in 1 .. n : /\ ScalarMult(p[i], s) \in Points
                        /\ \A k \in Generators : Cg(ScalarMult(p[i], s)[k], p[i][k] * s)
  BY <1>2, ScalarMultIs
<1> QED BY <1>1, <1>3 DEF VectorScalarExp, Vectors

\* ... and added element by element.
LEMMA VectorEcAddIs ==
  ASSUME NEW n \in Nat, NEW p \in Vectors(n, Points), NEW q \in Vectors(n, Points)
  PROVE  /\ VectorEcAdd(p, q) \in Vectors(n, Points)
         /\ \A i \in 1 .. n, k \in Generators : Cg(VectorEcAdd(p, q)[i][k], p[i][k] + q[i][k])
<1>1. Len(p) = n
  BY VectorLen
<1>2. \A i \in 1 .. n : p[i] \in Points /\ q[i] \in Points
  BY DEF Vectors
<1>3. \A i \in 1 .. n : /\ Add(p[i], q[i]) \in Points
                        /\ \A k \in Generators : Cg(Add(p[i], q[i])[k], p[i][k] + q[i][k])
  BY <1>2, AddIs
<1> QED BY <1>1, <1>3 DEF VectorEcAdd, Vectors

-----------------------------------------------------------------------------
(* A round of the inner product argument                                   *)

\* Instances of the argument with vectors of n elements.
Instances(n) ==
    [a : Vectors(n, Int), b : Vectors(n, Int), g : Vectors(n, Points),
     h : Vectors(n, Points), P : Points, u : Points]

\* P is the commitment to a and b under g and h, and to their inner product
\* and e more under u.
Relation(q, n, e) ==
    \A k \in Generators :
        Cg(q.P[k], Sum(Terms(q.a, At(q.g, k, n), n), n) + Sum(Terms(q.b, At(q.h, k, n), n), n)
                      + q.u[k] * (Sum(Terms(q.a, q.b, n), n) + e))

\* What L or R of a round is at each generator.
LEMMA CrossIs ==
  ASSUME NEW n \in Nat, NEW a \in Vectors(n, Int), NEW b \in Vectors(n, Int),
         NEW p \in Vectors(n, Points), NEW r \in Vectors(n, Points), NEW w \in Points,
         NEW c \in Vectors(n, Int), NEW d \in Vectors(n, Int), NEW z,
         z = Add(Add(VectorScalarMulSum(a, p), VectorScalarMulSum(b, r)),
                 ScalarMult(w, VectorInnerProduct(c, d)))
  PROVE  /\ z \in Points
         /\ \A k \in Generators :
               Cg(z[k], Sum(Terms(a, At(p, k, n), n), n) + Sum(Terms(b, At(r, k, n), n), n)
                            + w[k] * Sum(Terms(c, d, n), n))
<1> DEFINE A == VectorScalarMulSum(a, p)
           B == VectorScalarMulSum(b, r)
           D == ScalarMult(w, VectorInnerProduct(c, d))
           E == Add(A, B)
<1>1. /\ A \in Points /\ B \in Points
      /\ \A k \in Generators : A[k] = Sum(Terms(a, At(p, k, n), n), n)
      /\ \A k \in Generators : B[k] = Sum(Terms(b, At(r, k, n), n), n)
  BY MulSumIs
<1>2. VectorInnerProduct(c, d) \in Int /\ VectorInnerProduct(c, d) = Sum(Terms(c, d, n), n)
  BY InnerProductIs
<1>3. D \in Points /\ \A k \in Generators : Cg(D[k], w[k] * Sum(Terms(c, d, n), n))
  BY <1>2, ScalarMultIs
<1> HIDE DEF A, B, D
<1>4. E \in Points /\ \A k \in Generators : Cg(E[k], A[k] + B[k])
  BY <1>1, AddIs
<1> HIDE DEF E
<1>5. Add(E, D) \in Points /\ \A k \in Generators : Cg(Add(E, D)[k], E[k] + D[k])
  BY <1>3, <1>4, AddIs
<1>6. z = Add(E, D)
  BY DEF A, B, D, E
<1>7. ASSUME NEW k \in Generators
      PROVE  Cg(z[k], Sum(Terms(a, At(p, k, n), n), n) + Sum(Terms(b, At(r, k, n), n), n)
                            + w[k] * Sum(Terms(c, d, n), n))
  <2> DEFINE t == w[k] * Sum(Terms(c, d, n), n)
  <2>1. t \in Int
    BY <1>2, PointInt
  <2>2. A[k] \in Int /\ B[k] \in Int /\ D[k] \in Int /\ E[k] \in Int /\ z[k] \in Int
    BY <1>1, <1>3, <1>4, <1>5, <1>6, PointInt
  <2>3. Cg(D[k], t)
    BY <1>3
  <2> HIDE DEF t
  <2>4. Cg(E[k] + D[k], (A[k] + B[k]) + t)
    BY <1>4, <2>1, <2>2, <2>3, CgAdd
  <2>5. Cg(z[k], E[k] + D[k])
    BY <1>5, <1>6
  <2>6. Cg(z[k], (A[k] + B[k]) + t)
    BY <2>1, <2>2, <2>4, <2>5, CgTrans
  <2> QED BY <1>1, <2>6 DEF t
<1> QED BY <1>5, <1>6, <1>7

\* What a round makes of the generators and of the point.
FoldOf(f, q, x, t, n) ==
    /\ f.u = q.u /\ CrossL(q) \in Points /\ CrossR(q) \in Points
    /\ \A j \in 1 .. n, k \in Generators : /\ Cg(f.g[j][k], q.g[j][k] * t + q.g[n + j][k] * x)
                                           /\ Cg(f.h[j][k], q.h[j][k] * x + q.h[n + j][k] * t)
    /\ \A k \in Generators :
          Cg(f.P[k], (CrossL(q)[k] * (x * x) + q.P[k]) + CrossR(q)[k] * (t * t))

\* A round keeps the relation of the instance and what its point has in excess.
LEMMA FoldedKeeps ==
  ASSUME NEW n \in Nat, NEW q \in Instances(n + n), NEW x \in 1 .. Order - 1,
         NEW e \in Int, Relation(q, n + n, e)
  PROVE  /\ Folded(q, x) \in Instances(n) /\ Relation(Folded(q, x), n, e)
         /\ FoldOf(Folded(q, x), q, x, ModInverse(x), n)
<1> DEFINE t == ModInverse(x)
<1>1. x \in Int /\ t \in Int /\ Cg(x * t, 1)
  BY NonZero, InverseOf, OrderIsPrime
<1> HIDE DEF t
<1> DEFINE aL == Left(q.a)
           aR == Right(q.a)
           bL == Left(q.b)
           bR == Right(q.b)
           gL == Left(q.g)
           gR == Right(q.g)
           hL == Left(q.h)
           hR == Right(q.h)
           L == CrossL(q)
           RR == CrossR(q)
<1>2. /\ q.a \in Vectors(n + n, Int) /\ q.b \in Vectors(n + n, Int)
      /\ q.g \in Vectors(n + n, Points) /\ q.h \in Vectors(n + n, Points)
      /\ q.P \in Points /\ q.u \in Points
  BY DEF Instances
<1>3. /\ aL \in Vectors(n, Int) /\ aR \in Vectors(n, Int)
      /\ bL \in Vectors(n, Int) /\ bR \in Vectors(n, Int)
      /\ gL \in Vectors(n, Points) /\ gR \in Vectors(n, Points)
      /\ hL \in Vectors(n, Points) /\ hR \in Vectors(n, Points)
  BY <1>2, HalvesAre
<1>4. /\ \A i \in 1 .. n : aL[i] = q.a[i] /\ aR[i] = q.a[n + i]
      /\ \A i \in 1 .. n : bL[i] = q.b[i] /\ bR[i] = q.b[n + i]
      /\ \A i \in 1 .. n : gL[i] = q.g[i] /\ gR[i] = q.g[n + i]
      /\ \A i \in 1 .. n : hL[i] = q.h[i] /\ hR[i] = q.h[n + i]
  BY <1>2, HalvesAre
<1>5. /\ L \in Points
      /\ \A k \in Generators :
            Cg(L[k], Sum(Terms(aL, At(gR, k, n), n), n) + Sum(Terms(bR, At(hL, k, n), n), n)
                        + q.u[k] * Sum(Terms(aL, bR, n), n))
  <2> HIDE DEF aL, aR, bL, bR, gL, gR, hL, hR
  <2>1. L = Add(Add(VectorScalarMulSum(aL, gR), VectorScalarMulSum(bR, hL)),
                ScalarMult(q.u, VectorInnerProduct(aL, bR)))
    BY DEF CrossL, aL, bR, gR, hL
  <2> HIDE DEF L
  <2> QED BY <1>2, <1>3, <2>1, CrossIs
<1>6. /\ RR \in Points
      /\ \A k \in Generators :
            Cg(RR[k], Sum(Terms(aR, At(gL, k, n), n), n) + Sum(Terms(bL, At(hR, k, n), n), n)
                        + q.u[k] * Sum(Terms(aR, bL, n), n))
  <2> HIDE DEF aL, aR, bL, bR, gL, gR, hL, hR
  <2>1. RR = Add(Add(VectorScalarMulSum(aR, gL), VectorScalarMulSum(bL, hR)),
                ScalarMult(q.u, VectorInnerProduct(aR, bL)))
    BY DEF CrossR, aR, bL, gL, hR
  <2> HIDE DEF RR
  <2> QED BY <1>2, <1>3, <2>1, CrossIs
<1> HIDE DEF aL, aR, bL, bR, gL, gR, hL, hR, L, RR
<1> DEFINE F == Folded(q, x)
           fa == VectorAdd(VectorScalarMul(aL, x), VectorScalarMul(aR, t))
           fb == VectorAdd(VectorScalarMul(bL, t), VectorScalarMul(bR, x))
           fg == VectorEcAdd(VectorScalarExp(gL, t), VectorScalarExp(gR, x))
           fh == VectorEcAdd(VectorScalarExp(hL, x), VectorScalarExp(hR, t))
           fP == Add(Add(ScalarMult(L, x * x), q.P), ScalarMult(RR, t * t))
<1>7. F = [a |-> fa, b |-> fb, g |-> fg, h |-> fh, P |-> fP, u |-> q.u]
  BY DEF Folded, aL, aR, bL, bR, gL, gR, hL, hR, L, RR, t
<1> HIDE DEF F
<1>8. ASSUME NEW l \in Vectors(n, Int), NEW r \in Vectors(n, Int), NEW s1 \in Int, NEW s2 \in Int
      PROVE  /\ VectorAdd(VectorScalarMul(l, s1), VectorScalarMul(r, s2)) \in Vectors(n, Int)
             /\ \A i \in 1 .. n : Cg(VectorAdd(VectorScalarMul(l, s1), VectorScalarMul(r, s2))[i],
                                     l[i] * s1 + r[i] * s2)
  <2> DEFINE ll == VectorScalarMul(l, s1)
             rr == VectorScalarMul(r, s2)
  <2>1. /\ ll \in Vectors(n, Int) /\ rr \in Vectors(n, Int)
        /\ \A i \in 1 .. n : Cg(ll[i], l[i] * s1) /\ Cg(rr[i], r[i] * s2)
    BY VectorScalarMulIs
  <2> HIDE DEF ll, rr
  <2>2. /\ VectorAdd(ll, rr) \in Vectors(n, Int)
        /\ \A i \in 1 .. n : Cg(VectorAdd(ll, rr)[i], ll[i] + rr[i])
    BY <2>1, VectorAddIs
  <2>3. ASSUME NEW i \in 1 .. n PROVE Cg(VectorAdd(ll, rr)[i], l[i] * s1 + r[i] * s2)
    <3>1. /\ ll[i] \in Int /\ rr[i] \in Int /\ l[i] * s1 \in Int /\ r[i] * s2 \in Int
          /\ VectorAdd(ll, rr)[i] \in Int
      BY <2>1, <2>2 DEF Vectors
    <3>2. Cg(ll[i] + rr[i], l[i] * s1 + r[i] * s2)
      BY <2>1, <3>1, CgAdd
    <3> QED BY <2>2, <3>1, <3>2, CgTrans
  <2> QED BY <2>2, <2>3 DEF ll, rr
<1>9. ASSUME NEW l \in Vectors(n, Points), NEW r \in Vectors(n, Points),
             NEW s1 \in Int, NEW s2 \in Int
      PROVE  /\ VectorEcAdd(VectorScalarExp(l, s1), VectorScalarExp(r, s2)) \in Vectors(n, Points)
             /\ \A i \in 1 .. n, k \in Generators :
                   Cg(VectorEcAdd(VectorScalarExp(l, s1), VectorScalarExp(r, s2))[i][k],
                      l[i][k] * s1 + r[i][k] * s2)
  <2> DEFINE ll == VectorScalarExp(l, s1)
             rr == VectorScalarExp(r, s2)
  <2>1. /\ ll \in Vectors(n, Points) /\ rr \in Vectors(n, Points)
        /\ \A i \in 1 .. n, k \in Generators : /\ Cg(ll[i][k], l[i][k] * s1)
                                               /\ Cg(rr[i][k], r[i][k] * s2)
    BY VectorScalarExpIs
  <2> HIDE DEF ll, rr
  <2>2. /\ VectorEcAdd(ll, rr) \in Vectors(n, Points)
        /\ \A i \in 1 .. n, k \in Generators : Cg(VectorEcAdd(ll, rr)[i][k], ll[i][k] + rr[i][k])
    BY <2>1, VectorEcAddIs
  <2>3. ASSUME NEW i \in 1 .. n, NEW k \in Generators
        PROVE Cg(VectorEcAdd(ll, rr)[i][k], l[i][k] * s1 + r[i][k] * s2)
    <3>0. ll[i] \in Points /\ rr[i] \in Points /\ l[i] \in Points /\ r[i] \in Points
          /\ VectorEcAdd(ll, rr)[i] \in Points
      BY <2>1, <2>2 DEF Vectors
    <3>1. /\ ll[i][k] \in Int /\ rr[i][k] \in Int /\ l[i][k] * s1 \in Int /\ r[i][k] * s2 \in Int
          /\ VectorEcAdd(ll, rr)[i][k] \in Int
      BY <3>0, PointInt
    <3>2. Cg(ll[i][k] + rr[i][k], l[i][k] * s1 + r[i][k] * s2)
      BY <2>1, <3>1, CgAdd
    <3> QED BY <2>2, <3>1, <3>2, CgTrans
  <2> QED BY <2>2, <2>3 DEF ll, rr
<1>10. fa \in Vectors(n, Int) /\ \A i \in 1 .. n : Cg(fa[i], aL[i] * x + aR[i] * t)
  BY <1>1, <1>3, <1>8
<1>11. fb \in Vectors(n, Int) /\ \A i \in 1 .. n : Cg(fb[i], bL[i] * t + bR[i] * x)
  BY <1>1, <1>3, <1>8
<1>12. fg \in Vectors(n, Points)
       /\ \A i \in 1 .. n, k \in Generators : Cg(fg[i][k], gL[i][k] * t + gR[i][k] * x)
  BY <1>1, <1>3, <1>9
<1>13. fh \in Vectors(n, Points)
       /\ \A i \in 1 .. n, k \in Generators : Cg(fh[i][k], hL[i][k] * x + hR[i][k] * t)
  BY <1>1, <1>3, <1>9
<1> HIDE DEF fa, fb, fg, fh
<1>14. /\ fP \in Points
       /\ \A k \in Generators : Cg(fP[k], (L[k] * (x * x) + q.P[k]) + RR[k] * (t * t))
  <2> DEFINE l == ScalarMult(L, x * x)
             r == ScalarMult(RR, t * t)
             m == Add(l, q.P)
  <2>1. /\ l \in Points /\ r \in Points
        /\ \A k \in Generators : Cg(l[k], L[k] * (x * x)) /\ Cg(r[k], RR[k] * (t * t))
    <3>1. x * x \in Int /\ t * t \in Int
      BY <1>1
    <3> QED BY <3>1, <1>5, <1>6, ScalarMultIs
  <2> HIDE DEF l, r
  <2>2. m \in Points /\ \A k \in Generators : Cg(m[k], l[k] + q.P[k])
    BY <1>2, <2>1, AddIs
  <2> HIDE DEF m
  <2>3. Add(m, r) \in Points /\ \A k \in Generators : Cg(Add(m, r)[k], m[k] + r[k])
    BY <2>1, <2>2, AddIs
  <2>4. ASSUME NEW k \in Generators
        PROVE  Cg(Add(m, r)[k], (L[k] * (x * x) + q.P[k]) + RR[k] * (t * t))
    <3> DEFINE v1 == L[k] * (x * x)
               v2 == RR[k] * (t * t)
    <3>1. /\ v1 \in Int /\ v2 \in Int /\ q.P[k] \in Int /\ m[k] \in Int /\ r[k] \in Int
          /\ l[k] \in Int /\ Add(m, r)[k] \in Int
      <4>1. L[k] \in Int /\ RR[k] \in Int /\ x * x \in Int /\ t * t \in Int
        BY <1>1, <1>5, <1>6, PointInt
      <4> QED BY <4>1, <1>2, <2>1, <2>2, <2>3, PointInt
    <3>2. Cg(l[k], v1) /\ Cg(r[k], v2)
      BY <2>1
    <3> HIDE DEF v1, v2
    <3>3. Cg(l[k] + q.P[k], v1 + q.P[k])
      BY <3>1, <3>2, CgRefl, CgAdd
    <3>4. Cg(m[k], v1 + q.P[k])
      BY <2>2, <3>1, <3>3, CgTrans
    <3>5. Cg(m[k] + r[k], (v1 + q.P[k]) + v2)
      BY <3>1, <3>2, <3>4, CgAdd
    <3>6. Cg(Add(m, r)[k], (v1 + q.P[k]) + v2)
      BY <2>3, <3>1, <3>5, CgTrans
    <3> QED BY <3>6 DEF v1, v2
  <2> QED BY <2>3, <2>4 DEF l, m, r
<1> HIDE DEF fP
<1>15. F \in Instances(n)
  BY <1>2, <1>7, <1>10, <1>11, <1>12, <1>13, <1>14 DEF Instances
<1>16. ASSUME NEW k \in Generators
       PROVE  Cg(fP[k], Sum(Terms(fa, At(fg, k, n), n), n) + Sum(Terms(fb, At(fh, k, n), n), n)
                            + q.u[k] * (Sum(Terms(fa, fb, n), n) + e))
  <2> DEFINE S1 == Sum(Terms(q.a, At(q.g, k, n + n), n + n), n + n)
             S2 == Sum(Terms(q.b, At(q.h, k, n + n), n + n), n + n)
             S3 == Sum(Terms(q.a, q.b, n + n), n + n)
             L1 == Sum(Terms(aL, At(gR, k, n), n), n)
             L2 == Sum(Terms(bR, At(hL, k, n), n), n)
             L3 == Sum(Terms(aL, bR, n), n)
             R1 == Sum(Terms(aR, At(gL, k, n), n), n)
             R2 == Sum(Terms(bL, At(hR, k, n), n), n)
             R3 == Sum(Terms(aR, bL, n), n)
             F1 == Sum(Terms(fa, At(fg, k, n), n), n)
             F2 == Sum(Terms(fb, At(fh, k, n), n), n)
             F3 == Sum(Terms(fa, fb, n), n)
             w == q.u[k]
  <2>1. /\ At(q.g, k, n + n) \in Vectors(n + n, Int) /\ At(q.h, k, n + n) \in Vectors(n + n, Int)
        /\ At(gL, k, n) \in Vectors(n, Int) /\ At(gR, k, n) \in Vectors(n, Int)
        /\ At(hL, k, n) \in Vectors(n, Int) /\ At(hR, k, n) \in Vectors(n, Int)
        /\ At(fg, k, n) \in Vectors(n, Int) /\ At(fh, k, n) \in Vectors(n, Int)
    BY <1>2, <1>3, <1>12, <1>13, AtIs
  <2>2. /\ \A i \in 1 .. n : At(q.g, k, n + n)[i] = At(gL, k, n)[i]
        /\ \A i \in 1 .. n : At(q.g, k, n + n)[n + i] = At(gR, k, n)[i]
        /\ \A i \in 1 .. n : At(q.h, k, n + n)[i] = At(hL, k, n)[i]
        /\ \A i \in 1 .. n : At(q.h, k, n + n)[n + i] = At(hR, k, n)[i]
    BY <1>4 DEF At
  <2>3. /\ \A i \in 1 .. n : Cg(At(fg, k, n)[i], At(gL, k, n)[i] * t + At(gR, k, n)[i] * x)
        /\ \A i \in 1 .. n : Cg(At(fh, k, n)[i], At(hL, k, n)[i] * x + At(hR, k, n)[i] * t)
    BY <1>12, <1>13 DEF At
  <2>4. ASSUME NEW c \in Vectors(n, Int), NEW d \in Vectors(n, Int)
        PROVE  Sum(Terms(c, d, n), n) \in Int /\ \A i \in 1 .. n : Terms(c, d, n)[i] = c[i] * d[i]
    BY TermsAreInts, SumType
  <2>5. ASSUME NEW c \in Vectors(n + n, Int), NEW d \in Vectors(n + n, Int)
        PROVE  /\ Sum(Terms(c, d, n + n), n + n) \in Int
               /\ \A i \in 1 .. n + n : Terms(c, d, n + n)[i] = c[i] * d[i]
    BY TermsAreInts, SumType
  <2>6. ASSUME NEW l, NEW c \in Vectors(l, Int) PROVE Ints(c, l)
    BY DEF Vectors, Ints
  <2>7. Cg(F1, S1 + x * x * L1 + t * t * R1)
    <3> DEFINE G == At(q.g, k, n + n)
               Gl == At(gL, k, n)
               Gr == At(gR, k, n)
               H == At(fg, k, n)
    <3>1. Ints(q.a, n + n) /\ Ints(G, n + n) /\ Ints(fa, n) /\ Ints(H, n)
      BY <1>2, <1>10, <2>1, <2>6
    <3>2. \A i \in 1 .. n : Cg(fa[i], q.a[i] * x + q.a[n + i] * t)
      BY <1>4, <1>10
    <3>3. \A i \in 1 .. n : Cg(H[i], G[i] * t + G[n + i] * x)
      BY <2>2, <2>3
    <3>4. \A i \in 1 .. n + n : Terms(q.a, G, n + n)[i] = q.a[i] * G[i]
      BY <1>2, <2>1, <2>5
    <3>5. \A i \in 1 .. n : Terms(aL, Gr, n)[i] = q.a[i] * G[n + i]
      BY <1>3, <1>4, <2>1, <2>2, <2>4
    <3>6. \A i \in 1 .. n : Terms(aR, Gl, n)[i] = q.a[n + i] * G[i]
      BY <1>3, <1>4, <2>1, <2>2, <2>4
    <3>7. \A i \in 1 .. n : Terms(fa, H, n)[i] = fa[i] * H[i]
      BY <1>10, <2>1, <2>4
    <3> HIDE DEF G, Gl, Gr, H
    <3>8. Folding(n, q.a, G, fa, H, x, t, Terms(q.a, G, n + n), Terms(aL, Gr, n),
                  Terms(aR, Gl, n), Terms(fa, H, n))
      BY <3>1, <3>2, <3>3, <3>4, <3>5, <3>6, <3>7 DEF Folding
    <3>9. Cg(Sum(Terms(fa, H, n), n), Sum(Terms(q.a, G, n + n), n + n)
               + x * x * Sum(Terms(aL, Gr, n), n) + t * t * Sum(Terms(aR, Gl, n), n))
      BY <1>1, <3>8, FoldSum
    <3> QED BY <3>9 DEF G, Gl, Gr, H
  <2>8. Cg(F2, S2 + x * x * L2 + t * t * R2)
    <3> DEFINE G == At(q.h, k, n + n)
               Gl == At(hL, k, n)
               Gr == At(hR, k, n)
               H == At(fh, k, n)
    <3>1. Ints(q.b, n + n) /\ Ints(G, n + n) /\ Ints(fb, n) /\ Ints(H, n)
      BY <1>2, <1>11, <2>1, <2>6
    <3>2. \A i \in 1 .. n : Cg(fb[i], q.b[i] * t + q.b[n + i] * x)
      BY <1>4, <1>11
    <3>3. \A i \in 1 .. n : Cg(H[i], G[i] * x + G[n + i] * t)
      BY <2>2, <2>3
    <3>4. \A i \in 1 .. n + n : Terms(q.b, G, n + n)[i] = G[i] * q.b[i]
      BY <1>2, <2>1, <2>5, <3>1 DEF Ints
    <3>5. \A i \in 1 .. n : Terms(bR, Gl, n)[i] = G[i] * q.b[n + i]
      BY <1>3, <1>4, <2>1, <2>2, <2>4, <3>1 DEF Ints
    <3>6. \A i \in 1 .. n : Terms(bL, Gr, n)[i] = G[n + i] * q.b[i]
      BY <1>3, <1>4, <2>1, <2>2, <2>4, <3>1 DEF Ints
    <3>7. \A i \in 1 .. n : Terms(fb, H, n)[i] = H[i] * fb[i]
      BY <1>11, <2>1, <2>4, <3>1 DEF Ints
    <3> HIDE DEF G, Gl, Gr, H
    <3>8. Folding(n, G, q.b, H, fb, x, t, Terms(q.b, G, n + n), Terms(bR, Gl, n),
                  Terms(bL, Gr, n), Terms(fb, H, n))
      BY <3>1, <3>2, <3>3, <3>4, <3>5, <3>6, <3>7 DEF Folding
    <3>9. Cg(Sum(Terms(fb, H, n), n), Sum(Terms(q.b, G, n + n), n + n)
               + x * x * Sum(Terms(bR, Gl, n), n) + t * t * Sum(Terms(bL, Gr, n), n))
      BY <1>1, <3>8, FoldSum
    <3> QED BY <3>9 DEF G, Gl, Gr, H
  <2>9. Cg(F3, S3 + x * x * L3 + t * t * R3)
    <3>1. Ints(q.a, n + n) /\ Ints(q.b, n + n) /\ Ints(fa, n) /\ Ints(fb, n)
      BY <1>2, <1>10, <1>11, <2>6
    <3>2. \A i \in 1 .. n : Cg(fa[i], q.a[i] * x + q.a[n + i] * t)
      BY <1>4, <1>10
    <3>3. \A i \in 1 .. n : Cg(fb[i], q.b[i] * t + q.b[n + i] * x)
      BY <1>4, <1>11
    <3>4. \A i \in 1 .. n + n : Terms(q.a, q.b, n + n)[i] = q.a[i] * q.b[i]
      BY <1>2, <2>5
    <3>5. \A i \in 1 .. n : Terms(aL, bR, n)[i] = q.a[i] * q.b[n + i]
      BY <1>3, <1>4, <2>4
    <3>6. \A i \in 1 .. n : Terms(aR, bL, n)[i] = q.a[n + i] * q.b[i]
      BY <1>3, <1>4, <2>4
    <3>7. \A i \in 1 .. n : Terms(fa, fb, n)[i] = fa[i] * fb[i]
      BY <1>10, <1>11, <2>4
    <3>8. Folding(n, q.a, q.b, fa, fb, x, t, Terms(q.a, q.b, n + n), Terms(aL, bR, n),
                  Terms(aR, bL, n), Terms(fa, fb, n))
      BY <3>1, <3>2, <3>3, <3>4, <3>5, <3>6, <3>7 DEF Folding
    <3>9. Cg(Sum(Terms(fa, fb, n), n), Sum(Terms(q.a, q.b, n + n), n + n)
               + x * x * Sum(Terms(aL, bR, n), n) + t * t * Sum(Terms(aR, bL, n), n))
      BY <1>1, <3>8, FoldSum
    <3> QED BY <3>9
  <2>10. /\ S1 \in Int /\ S2 \in Int /\ S3 \in Int /\ L1 \in Int /\ L2 \in Int /\ L3 \in Int
         /\ R1 \in Int /\ R2 \in Int /\ R3 \in Int /\ F1 \in Int /\ F2 \in Int /\ F3 \in Int
         /\ w \in Int /\ L[k] \in Int /\ RR[k] \in Int /\ q.P[k] \in Int /\ fP[k] \in Int
    BY <1>2, <1>3, <1>5, <1>6, <1>10, <1>11, <1>14, <2>1, <2>4, <2>5, PointInt
  <2>11. Cg(q.P[k], S1 + S2 + w * (S3 + e))
    BY DEF Relation
  <2>12. Cg(L[k], L1 + L2 + w * L3) /\ Cg(RR[k], R1 + R2 + w * R3)
    BY <1>5, <1>6
  <2>13. Cg(fP[k], (L[k] * (x * x) + q.P[k]) + RR[k] * (t * t))
    BY <1>14
  <2> HIDE DEF S1, S2, S3, L1, L2, L3, R1, R2, R3, F1, F2, F3, w
  <2>14. PICK k1 \in Int : F1 = S1 + x * x * L1 + t * t * R1 + k1 * Order
    BY <2>7 DEF Cg
  <2>15. PICK k2 \in Int : F2 = S2 + x * x * L2 + t * t * R2 + k2 * Order
    BY <2>8 DEF Cg
  <2>16. PICK k3 \in Int : F3 = S3 + x * x * L3 + t * t * R3 + k3 * Order
    BY <2>9 DEF Cg
  <2>17. PICK k4 \in Int : q.P[k] = S1 + S2 + w * (S3 + e) + k4 * Order
    BY <2>11 DEF Cg
  <2>18. PICK k5 \in Int : L[k] = L1 + L2 + w * L3 + k5 * Order
    BY <2>12 DEF Cg
  <2>19. PICK k6 \in Int : RR[k] = R1 + R2 + w * R3 + k6 * Order
    BY <2>12 DEF Cg
  <2>20. PICK k7 \in Int : fP[k] = (L[k] * (x * x) + q.P[k]) + RR[k] * (t * t) + k7 * Order
    BY <2>13 DEF Cg
  <2> DEFINE j == k5 * (x * x) + k4 + k6 * (t * t) + k7 - k1 - k2 - w * k3
  <2>21. fP[k] = F1 + F2 + w * (F3 + e) + j * Order
    BY <1>1, <2>10, <2>14, <2>15, <2>16, <2>17, <2>18, <2>19, <2>20, OrderIsPrime
  <2>22. j \in Int
    BY <1>1, <2>10
  <2> HIDE DEF j
  <2>23. Cg(fP[k], F1 + F2 + w * (F3 + e))
    BY <2>21, <2>22 DEF Cg
  <2> QED BY <2>23 DEF F1, F2, F3, w
<1>17. Relation(F, n, e)
  BY <1>7, <1>16 DEF Relation
<1>18. FoldOf(F, q, x, t, n)
  <2>1. L = CrossL(q) /\ RR = CrossR(q)
    BY DEF L, RR
  <2>2. \A j \in 1 .. n, k \in Generators : Cg(fg[j][k], q.g[j][k] * t + q.g[n + j][k] * x)
    BY <1>4, <1>12
  <2>3. \A j \in 1 .. n, k \in Generators : Cg(fh[j][k], q.h[j][k] * x + q.h[n + j][k] * t)
    BY <1>4, <1>13
  <2>4. F.u = q.u /\ F.g = fg /\ F.h = fh /\ F.P = fP
    BY <1>7
  <2>5. \A j \in 1 .. n, k \in Generators :
            /\ Cg(F.g[j][k], q.g[j][k] * t + q.g[n + j][k] * x)
            /\ Cg(F.h[j][k], q.h[j][k] * x + q.h[n + j][k] * t)
    BY <2>2, <2>3, <2>4
  <2>6. \A k \in Generators : Cg(F.P[k], (CrossL(q)[k] * (x * x) + q.P[k]) + CrossR(q)[k] * (t * t))
    BY <1>14, <2>1, <2>4
  <2> QED BY <1>5, <1>6, <2>1, <2>4, <2>5, <2>6 DEF FoldOf
<1> QED BY <1>15, <1>17, <1>18 DEF F, t

-----------------------------------------------------------------------------
(* Powers                                                                  *)

PowStep(a, n) == [i \in 1 .. n |-> [s \in Int |-> (a * s) % Order]]

\* A step of a power.
LEMMA PowStepIs ==
  ASSUME NEW a \in Int, NEW n \in Nat, NEW i \in 1 .. n, NEW s \in Int
  PROVE  PowStep(a, n)[i][s] = (a * s) % Order
BY DEF PowStep

\* A power is the end of a function that goes on by PowStep.
LEMMA PowDef ==
  ASSUME NEW a \in Int, NEW n \in Nat
  PROVE  \E p \in [0 .. n -> Int] : Recursive(p, n, 1, PowStep(a, n)) /\ Pow(a, n) = p[n]
<1> DEFINE st == PowStep(a, n)
<1>1. st \in [1 .. n -> [Int -> Int]] /\ 1 \in Int
  <2>1. ASSUME NEW s \in Int PROVE (a * s) % Order \in Int
    BY CgMod
  <2> QED BY <2>1 DEF PowStep
<1> HIDE DEF st
<1>2. PICK p \in [0 .. n -> Int] : Recursive(p, n, 1, st)
  BY <1>1, RecursionExists
<1> DEFINE Is(s) == s = [i \in 0 .. n |-> IF i = 0 THEN 1 ELSE (a * s[i - 1]) % Order]
           c == CHOOSE s : Is(s)
<1>3. Is(p)
  <2>1. ASSUME NEW i \in 1 .. n PROVE p[i] = (a * p[i - 1]) % Order
    <3>1. p[i - 1] \in Int /\ p[i] = PowStep(a, n)[i][p[i - 1]]
      BY <1>2 DEF Recursive, st
    <3> QED BY <3>1, PowStepIs
  <2> QED BY <1>2, <2>1 DEF Recursive
<1>4. Is(c)
  <2> HIDE DEF Is
  <2> QED BY <1>3
<1>5. Pow(a, n) = c[n]
  BY DEF Pow
<1> HIDE DEF c
<1>6. \A i \in 0 .. n : c[i] = p[i]
  <2> DEFINE T == {k \in Nat : k <= n => c[k] = p[k]}
  <2>1. 0 \in T
    BY <1>3, <1>4
  <2>2. ASSUME NEW k \in T PROVE k + 1 \in T
    <3> SUFFICES ASSUME k + 1 <= n PROVE c[k + 1] = p[k + 1]
      OBVIOUS
    <3>1. c[k + 1] = (a * c[k]) % Order
      BY <1>4
    <3>2. p[k + 1] = (a * p[k]) % Order
      BY <1>3
    <3> QED BY <3>1, <3>2
  <2>3. T \subseteq Nat
    OBVIOUS
  <2> HIDE DEF T
  <2>4. \A k \in Nat : k \in T
    BY <2>1, <2>2, <2>3, Induction
  <2> QED BY <2>4 DEF T
<1> QED BY <1>2, <1>5, <1>6 DEF st

\* The power of zero.
LEMMA PowZero == ASSUME NEW a \in Int PROVE Pow(a, 0) = 1
<1>1. PICK s \in [0 .. 0 -> Int] : Recursive(s, 0, 1, PowStep(a, 0)) /\ Pow(a, 0) = s[0]
  BY PowDef
<1> QED BY <1>1 DEF Recursive

\* The next power.
LEMMA PowNext ==
  ASSUME NEW a \in Int, NEW n \in Nat
  PROVE  /\ Pow(a, n) \in Int
         /\ Pow(a, n + 1) = (a * Pow(a, n)) % Order
<1>1. PICK s \in [0 .. n -> Int] : Recursive(s, n, 1, PowStep(a, n)) /\ Pow(a, n) = s[n]
  BY PowDef
<1>0. n + 1 \in Nat
  OBVIOUS
<1>2. PICK t \in [0 .. n + 1 -> Int] :
          Recursive(t, n + 1, 1, PowStep(a, n + 1)) /\ Pow(a, n + 1) = t[n + 1]
  BY <1>0, PowDef
<1>3. \A i \in 1 .. n + 1 : t[i] = (a * t[i - 1]) % Order
  <2>1. ASSUME NEW i \in 1 .. n + 1 PROVE t[i] = (a * t[i - 1]) % Order
    <3>1. t[i - 1] \in Int /\ t[i] = PowStep(a, n + 1)[i][t[i - 1]]
      BY <1>2 DEF Recursive
    <3> QED BY <1>0, <3>1, PowStepIs
  <2> QED BY <2>1
<1>4. Recursive(t, n, 1, PowStep(a, n))
  <2>1. ASSUME NEW i \in 1 .. n PROVE t[i] = PowStep(a, n)[i][t[i - 1]]
    <3>1. t[i - 1] \in Int /\ t[i] = (a * t[i - 1]) % Order
      BY <1>2, <1>3
    <3> QED BY <3>1, PowStepIs
  <2>2. t[0] = 1
    BY <1>2 DEF Recursive
  <2> QED BY <2>1, <2>2 DEF Recursive
<1>5. t[n] = s[n]
  BY <1>1, <1>4, RecursionUnique
<1> QED BY <1>1, <1>2, <1>3, <1>5

\* Powers of inverse numbers are inverse.
LEMMA PowInverse ==
  ASSUME NEW a \in Int, NEW b \in Int, Cg(a * b, 1)
  PROVE  \A n \in Nat : Cg(Pow(a, n) * Pow(b, n), 1)
<1> DEFINE T == {k \in Nat : Cg(Pow(a, k) * Pow(b, k), 1)}
<1>1. 0 \in T
  <2>1. Pow(a, 0) * Pow(b, 0) = 1
    BY PowZero
  <2> QED BY <2>1, CgRefl
<1>2. ASSUME NEW k \in T PROVE k + 1 \in T
  <2> DEFINE p == Pow(a, k)
             q == Pow(b, k)
  <2>1. /\ p \in Int /\ q \in Int
        /\ Pow(a, k + 1) = (a * p) % Order /\ Pow(b, k + 1) = (b * q) % Order
    BY PowNext
  <2>2. Cg(p * q, 1)
    OBVIOUS
  <2> HIDE DEF p, q
  <2>3. a * p \in Int /\ b * q \in Int
    BY <2>1
  <2>4. /\ Pow(a, k + 1) \in Int /\ Cg(Pow(a, k + 1), a * p)
        /\ Pow(b, k + 1) \in Int /\ Cg(Pow(b, k + 1), b * q)
    BY <2>1, <2>3, CgMod
  <2>5. Cg(Pow(a, k + 1) * Pow(b, k + 1), (a * p) * (b * q))
    BY <2>3, <2>4, CgMul
  <2>6. Cg((a * b) * (p * q), 1 * 1)
    <3>1. a * b \in Int /\ p * q \in Int
      BY <2>1
    <3> QED BY <2>2, <3>1, CgMul
  <2>7. (a * p) * (b * q) = (a * b) * (p * q) /\ (a * b) * (p * q) \in Int
    BY <2>1
  <2>8. Cg(Pow(a, k + 1) * Pow(b, k + 1), 1)
    <3>1. Pow(a, k + 1) * Pow(b, k + 1) \in Int
      BY <2>4
    <3> QED BY <2>5, <2>6, <2>7, <3>1, CgTrans
  <2> QED BY <2>8
<1>3. T \subseteq Nat
  OBVIOUS
<1> HIDE DEF T
<1>4. \A k \in Nat : k \in T
  BY <1>1, <1>2, <1>3, Induction
<1> QED BY <1>4 DEF T

\* The powers of two, by which their definition counts sets.
LEMMA TwoZero == 2^0 = 1
<1>1. SUBSET {} = {{}}
  OBVIOUS
<1> QED BY <1>1, FS_EmptySet, FS_Singleton, FS_SUBSET

\* The next power of two.
LEMMA TwoNext ==
  ASSUME NEW n \in Nat
  PROVE  2^n \in Nat /\ 2^(n + 1) = 2 * 2^n
<1> DEFINE A == SUBSET (1 .. n)
           B == {t \cup {n + 1} : t \in A}
           f == [t \in A |-> t \cup {n + 1}]
<1>1. /\ IsFiniteSet(A) /\ Cardinality(A) = 2^n /\ Cardinality(A) \in Nat
      /\ Cardinality(SUBSET (1 .. n + 1)) = 2^(n + 1)
  <2>1. /\ IsFiniteSet(1 .. n) /\ Cardinality(1 .. n) = n
        /\ IsFiniteSet(1 .. n + 1) /\ Cardinality(1 .. n + 1) = n + 1
    BY FS_Interval
  <2> QED BY <2>1, FS_SUBSET, FS_CardinalityType
<1>2. IsFiniteSet(B) /\ Cardinality(B) = Cardinality(A)
  <2>1. f \in Bijection(A, B)
    <3>1. f \in [A -> B]
      OBVIOUS
    <3>2. ASSUME NEW s \in A, NEW t \in A, f[s] = f[t] PROVE s = t
      BY <3>2
    <3>3. \A b \in B : \E t \in A : f[t] = b
      OBVIOUS
    <3> QED BY <3>1, <3>2, <3>3 DEF Bijection, Injection, Surjection, IsInjective
  <2> QED BY <1>1, <2>1, FS_Bijection DEF ExistsBijection
<1>3. A \cup B = SUBSET (1 .. n + 1)
  <2>1. ASSUME NEW s \in SUBSET (1 .. n + 1) PROVE s \in A \cup B
    <3>1. n + 1 \notin s => s \in A
      OBVIOUS
    <3>2. n + 1 \in s => s = (s \ {n + 1}) \cup {n + 1} /\ s \ {n + 1} \in A
      OBVIOUS
    <3> QED BY <3>1, <3>2
  <2>2. ASSUME NEW s \in A \cup B PROVE s \in SUBSET (1 .. n + 1)
    OBVIOUS
  <2> HIDE DEF A, B
  <2> QED BY <2>1, <2>2
<1>4. A \cap B = {}
  OBVIOUS
<1> HIDE DEF A, B
<1>5. Cardinality(A \cup B) = Cardinality(A) + Cardinality(B) - Cardinality(A \cap B)
  BY <1>1, <1>2, FS_Union
<1>6. Cardinality(A \cup B) = 2 * Cardinality(A)
  <2>1. Cardinality(A \cap B) = 0
    BY <1>4, FS_EmptySet, Zenon
  <2> QED BY <1>1, <1>2, <1>5, <2>1
<1>7. 2^n \in Nat
  BY <1>1
<1>8. 2^(n + 1) = Cardinality(A \cup B)
  BY <1>1, <1>3
<1> QED BY <1>1, <1>6, <1>7, <1>8

\* Powers of two are positive.
LEMMA TwoPositive == \A n \in Nat : 2^n \in Nat /\ 2^n >= 1
<1> DEFINE T == {n \in Nat : 2^n \in Nat /\ 2^n >= 1}
<1>1. 0 \in T
  BY TwoZero
<1>2. ASSUME NEW n \in T PROVE n + 1 \in T
  BY TwoNext
<1>3. T \subseteq Nat
  OBVIOUS
<1> HIDE DEF T
<1>4. \A k \in Nat : k \in T
  BY <1>1, <1>2, <1>3, Induction
<1> QED BY <1>4 DEF T

-----------------------------------------------------------------------------
(* Blocks and weights                                                      *)

\* A value has two bits at least.
LEMMA NIsNat == N \in Nat /\ N >= 2
BY Parameters

\* Quotient and remainder.
LEMMA DivisionBounds ==
  ASSUME NEW a \in Int, NEW d \in Nat \ {0}
  PROVE  a \div d \in Int /\ a % d \in 0 .. d - 1 /\ a = d * (a \div d) + (a % d)
OBVIOUS

\* A position is that of its place in its block.
LEMMA PlaceIs ==
  ASSUME NEW i \in Nat \ {0}
  PROVE  /\ Block(i) \in Nat \ {0} /\ Place(i) \in 0 .. N - 1
         /\ i = N * (Block(i) - 1) + Place(i) + 1
<1> DEFINE b == (i - 1) \div N
<1>1. /\ b \in Int /\ Place(i) \in 0 .. N - 1
      /\ i - 1 = N * b + Place(i)
  <2>1. i - 1 \in Int /\ N \in Nat \ {0}
    BY NIsNat
  <2> QED BY <2>1, DivisionBounds DEF Place
<1> HIDE DEF b
<1>2. b >= 0
  <2>1. SUFFICES ASSUME b <= -1 PROVE FALSE
    BY <1>1
  <2>2. N * b <= -N
    BY <1>1, <2>1, NIsNat
  <2> QED BY <1>1, <2>2, NIsNat
<1>3. Block(i) = b + 1
  BY DEF Block, b
<1> QED BY <1>1, <1>2, <1>3

\* Weights are integers.
LEMMA WeightType ==
  ASSUME NEW z \in Int, NEW i \in Nat \ {0}
  PROVE  Weight(z, i) \in Int
<1>1. Block(i) \in Nat \ {0} /\ Place(i) \in Nat
  BY PlaceIs, NIsNat
<1>2. Pow(z, Block(i) + 1) \in Int /\ 2^Place(i) \in Int
  <2>1. Block(i) + 1 \in Nat
    BY <1>1
  <2>2. 2^Place(i) \in Nat
    BY <1>1, TwoPositive
  <2> QED BY <2>1, <2>2, PowNext
<1> QED BY <1>2 DEF Weight

-----------------------------------------------------------------------------
(* The instance the rounds start with                                      *)

\* What the prover keeps of m values of N bits, n elements a vector.
Secrets(m, n) ==
    [gamma : Vectors(m, Int), alpha : Int, rho : Int, aL : Vectors(n, Int), aR : Vectors(n, Int),
     sL : Vectors(n, Int), sR : Vectors(n, Int), tau1 : Int, tau2 : Int]

\* The constant coefficient of the left vector, ...
LEMMA LZeroIs ==
  ASSUME NEW n \in Nat, NEW a \in Vectors(n, Int), NEW z \in Int
  PROVE  /\ LZero(a, z) \in Vectors(n, Int)
         /\ \A i \in 1 .. n : Cg(LZero(a, z)[i], a[i] - z)
<1>1. Len(a) = n
  BY VectorLen
<1>2. \A i \in 1 .. n : (a[i] - z) % Order \in Int /\ Cg((a[i] - z) % Order, a[i] - z)
  BY CgMod DEF Vectors
<1> QED BY <1>1, <1>2 DEF LZero, Vectors

\* ... that of the right one ...
LEMMA RZeroIs ==
  ASSUME NEW n \in Nat, NEW a \in Vectors(n, Int), NEW y \in Int, NEW z \in Int
  PROVE  /\ RZero(a, y, z) \in Vectors(n, Int)
         /\ \A i \in 1 .. n : Cg(RZero(a, y, z)[i], Pow(y, i - 1) * (a[i] + z) + Weight(z, i))
<1>1. Len(a) = n
  BY VectorLen
<1>2. ASSUME NEW i \in 1 .. n
      PROVE  /\ (Pow(y, i - 1) * (a[i] + z) + Weight(z, i)) % Order \in Int
             /\ Cg((Pow(y, i - 1) * (a[i] + z) + Weight(z, i)) % Order,
                   Pow(y, i - 1) * (a[i] + z) + Weight(z, i))
  <2>1. i \in Nat \ {0} /\ i - 1 \in Nat /\ a[i] \in Int
    BY DEF Vectors
  <2>2. Pow(y, i - 1) \in Int /\ Weight(z, i) \in Int
    BY <2>1, PowNext, WeightType
  <2>3. Pow(y, i - 1) * (a[i] + z) + Weight(z, i) \in Int
    BY <2>1, <2>2
  <2> QED BY <2>3, CgMod
<1> QED BY <1>1, <1>2 DEF RZero, Vectors

\* ... and the linear one of the right vector.
LEMMA ROneIs ==
  ASSUME NEW n \in Nat, NEW a \in Vectors(n, Int), NEW y \in Int
  PROVE  /\ ROne(a, y) \in Vectors(n, Int)
         /\ \A i \in 1 .. n : Cg(ROne(a, y)[i], Pow(y, i - 1) * a[i])
<1>1. Len(a) = n
  BY VectorLen
<1>2. ASSUME NEW i \in 1 .. n
      PROVE  /\ (Pow(y, i - 1) * a[i]) % Order \in Int
             /\ Cg((Pow(y, i - 1) * a[i]) % Order, Pow(y, i - 1) * a[i])
  <2>1. i - 1 \in Nat /\ a[i] \in Int
    BY DEF Vectors
  <2>2. Pow(y, i - 1) \in Int
    BY <2>1, PowNext
  <2>3. Pow(y, i - 1) * a[i] \in Int
    BY <2>1, <2>2
  <2> QED BY <2>3, CgMod
<1> QED BY <1>1, <1>2 DEF ROne, Vectors

\* The left vector at x ...
LEMMA LxIs ==
  ASSUME NEW m, NEW n \in Nat, NEW s \in Secrets(m, n), NEW z \in Int, NEW x \in Int
  PROVE  /\ Lx(s, z, x) \in Vectors(n, Int)
         /\ \A i \in 1 .. n : Cg(Lx(s, z, x)[i], (s.aL[i] - z) + s.sL[i] * x)
<1> DEFINE l == LZero(s.aL, z)
           r == VectorScalarMul(s.sL, x)
<1>1. s.aL \in Vectors(n, Int) /\ s.sL \in Vectors(n, Int)
  BY DEF Secrets
<1>2. l \in Vectors(n, Int) /\ \A i \in 1 .. n : Cg(l[i], s.aL[i] - z)
  BY <1>1, LZeroIs
<1>3. r \in Vectors(n, Int) /\ \A i \in 1 .. n : Cg(r[i], s.sL[i] * x)
  BY <1>1, VectorScalarMulIs
<1> HIDE DEF l, r
<1>4. VectorAdd(l, r) \in Vectors(n, Int) /\ \A i \in 1 .. n : Cg(VectorAdd(l, r)[i], l[i] + r[i])
  BY <1>2, <1>3, VectorAddIs
<1>5. ASSUME NEW i \in 1 .. n PROVE Cg(VectorAdd(l, r)[i], (s.aL[i] - z) + s.sL[i] * x)
  <2>1. /\ l[i] \in Int /\ r[i] \in Int /\ s.aL[i] - z \in Int /\ s.sL[i] * x \in Int
        /\ VectorAdd(l, r)[i] \in Int
    BY <1>1, <1>2, <1>3, <1>4 DEF Vectors
  <2>2. Cg(l[i] + r[i], (s.aL[i] - z) + s.sL[i] * x)
    BY <1>2, <1>3, <2>1, CgAdd
  <2> QED BY <1>4, <2>1, <2>2, CgTrans
<1> QED BY <1>4, <1>5 DEF Lx, l, r

\* ... and the right one.
LEMMA RxIs ==
  ASSUME NEW m, NEW n \in Nat, NEW s \in Secrets(m, n),
         NEW y \in Int, NEW z \in Int, NEW x \in Int
  PROVE  /\ Rx(s, y, z, x) \in Vectors(n, Int)
         /\ \A i \in 1 .. n : Cg(Rx(s, y, z, x)[i], (Pow(y, i - 1) * (s.aR[i] + z) + Weight(z, i))
                                                      + (Pow(y, i - 1) * s.sR[i]) * x)
<1> DEFINE l == RZero(s.aR, y, z)
           o == ROne(s.sR, y)
           r == VectorScalarMul(o, x)
<1>1. s.aR \in Vectors(n, Int) /\ s.sR \in Vectors(n, Int)
  BY DEF Secrets
<1>2. l \in Vectors(n, Int)
      /\ \A i \in 1 .. n : Cg(l[i], Pow(y, i - 1) * (s.aR[i] + z) + Weight(z, i))
  BY <1>1, RZeroIs
<1>3. o \in Vectors(n, Int) /\ \A i \in 1 .. n : Cg(o[i], Pow(y, i - 1) * s.sR[i])
  BY <1>1, ROneIs
<1> HIDE DEF l, o
<1>4. r \in Vectors(n, Int) /\ \A i \in 1 .. n : Cg(r[i], o[i] * x)
  BY <1>3, VectorScalarMulIs
<1> HIDE DEF r
<1>5. VectorAdd(l, r) \in Vectors(n, Int) /\ \A i \in 1 .. n : Cg(VectorAdd(l, r)[i], l[i] + r[i])
  BY <1>2, <1>4, VectorAddIs
<1>6. ASSUME NEW i \in 1 .. n
      PROVE  Cg(VectorAdd(l, r)[i], (Pow(y, i - 1) * (s.aR[i] + z) + Weight(z, i))
                                      + (Pow(y, i - 1) * s.sR[i]) * x)
  <2> DEFINE p == Pow(y, i - 1)
             w == Weight(z, i)
             e == p * (s.aR[i] + z) + w
             d == p * s.sR[i]
  <2>1. i \in Nat \ {0} /\ i - 1 \in Nat /\ s.aR[i] \in Int /\ s.sR[i] \in Int
    BY <1>1 DEF Vectors
  <2>2. p \in Int /\ w \in Int
    BY <2>1, PowNext, WeightType
  <2> HIDE DEF p, w
  <2>3. e \in Int /\ d \in Int
    BY <2>1, <2>2
  <2>4. Cg(l[i], e) /\ Cg(o[i], d)
    BY <1>2, <1>3 DEF p, w
  <2> HIDE DEF e, d
  <2>5. /\ l[i] \in Int /\ r[i] \in Int /\ o[i] \in Int /\ VectorAdd(l, r)[i] \in Int
        /\ d * x \in Int /\ o[i] * x \in Int
    BY <1>2, <1>3, <1>4, <1>5, <2>3 DEF Vectors
  <2>6. Cg(o[i] * x, d * x)
    BY <2>3, <2>4, <2>5, CgRefl, CgMul
  <2>7. Cg(r[i], d * x)
    BY <1>4, <2>5, <2>6, CgTrans
  <2>8. Cg(l[i] + r[i], e + d * x)
    BY <2>3, <2>4, <2>5, <2>7, CgAdd
  <2>9. Cg(VectorAdd(l, r)[i], e + d * x)
    BY <1>5, <2>3, <2>5, <2>8, CgTrans
  <2> QED BY <2>9 DEF e, d, p, w
<1> QED BY <1>5, <1>6 DEF Rx, l, o, r

\* A generator is a point.
LEMMA GeneratorType == \A name, i : Generator(name, i) \in Points
<1> SUFFICES ASSUME NEW name, NEW i PROVE Generator(name, i) \in Points
  OBVIOUS
<1> DEFINE j == <<name, i>>
<1>1. 0 \in Fp /\ 1 \in Fp
  BY OrderIsPrime DEF Fp
<1> HIDE DEF j
<1>2. Infinity \in Points
  BY <1>1 DEF Infinity, Points
<1>3. [Infinity EXCEPT ![j] = 1] \in Points
  BY <1>1, <1>2 DEF Points
<1> QED BY <1>3 DEF Generator, j

\* So are the ones the library names.
LEMMA GeneratorTypes ==
  /\ g \in Points /\ h \in Points /\ \A k : u(k) \in Points
  /\ \A n \in Nat : gVector(n) \in Vectors(n, Points) /\ hVector(n) \in Vectors(n, Points)
<1>1. g \in Points /\ h \in Points /\ \A k : u(k) \in Points
  BY GeneratorType DEF g, h, u
<1>2. ASSUME NEW n \in Nat
      PROVE gVector(n) \in Vectors(n, Points) /\ hVector(n) \in Vectors(n, Points)
  BY GeneratorType DEF gVector, hVector, Vectors
<1> QED BY <1>1, <1>2

\* The generators h by the inverse powers of y.
LEMMA HprimeIs ==
  ASSUME NEW n \in Nat, NEW y \in 1 .. Order - 1
  PROVE  /\ GenerateHprime(n, y) \in Vectors(n, Points)
         /\ \A i \in 1 .. n, k \in Generators :
               Cg(GenerateHprime(n, y)[i][k], hVector(n)[i][k] * Pow(ModInverse(y), i - 1))
<1>1. ModInverse(y) \in Int
  BY NonZero, InverseOf, OrderIsPrime
<1>2. ASSUME NEW i \in 1 .. n
      PROVE  /\ ScalarMult(hVector(n)[i], Pow(ModInverse(y), i - 1)) \in Points
             /\ \A k \in Generators : Cg(ScalarMult(hVector(n)[i], Pow(ModInverse(y), i - 1))[k],
                                         hVector(n)[i][k] * Pow(ModInverse(y), i - 1))
  <2>1. hVector(n)[i] \in Points
    BY GeneratorTypes DEF Vectors
  <2>2. i - 1 \in Nat
    OBVIOUS
  <2>3. Pow(ModInverse(y), i - 1) \in Int
    BY <1>1, <2>2, PowNext
  <2> QED BY <2>1, <2>3, ScalarMultIs
<1> QED BY <1>2 DEF GenerateHprime, Vectors

\* The coefficients of a vector commitment.
LEMMA VectorCommitIs ==
  ASSUME NEW n \in Nat, NEW a \in Vectors(n, Int), NEW b \in Vectors(n, Int), NEW r \in Int
  PROVE  /\ VectorCommit(a, b, r) \in Points
         /\ \A k \in Generators :
               Cg(VectorCommit(a, b, r)[k], h[k] * r + Sum(Terms(a, At(gVector(n), k, n), n), n)
                                               + Sum(Terms(b, At(hVector(n), k, n), n), n))
<1> DEFINE A == VectorScalarMulSum(a, gVector(n))
           B == VectorScalarMulSum(b, hVector(n))
           H == ScalarMult(h, r)
           E == Add(A, B)
<1>1. Len(a) = n /\ Len(b) = n
  BY VectorLen
<1>2. /\ A \in Points /\ B \in Points
      /\ \A k \in Generators : A[k] = Sum(Terms(a, At(gVector(n), k, n), n), n)
      /\ \A k \in Generators : B[k] = Sum(Terms(b, At(hVector(n), k, n), n), n)
  BY GeneratorTypes, MulSumIs
<1>3. H \in Points /\ \A k \in Generators : Cg(H[k], h[k] * r)
  BY GeneratorTypes, ScalarMultIs
<1> HIDE DEF A, B, H
<1>4. E \in Points /\ \A k \in Generators : Cg(E[k], A[k] + B[k])
  BY <1>2, AddIs
<1> HIDE DEF E
<1>5. Add(H, E) \in Points /\ \A k \in Generators : Cg(Add(H, E)[k], H[k] + E[k])
  BY <1>3, <1>4, AddIs
<1>6. VectorCommit(a, b, r) = Add(H, E)
  BY <1>1 DEF VectorCommit, A, B, H, E
<1>7. ASSUME NEW k \in Generators PROVE Cg(Add(H, E)[k], h[k] * r + A[k] + B[k])
  <2>1. /\ H[k] \in Int /\ E[k] \in Int /\ A[k] \in Int /\ B[k] \in Int /\ Add(H, E)[k] \in Int
        /\ h[k] * r \in Int
    BY <1>2, <1>3, <1>4, <1>5, GeneratorTypes, PointInt
  <2>2. Cg(H[k] + E[k], h[k] * r + (A[k] + B[k]))
    BY <1>3, <1>4, <2>1, CgAdd
  <2>3. Cg(Add(H, E)[k], h[k] * r + (A[k] + B[k]))
    BY <1>5, <2>1, <2>2, CgTrans
  <2>4. h[k] * r + (A[k] + B[k]) = h[k] * r + A[k] + B[k]
    BY <2>1
  <2> QED BY <2>3, <2>4
<1> QED BY <1>2, <1>5, <1>6, <1>7

\* The exponents of h' in UpdateP.
HExp(n, y, z) == [i \in 1 .. n |-> (z * Pow(y, i - 1) + Weight(z, i)) % Order]
MinusZ(n, z) == [i \in 1 .. n |-> Order - z]

\* What UpdateP multiplies them by.
LEMMA HExpIs ==
  ASSUME NEW n \in Nat, NEW y \in Int, NEW z \in Int
  PROVE  /\ HExp(n, y, z) \in Vectors(n, Int)
         /\ \A i \in 1 .. n : Cg(HExp(n, y, z)[i], z * Pow(y, i - 1) + Weight(z, i))
<1>1. ASSUME NEW i \in 1 .. n
      PROVE  /\ (z * Pow(y, i - 1) + Weight(z, i)) % Order \in Int
             /\ Cg((z * Pow(y, i - 1) + Weight(z, i)) % Order, z * Pow(y, i - 1) + Weight(z, i))
  <2>1. i \in Nat \ {0} /\ i - 1 \in Nat
    OBVIOUS
  <2>2. Pow(y, i - 1) \in Int /\ Weight(z, i) \in Int
    BY <2>1, PowNext, WeightType
  <2>3. z * Pow(y, i - 1) + Weight(z, i) \in Int
    BY <2>2
  <2> QED BY <2>3, CgMod
<1> QED BY <1>1 DEF HExp, Vectors

\* The coefficients of the point the inner product argument is about.
LEMMA UpdatePIs ==
  ASSUME NEW n \in Nat, NEW y \in 1 .. Order - 1, NEW z \in 1 .. Order - 1, NEW x \in Int,
         NEW p, p.A \in Points, p.S \in Points, p.mu \in Int
  PROVE  /\ UpdateP(p, n, x, y, z) \in Points
         /\ \A k \in Generators :
               Cg(UpdateP(p, n, x, y, z)[k],
                  p.A[k] + p.S[k] * x
                    + Sum(Terms(MinusZ(n, z), At(gVector(n), k, n), n), n)
                    + Sum(Terms(HExp(n, y, z), At(GenerateHprime(n, y), k, n), n), n)
                    + h[k] * (Order - p.mu))
<1> DEFINE A == p.A
           S == ScalarMult(p.S, x)
           G == VectorScalarMulSum(MinusZ(n, z), gVector(n))
           J == VectorScalarMulSum(HExp(n, y, z), GenerateHprime(n, y))
           M == ScalarMult(h, Order - p.mu)
           E1 == Add(A, S)
           E2 == Add(G, J)
           E3 == Add(E2, M)
           E == Add(E1, E3)
<1>1. /\ Order \in Int /\ y \in Int /\ z \in Int /\ Order - p.mu \in Int
      /\ MinusZ(n, z) \in Vectors(n, Int) /\ HExp(n, y, z) \in Vectors(n, Int)
  <2>1. Order \in Int /\ y \in Int /\ z \in Int /\ Order - p.mu \in Int
    BY OrderIsPrime
  <2>2. MinusZ(n, z) \in Vectors(n, Int)
    BY <2>1 DEF MinusZ, Vectors
  <2> QED BY <2>1, <2>2, HExpIs
<1>2. /\ G \in Points
      /\ \A k \in Generators : G[k] = Sum(Terms(MinusZ(n, z), At(gVector(n), k, n), n), n)
  BY <1>1, GeneratorTypes, MulSumIs
<1>3. /\ J \in Points
      /\ \A k \in Generators :
            J[k] = Sum(Terms(HExp(n, y, z), At(GenerateHprime(n, y), k, n), n), n)
  BY <1>1, HprimeIs, MulSumIs
<1>4. /\ S \in Points /\ \A k \in Generators : Cg(S[k], p.S[k] * x)
      /\ M \in Points /\ \A k \in Generators : Cg(M[k], h[k] * (Order - p.mu))
  BY <1>1, GeneratorTypes, ScalarMultIs
<1>5. UpdateP(p, n, x, y, z) = E
  BY DEF UpdateP, MinusZ, HExp
<1>6. A \in Points
  OBVIOUS
<1> HIDE DEF A, S, G, J, M
<1>7. E1 \in Points /\ \A k \in Generators : Cg(E1[k], A[k] + S[k])
  BY <1>4, <1>6, AddIs
<1>8. E2 \in Points /\ \A k \in Generators : Cg(E2[k], G[k] + J[k])
  BY <1>2, <1>3, AddIs
<1> HIDE DEF E1, E2
<1>9. E3 \in Points /\ \A k \in Generators : Cg(E3[k], E2[k] + M[k])
  BY <1>4, <1>8, AddIs
<1> HIDE DEF E3
<1>10. E \in Points /\ \A k \in Generators : Cg(E[k], E1[k] + E3[k])
  BY <1>7, <1>9, AddIs
<1> HIDE DEF E
<1>11. ASSUME NEW k \in Generators
       PROVE  Cg(E[k], A[k] + p.S[k] * x + G[k] + J[k] + h[k] * (Order - p.mu))
  <2> DEFINE s == p.S[k] * x
             w == h[k] * (Order - p.mu)
  <2>1. /\ A[k] \in Int /\ S[k] \in Int /\ G[k] \in Int /\ J[k] \in Int /\ M[k] \in Int
        /\ E1[k] \in Int /\ E2[k] \in Int /\ E3[k] \in Int /\ E[k] \in Int
    BY <1>2, <1>3, <1>4, <1>6, <1>7, <1>8, <1>9, <1>10, PointInt
  <2>2. s \in Int /\ w \in Int
    <3>1. p.S[k] \in Int /\ h[k] \in Int
      BY GeneratorTypes, PointInt
    <3> QED BY <1>1, <3>1
  <2>3. Cg(S[k], s) /\ Cg(M[k], w)
    BY <1>4
  <2> HIDE DEF s, w
  <2>4. PICK k1 \in Int : E1[k] = A[k] + S[k] + k1 * Order
    BY <1>7 DEF Cg
  <2>5. PICK k2 \in Int : E2[k] = G[k] + J[k] + k2 * Order
    BY <1>8 DEF Cg
  <2>6. PICK k3 \in Int : E3[k] = E2[k] + M[k] + k3 * Order
    BY <1>9 DEF Cg
  <2>7. PICK k4 \in Int : E[k] = E1[k] + E3[k] + k4 * Order
    BY <1>10 DEF Cg
  <2>8. PICK k5 \in Int : S[k] = s + k5 * Order
    BY <2>3 DEF Cg
  <2>9. PICK k6 \in Int : M[k] = w + k6 * Order
    BY <2>3 DEF Cg
  <2>10. E[k] = A[k] + s + G[k] + J[k] + w + (k1 + k2 + k3 + k4 + k5 + k6) * Order
    BY <1>1, <2>1, <2>2, <2>4, <2>5, <2>6, <2>7, <2>8, <2>9
  <2>11. Cg(E[k], A[k] + s + G[k] + J[k] + w)
    BY <2>10 DEF Cg
  <2> QED BY <2>11 DEF s, w
<1> QED BY <1>2, <1>3, <1>5, <1>10, <1>11 DEF A

StartOf(k0, p, s, n, y, z, x, c) ==
    [a |-> Lx(s, z, x), b |-> Rx(s, y, z, x), g |-> gVector(n), h |-> GenerateHprime(n, y),
     P |-> Protocol1(UpdateP(p, n, x, y, z), u(k0), p.tHat, c).P,
     u |-> Protocol1(UpdateP(p, n, x, y, z), u(k0), p.tHat, c).u]

\* A and S are the commitments to the vectors of s.
CommittedTo(p, s) ==
    /\ p.A = VectorCommit(s.aL, s.aR, s.alpha)
    /\ p.S = VectorCommit(s.sL, s.sR, s.rho)

\* The updated point is the commitment to the two vectors, without blinding.
LEMMA UpdatedCommits ==
  ASSUME NEW m, NEW n \in Nat, NEW s \in Secrets(m, n), NEW p, CommittedTo(p, s),
         NEW y \in 1 .. Order - 1, NEW z \in 1 .. Order - 1, NEW x \in Int,
         p.mu = (s.alpha + s.rho * x) % Order
  PROVE  /\ UpdateP(p, n, x, y, z) \in Points
         /\ \A k \in Generators :
               Cg(UpdateP(p, n, x, y, z)[k],
                  Sum(Terms(Lx(s, z, x), At(gVector(n), k, n), n), n)
                    + Sum(Terms(Rx(s, y, z, x), At(GenerateHprime(n, y), k, n), n), n))
<1> DEFINE l == Lx(s, z, x)
           r == Rx(s, y, z, x)
           hp == GenerateHprime(n, y)
           U == UpdateP(p, n, x, y, z)
           mz == MinusZ(n, z)
           he == HExp(n, y, z)
           yi == ModInverse(y)
<1>1. /\ y \in Int /\ z \in Int /\ Order \in Int /\ yi \in Int /\ Cg(y * yi, 1)
  BY NonZero, InverseOf, OrderIsPrime
<1>2. /\ s.aL \in Vectors(n, Int) /\ s.aR \in Vectors(n, Int)
      /\ s.sL \in Vectors(n, Int) /\ s.sR \in Vectors(n, Int)
      /\ s.alpha \in Int /\ s.rho \in Int
  BY DEF Secrets
<1>3. /\ p.A \in Points
      /\ \A k \in Generators :
             Cg(p.A[k], h[k] * s.alpha + Sum(Terms(s.aL, At(gVector(n), k, n), n), n)
                           + Sum(Terms(s.aR, At(hVector(n), k, n), n), n))
  BY <1>2, VectorCommitIs DEF CommittedTo
<1>4. /\ p.S \in Points
      /\ \A k \in Generators :
             Cg(p.S[k], h[k] * s.rho + Sum(Terms(s.sL, At(gVector(n), k, n), n), n)
                           + Sum(Terms(s.sR, At(hVector(n), k, n), n), n))
  BY <1>2, VectorCommitIs DEF CommittedTo
<1>5. p.mu \in Int /\ Cg(p.mu, s.alpha + s.rho * x)
  <2>1. s.alpha + s.rho * x \in Int
    BY <1>2
  <2> QED BY <2>1, CgMod
<1>6. /\ U \in Points
      /\ \A k \in Generators :
               Cg(U[k], p.A[k] + p.S[k] * x + Sum(Terms(mz, At(gVector(n), k, n), n), n)
                            + Sum(Terms(he, At(hp, k, n), n), n) + h[k] * (Order - p.mu))
  BY <1>3, <1>4, <1>5, UpdatePIs
<1>7. l \in Vectors(n, Int) /\ \A i \in 1 .. n : Cg(l[i], (s.aL[i] - z) + s.sL[i] * x)
  BY <1>1, LxIs
<1>8. /\ r \in Vectors(n, Int)
      /\ \A i \in 1 .. n : Cg(r[i], (Pow(y, i - 1) * (s.aR[i] + z) + Weight(z, i))
                                      + (Pow(y, i - 1) * s.sR[i]) * x)
  BY <1>1, RxIs
<1>9. /\ hp \in Vectors(n, Points)
      /\ \A i \in 1 .. n, k \in Generators : Cg(hp[i][k], hVector(n)[i][k] * Pow(yi, i - 1))
  BY HprimeIs
<1>10. mz \in Vectors(n, Int) /\ \A i \in 1 .. n : mz[i] = Order - z
  BY <1>1 DEF MinusZ, Vectors
<1>11. he \in Vectors(n, Int) /\ \A i \in 1 .. n : Cg(he[i], z * Pow(y, i - 1) + Weight(z, i))
  BY <1>1, HExpIs
<1>12. \A i \in Nat : Cg(Pow(y, i) * Pow(yi, i), 1)
  <2> HIDE DEF yi
  <2> QED BY <1>1, PowInverse
<1> HIDE DEF l, r, hp, U, mz, he, yi
<1>13. ASSUME NEW k \in Generators
       PROVE  Cg(U[k], Sum(Terms(l, At(gVector(n), k, n), n), n) + Sum(Terms(r, At(hp, k, n), n), n))
  <2> DEFINE G == At(gVector(n), k, n)
             H == At(hVector(n), k, n)
             J == At(hp, k, n)
             Al == Sum(Terms(s.aL, G, n), n)
             Ar == Sum(Terms(s.aR, H, n), n)
             Sl == Sum(Terms(s.sL, G, n), n)
             Sr == Sum(Terms(s.sR, H, n), n)
             ZZ == Sum(Terms(mz, G, n), n)
             E == Sum(Terms(he, J, n), n)
             Lg == Sum(Terms(l, G, n), n)
             Rh == Sum(Terms(r, J, n), n)
  <2>1. G \in Vectors(n, Int) /\ H \in Vectors(n, Int) /\ J \in Vectors(n, Int)
    BY <1>9, GeneratorTypes, AtIs
  <2>2. \A i \in 1 .. n : J[i] = hp[i][k] /\ H[i] = hVector(n)[i][k]
    BY DEF At
  <2> HIDE DEF G, H, J
  <2>3. ASSUME NEW c \in Vectors(n, Int), NEW d \in Vectors(n, Int)
        PROVE  /\ Ints(Terms(c, d, n), n) /\ Sum(Terms(c, d, n), n) \in Int
               /\ \A i \in 1 .. n : Terms(c, d, n)[i] = c[i] * d[i]
    BY TermsAreInts, SumType
  <2>4. Cg(Lg, 1 * Al + x * Sl + 1 * ZZ + 0 * ZZ)
    <3>1. ASSUME NEW i \in 1 .. n
          PROVE  Cg(Terms(l, G, n)[i], 1 * Terms(s.aL, G, n)[i] + x * Terms(s.sL, G, n)[i]
                        + 1 * Terms(mz, G, n)[i] + 0 * Terms(mz, G, n)[i])
      <4>1. /\ Terms(l, G, n)[i] = l[i] * G[i] /\ Terms(s.aL, G, n)[i] = s.aL[i] * G[i]
            /\ Terms(s.sL, G, n)[i] = s.sL[i] * G[i] /\ Terms(mz, G, n)[i] = (Order - z) * G[i]
        BY <1>2, <1>7, <1>10, <2>1, <2>3
      <4> DEFINE a == s.aL[i]
                 b == s.sL[i]
                 e == G[i]
      <4>2. a \in Int /\ b \in Int /\ e \in Int /\ l[i] \in Int
        BY <1>2, <1>7, <2>1 DEF Vectors
      <4>3. PICK q \in Int : l[i] = (a - z) + b * x + q * Order
        BY <1>7 DEF Cg
      <4> HIDE DEF a, b, e
      <4>4. l[i] * e = 1 * (a * e) + x * (b * e) + 1 * ((Order - z) * e) + 0 * ((Order - z) * e)
                          + (q * e - e) * Order
        BY <1>1, <4>2, <4>3
      <4>5. q * e - e \in Int
        BY <4>2
      <4>6. Cg(l[i] * e, 1 * (a * e) + x * (b * e) + 1 * ((Order - z) * e) + 0 * ((Order - z) * e))
        BY <4>4, <4>5 DEF Cg
      <4> QED BY <4>1, <4>6 DEF a, b, e
    <3>2. /\ Ints(Terms(l, G, n), n) /\ Ints(Terms(s.aL, G, n), n)
          /\ Ints(Terms(s.sL, G, n), n) /\ Ints(Terms(mz, G, n), n)
      BY <1>2, <1>7, <1>10, <2>1, <2>3
    <3>3. 0 \in Int /\ 1 \in Int
      OBVIOUS
    <3> QED BY <3>1, <3>2, <3>3, SumLinear
  <2>5. Cg(Rh, 1 * Ar + x * Sr + 1 * E + 0 * E)
    <3>1. ASSUME NEW i \in 1 .. n
          PROVE  Cg(Terms(r, J, n)[i], 1 * Terms(s.aR, H, n)[i] + x * Terms(s.sR, H, n)[i]
                        + 1 * Terms(he, J, n)[i] + 0 * Terms(he, J, n)[i])
      <4>1. /\ Terms(r, J, n)[i] = r[i] * J[i] /\ Terms(s.aR, H, n)[i] = s.aR[i] * H[i]
            /\ Terms(s.sR, H, n)[i] = s.sR[i] * H[i] /\ Terms(he, J, n)[i] = he[i] * J[i]
        BY <1>2, <1>8, <1>11, <2>1, <2>3
      <4> DEFINE a == s.aR[i]
                 b == s.sR[i]
                 e == H[i]
                 w == Weight(z, i)
                 py == Pow(y, i - 1)
                 pi == Pow(yi, i - 1)
      <4>2. /\ a \in Int /\ b \in Int /\ e \in Int /\ r[i] \in Int /\ J[i] \in Int
            /\ he[i] \in Int /\ w \in Int /\ py \in Int /\ pi \in Int
        <5>1. i - 1 \in Nat /\ i \in Nat \ {0}
          OBVIOUS
        <5>2. w \in Int /\ py \in Int /\ pi \in Int
          BY <1>1, <5>1, PowNext, WeightType
        <5> QED BY <1>2, <1>8, <1>11, <2>1, <5>2 DEF Vectors
      <4>3. PICK q1 \in Int : r[i] = (py * (a + z) + w) + (py * b) * x + q1 * Order
        BY <1>8 DEF Cg
      <4>4. PICK q2 \in Int : he[i] = z * py + w + q2 * Order
        BY <1>11 DEF Cg
      <4>5. PICK q3 \in Int : J[i] = e * pi + q3 * Order
        BY <1>9, <2>2 DEF Cg
      <4>6. PICK q4 \in Int : py * pi = 1 + q4 * Order
        <5>1. i - 1 \in Nat
          OBVIOUS
        <5> QED BY <1>12, <5>1 DEF Cg
      <4> HIDE DEF a, b, e, w, py, pi
      <4> DEFINE t == a + b * x
      <4>7. r[i] = py * t + he[i] + (q1 - q2) * Order
        BY <1>1, <4>2, <4>3, <4>4
      <4>8. t \in Int
        BY <4>2
      <4>9. (py * t) * J[i] = t * e + (t * e * q4 + py * t * q3) * Order
        <5>1. (py * t) * J[i] = (t * e) * (py * pi) + (py * t * q3) * Order
          BY <1>1, <4>2, <4>5, <4>8
        <5>2. (t * e) * (py * pi) = t * e + (t * e * q4) * Order
          BY <1>1, <4>2, <4>6, <4>8
        <5>3. t * e \in Int /\ t * e * q4 \in Int /\ py * t * q3 \in Int
          BY <4>2, <4>8
        <5> QED BY <1>1, <5>1, <5>2, <5>3
      <4> DEFINE v1 == t * e * q4 + py * t * q3
                 v2 == (q1 - q2) * J[i]
      <4>10. v1 \in Int /\ v2 \in Int
        BY <4>2, <4>8
      <4>11. r[i] * J[i] = (py * t) * J[i] + he[i] * J[i] + v2 * Order
        <5> HIDE DEF t
        <5> QED BY <1>1, <4>2, <4>7, <4>8
      <4>12. r[i] * J[i] = t * e + he[i] * J[i] + (v1 + v2) * Order
        <5>1. (py * t) * J[i] \in Int /\ t * e \in Int /\ he[i] * J[i] \in Int
          BY <4>2, <4>8
        <5> HIDE DEF t, v2
        <5>2. (py * t) * J[i] = t * e + v1 * Order
          BY <4>9
        <5> HIDE DEF v1
        <5> QED BY <1>1, <4>10, <4>11, <5>1, <5>2
      <4>13. t * e = 1 * (a * e) + x * (b * e)
        BY <4>2
      <4>14. he[i] * J[i] \in Int
        BY <4>2
      <4> HIDE DEF t, v1, v2
      <4>15. r[i] * J[i] = (1 * (a * e) + x * (b * e) + 1 * (he[i] * J[i]) + 0 * (he[i] * J[i]))
                             + (v1 + v2) * Order
        BY <4>2, <4>12, <4>13, <4>14
      <4>16. v1 + v2 \in Int
        BY <4>10
      <4>17. Cg(r[i] * J[i], 1 * (a * e) + x * (b * e) + 1 * (he[i] * J[i]) + 0 * (he[i] * J[i]))
        BY <4>15, <4>16 DEF Cg
      <4> QED BY <4>1, <4>17 DEF a, b, e
    <3>2. /\ Ints(Terms(r, J, n), n) /\ Ints(Terms(s.aR, H, n), n)
          /\ Ints(Terms(s.sR, H, n), n) /\ Ints(Terms(he, J, n), n)
      BY <1>2, <1>8, <1>11, <2>1, <2>3
    <3>3. 0 \in Int /\ 1 \in Int
      OBVIOUS
    <3> QED BY <3>1, <3>2, <3>3, SumLinear
  <2>6. /\ Al \in Int /\ Ar \in Int /\ Sl \in Int /\ Sr \in Int /\ ZZ \in Int /\ E \in Int
        /\ Lg \in Int /\ Rh \in Int
    BY <1>2, <1>7, <1>8, <1>10, <1>11, <2>1, <2>3
  <2>7. U[k] \in Int /\ p.A[k] \in Int /\ p.S[k] \in Int /\ h[k] \in Int
    BY <1>3, <1>4, <1>6, GeneratorTypes, PointInt
  <2>8. /\ Cg(p.A[k], h[k] * s.alpha + Al + Ar) /\ Cg(p.S[k], h[k] * s.rho + Sl + Sr)
        /\ Cg(U[k], p.A[k] + p.S[k] * x + ZZ + E + h[k] * (Order - p.mu))
    BY <1>3, <1>4, <1>6 DEF G, H, J
  <2> HIDE DEF Al, Ar, Sl, Sr, ZZ, E, Lg, Rh
  <2>9. PICK k1 \in Int : Lg = (1 * Al + x * Sl + 1 * ZZ + 0 * ZZ) + k1 * Order
    BY <2>4 DEF Cg
  <2>10. PICK k2 \in Int : Rh = (1 * Ar + x * Sr + 1 * E + 0 * E) + k2 * Order
    BY <2>5 DEF Cg
  <2>11. PICK k3 \in Int : p.A[k] = h[k] * s.alpha + Al + Ar + k3 * Order
    BY <2>8 DEF Cg
  <2>12. PICK k4 \in Int : p.S[k] = h[k] * s.rho + Sl + Sr + k4 * Order
    BY <2>8 DEF Cg
  <2>13. PICK k5 \in Int :
             U[k] = (p.A[k] + p.S[k] * x + ZZ + E + h[k] * (Order - p.mu)) + k5 * Order
    BY <2>8 DEF Cg
  <2>14. PICK k6 \in Int : p.mu = s.alpha + s.rho * x + k6 * Order
    BY <1>5 DEF Cg
  <2> DEFINE j == k3 + k4 * x + k5 - k1 - k2 + h[k] - h[k] * k6
  <2>15. U[k] = Lg + Rh + j * Order
    <3> DEFINE hk == h[k]
               d == s.rho * x
               w == hk * d
    <3>1. /\ hk \in Int /\ x \in Int /\ d \in Int /\ w \in Int /\ s.alpha \in Int /\ s.rho \in Int
          /\ p.mu \in Int /\ Order \in Int
      BY <1>1, <1>2, <1>5, <2>7
    <3>2. p.S[k] * x = w + x * Sl + x * Sr + (k4 * x) * Order
      <4>1. (hk * s.rho) * x = w
        BY <3>1
      <4>2. p.S[k] * x = (hk * s.rho) * x + Sl * x + Sr * x + (k4 * Order) * x
        BY <2>6, <2>7, <2>12, <3>1
      <4>3. (k4 * Order) * x = (k4 * x) * Order /\ Sl * x = x * Sl /\ Sr * x = x * Sr
        BY <2>6, <3>1
      <4> QED BY <4>1, <4>2, <4>3
    <3>3. hk * (Order - p.mu) = hk * Order - hk * s.alpha - w - (hk * k6) * Order
      <4> HIDE DEF hk, d
      <4>1. p.mu = s.alpha + d + k6 * Order
        BY <2>14 DEF d
      <4>2. hk * p.mu = hk * s.alpha + w + hk * (k6 * Order)
        BY <3>1, <4>1
      <4>3. hk * (k6 * Order) = (hk * k6) * Order
        BY <3>1
      <4>4. hk * (Order - p.mu) = hk * Order - hk * p.mu
        BY <3>1
      <4>5. hk * p.mu \in Int /\ hk * s.alpha \in Int /\ (hk * k6) * Order \in Int /\ hk * Order \in Int
        BY <3>1
      <4> HIDE DEF w
      <4> QED BY <3>1, <4>2, <4>3, <4>4, <4>5
    <3>4. j * Order = k3 * Order + (k4 * x) * Order + k5 * Order - k1 * Order - k2 * Order
                        + hk * Order - (hk * k6) * Order
      BY <3>1
    <3>5. hk * s.alpha \in Int /\ hk * Order \in Int /\ (hk * k6) * Order \in Int
          /\ (k4 * x) * Order \in Int /\ x * Sl \in Int /\ x * Sr \in Int
      BY <2>6, <3>1
    <3> HIDE DEF hk, w, j
    <3>6. U[k] = p.A[k] + p.S[k] * x + ZZ + E + hk * (Order - p.mu) + k5 * Order
      BY <2>13 DEF hk
    <3>7. p.A[k] = hk * s.alpha + Al + Ar + k3 * Order
      BY <2>11 DEF hk
    <3>8. Lg = Al + x * Sl + ZZ + k1 * Order /\ Rh = Ar + x * Sr + E + k2 * Order
      BY <2>6, <2>9, <2>10
    <3> QED BY <2>6, <3>1, <3>2, <3>3, <3>4, <3>5, <3>6, <3>7, <3>8
  <2>16. j \in Int
    BY <2>7
  <2> HIDE DEF j
  <2>17. Cg(U[k], Lg + Rh)
    BY <2>15, <2>16 DEF Cg
  <2> QED BY <2>17 DEF Lg, Rh, G, J
<1> QED BY <1>6, <1>13 DEF l, r, hp, U

\* Protocol1 adds the claimed inner product under u.
LEMMA StartRelation ==
  ASSUME NEW k0, NEW m, NEW n \in Nat, NEW s \in Secrets(m, n), NEW p, CommittedTo(p, s),
         NEW y \in 1 .. Order - 1, NEW z \in 1 .. Order - 1, NEW x \in Int, NEW c \in Int,
         p.mu = (s.alpha + s.rho * x) % Order, p.tHat \in Int
  PROVE  /\ StartOf(k0, p, s, n, y, z, x, c) \in Instances(n)
         /\ Relation(StartOf(k0, p, s, n, y, z, x, c), n,
                     p.tHat - Sum(Terms(Lx(s, z, x), Rx(s, y, z, x), n), n))
<1> DEFINE q == StartOf(k0, p, s, n, y, z, x, c)
           U == UpdateP(p, n, x, y, z)
           ux == ScalarMult(u(k0), c)
           uc == ScalarMult(ux, p.tHat)
           P == Add(U, uc)
           l == Lx(s, z, x)
           r == Rx(s, y, z, x)
           hp == GenerateHprime(n, y)
           ip0 == Sum(Terms(l, r, n), n)
<1>0. y \in Int /\ z \in Int
  BY NonZero
<1>1. /\ U \in Points
      /\ \A k \in Generators : Cg(U[k], Sum(Terms(l, At(gVector(n), k, n), n), n)
                                          + Sum(Terms(r, At(hp, k, n), n), n))
  BY UpdatedCommits
<1>2. ux \in Points
  BY GeneratorTypes, ScalarMultIs
<1>3. /\ q.a = l /\ q.b = r /\ q.g = gVector(n) /\ q.h = hp /\ q.P = P /\ q.u = ux
      /\ q = [a |-> l, b |-> r, g |-> gVector(n), h |-> hp, P |-> P, u |-> ux]
  BY DEF StartOf, Protocol1
<1>4. l \in Vectors(n, Int) /\ r \in Vectors(n, Int)
  BY <1>0, LxIs, RxIs
<1>5. gVector(n) \in Vectors(n, Points) /\ hp \in Vectors(n, Points)
  BY GeneratorTypes, HprimeIs
<1> HIDE DEF q, U, ux, l, r, hp
<1>6. uc \in Points /\ \A k \in Generators : Cg(uc[k], ux[k] * p.tHat)
  BY <1>2, ScalarMultIs
<1> HIDE DEF uc
<1>7. P \in Points /\ \A k \in Generators : Cg(P[k], U[k] + uc[k])
  BY <1>1, <1>6, AddIs
<1> HIDE DEF P
<1>8. q \in Instances(n)
  BY <1>2, <1>3, <1>4, <1>5, <1>7 DEF Instances
<1>9. ip0 \in Int
  BY <1>4, TermsAreInts, SumType
<1>10. ASSUME NEW k \in Generators
       PROVE  Cg(P[k], Sum(Terms(l, At(gVector(n), k, n), n), n) + Sum(Terms(r, At(hp, k, n), n), n)
                         + ux[k] * (ip0 + (p.tHat - ip0)))
  <2> DEFINE A == Sum(Terms(l, At(gVector(n), k, n), n), n)
             B == Sum(Terms(r, At(hp, k, n), n), n)
             D == ux[k] * p.tHat
  <2>1. A \in Int /\ B \in Int
    <3>1. At(gVector(n), k, n) \in Vectors(n, Int) /\ At(hp, k, n) \in Vectors(n, Int)
      BY <1>5, AtIs
    <3> QED BY <1>4, <3>1, TermsAreInts, SumType
  <2>2. P[k] \in Int /\ U[k] \in Int /\ uc[k] \in Int /\ ux[k] \in Int
    BY <1>1, <1>2, <1>6, <1>7, PointInt
  <2>3. D \in Int
    BY <2>2
  <2>4. Cg(U[k], A + B) /\ Cg(uc[k], D) /\ Cg(P[k], U[k] + uc[k])
    BY <1>1, <1>6, <1>7
  <2>5. ux[k] * (ip0 + (p.tHat - ip0)) = D
    BY <1>9, <2>2
  <2> HIDE DEF A, B, D
  <2>6. Cg(U[k] + uc[k], (A + B) + D)
    BY <2>1, <2>2, <2>3, <2>4, CgAdd
  <2>7. Cg(P[k], (A + B) + D)
    BY <2>1, <2>2, <2>3, <2>4, <2>6, CgTrans
  <2> QED BY <2>5, <2>7 DEF A, B
<1>11. Relation(q, n, p.tHat - ip0)
  BY <1>3, <1>10 DEF Relation
<1> QED BY <1>8, <1>11 DEF q, l, r

-----------------------------------------------------------------------------
(* What a round does to each generator                                     *)

\* An inverse is unique, and nothing that has one is zero.
LEMMA InverseUnique ==
  ASSUME NEW a \in Int, NEW b \in Int, Cg(a * b, 1)
  PROVE  ~Cg(a, 0) /\ Cg(b, ModInverse(a))
<1>0. Order \in Int
  BY OrderIsPrime
<1>1. ~Cg(a, 0)
  <2>1. SUFFICES ASSUME Cg(a, 0) PROVE FALSE
    OBVIOUS
  <2>2. Cg(a * b, 0 * b)
    <3>1. 0 \in Int /\ Cg(b, b)
      BY CgRefl
    <3> QED BY <2>1, <3>1, CgMul
  <2>3. a * b \in Int /\ 0 * b = 0
    OBVIOUS
  <2>4. Cg(0, 1)
    BY <2>2, <2>3, CgSym, CgTrans
  <2>5. 0 \in Fp /\ 1 \in Fp
    BY OrderIsPrime DEF Fp
  <2> QED BY <2>4, <2>5, CgUnique
<1> DEFINE i == ModInverse(a)
<1>2. i \in Int /\ Cg(a * i, 1)
  BY <1>1, InverseOf, <1>0
<1> HIDE DEF i
<1>3. PICK q \in Int : a * b = 1 + q * Order
  BY DEF Cg
<1>4. PICK r \in Int : a * i = 1 + r * Order
  BY <1>2 DEF Cg
<1>5. (a * b) * i = i + (q * i) * Order
  BY <1>0, <1>2, <1>3
<1>6. (a * i) * b = b + (r * b) * Order
  BY <1>0, <1>4
<1>7. (a * b) * i = (a * i) * b
  BY <1>2
<1>8. b = i + (q * i - r * b) * Order
  <2>1. q * i \in Int /\ r * b \in Int
    BY <1>2
  <2> QED BY <1>0, <1>2, <1>5, <1>6, <1>7, <2>1
<1>9. q * i - r * b \in Int
  BY <1>2
<1> QED BY <1>1, <1>8, <1>9 DEF Cg, i

\* Whether round j moves generator i of 2^K by its challenge.
Moves(i, K, j) == ((i - 1) \div 2^(K - j)) % 2 = 1

Factor(i, xs, K, j) == IF Moves(i, K, j) THEN xs[j] ELSE ModInverse(xs[j])

ScalarStep(i, xs, K) ==
    [j \in 1 .. Len(xs) |-> [s \in Int |-> (s * Factor(i, xs, K, j)) % Order]]

\* What generator i of 2^K was multiplied by in the rounds of xs.
Scalar(i, xs, K) ==
    (CHOOSE p \in [0 .. Len(xs) -> Int] : Recursive(p, Len(xs), 1, ScalarStep(i, xs, K)))[Len(xs)]

Challenges == 1 .. Order - 1

\* A round multiplies a generator by an integer.
LEMMA FactorType ==
  ASSUME NEW i, NEW xs \in Seq(Challenges), NEW K, NEW j \in 1 .. Len(xs)
  PROVE  /\ xs[j] \in Challenges /\ xs[j] \in Int
         /\ ModInverse(xs[j]) \in Challenges /\ ModInverse(xs[j]) \in Int
         /\ Cg(xs[j] * ModInverse(xs[j]), 1)
         /\ Factor(i, xs, K, j) \in Int
<1>1. xs[j] \in Challenges
  OBVIOUS
<1> QED BY <1>1, NonZero, InverseOf, OrderIsPrime DEF Challenges, Factor

\* What the rounds so far made of a generator is the end of a function that
\* goes on by ScalarStep.
LEMMA ScalarIs ==
  ASSUME NEW i, NEW xs \in Seq(Challenges), NEW K
  PROVE  \E p \in [0 .. Len(xs) -> Int] : /\ Recursive(p, Len(xs), 1, ScalarStep(i, xs, K))
                                          /\ Scalar(i, xs, K) = p[Len(xs)]
<1> DEFINE n == Len(xs)
           st == ScalarStep(i, xs, K)
<1>1. n \in Nat /\ 1 \in Int
  OBVIOUS
<1>2. st \in [1 .. n -> [Int -> Int]]
  <2>1. ASSUME NEW j \in 1 .. n, NEW s \in Int PROVE (s * Factor(i, xs, K, j)) % Order \in Int
    <3>1. s * Factor(i, xs, K, j) \in Int
      BY FactorType
    <3> QED BY <3>1, CgMod
  <2> QED BY <2>1 DEF ScalarStep
<1> DEFINE c == CHOOSE p \in [0 .. n -> Int] : Recursive(p, n, 1, st)
<1>3. Scalar(i, xs, K) = c[n]
  BY DEF Scalar
<1> HIDE DEF st, n
<1>4. \E p \in [0 .. n -> Int] : Recursive(p, n, 1, st)
  BY <1>1, <1>2, RecursionExists
<1>5. c \in [0 .. n -> Int] /\ Recursive(c, n, 1, st)
  BY <1>4
<1> HIDE DEF c
<1> QED BY <1>3, <1>5 DEF n, st

\* It is an integer.
LEMMA ScalarType ==
  ASSUME NEW i, NEW xs \in Seq(Challenges), NEW K
  PROVE  Scalar(i, xs, K) \in Int
<1>1. Len(xs) \in Nat
  OBVIOUS
<1> QED BY <1>1, ScalarIs

\* Before the first round it is one.
LEMMA ScalarEmpty == \A i, K : Scalar(i, <<>>, K) = 1
<1> SUFFICES ASSUME NEW i, NEW K PROVE Scalar(i, <<>>, K) = 1
  OBVIOUS
<1>1. <<>> \in Seq(Challenges) /\ Len(<<>>) = 0
  OBVIOUS
<1>2. PICK p \in [0 .. Len(<<>>) -> Int] : /\ Recursive(p, Len(<<>>), 1, ScalarStep(i, <<>>, K))
                                           /\ Scalar(i, <<>>, K) = p[Len(<<>>)]
  BY <1>1, ScalarIs
<1> QED BY <1>1, <1>2 DEF Recursive

\* A round multiplies by its challenge or by the inverse.
LEMMA ScalarAppend ==
  ASSUME NEW i, NEW xs \in Seq(Challenges), NEW K, NEW x \in Challenges
  PROVE  /\ Moves(i, K, Len(xs) + 1) => Cg(Scalar(i, Append(xs, x), K), Scalar(i, xs, K) * x)
         /\ ~Moves(i, K, Len(xs) + 1) =>
               Cg(Scalar(i, Append(xs, x), K), Scalar(i, xs, K) * ModInverse(x))
<1> DEFINE n == Len(xs)
           ys == Append(xs, x)
<1>1. /\ n \in Nat /\ ys \in Seq(Challenges) /\ Len(ys) = n + 1 /\ ys[n + 1] = x
      /\ \A j \in 1 .. n : ys[j] = xs[j]
  OBVIOUS
<1> HIDE DEF ys
<1>2. PICK p \in [0 .. n -> Int] :
          Recursive(p, n, 1, ScalarStep(i, xs, K)) /\ Scalar(i, xs, K) = p[n]
  BY ScalarIs
<1>3. PICK t \in [0 .. n + 1 -> Int] :
          Recursive(t, n + 1, 1, ScalarStep(i, ys, K)) /\ Scalar(i, ys, K) = t[n + 1]
  BY <1>1, ScalarIs
<1>4. ASSUME NEW j \in 1 .. n + 1
      PROVE  t[j - 1] \in Int /\ t[j] = (t[j - 1] * Factor(i, ys, K, j)) % Order
  <2>1. t[j - 1] \in Int /\ t[j] = ScalarStep(i, ys, K)[j][t[j - 1]]
    BY <1>1, <1>3 DEF Recursive
  <2> QED BY <1>1, <2>1 DEF ScalarStep
<1>5. Recursive(t, n, 1, ScalarStep(i, xs, K))
  <2>1. ASSUME NEW j \in 1 .. n PROVE t[j] = ScalarStep(i, xs, K)[j][t[j - 1]]
    <3>1. t[j - 1] \in Int /\ t[j] = (t[j - 1] * Factor(i, ys, K, j)) % Order
      BY <1>1, <1>4
    <3>2. Factor(i, ys, K, j) = Factor(i, xs, K, j)
      BY <1>1 DEF Factor
    <3> QED BY <3>1, <3>2 DEF ScalarStep
  <2>2. t[0] = 1
    BY <1>3 DEF Recursive
  <2> QED BY <2>1, <2>2 DEF Recursive
<1>6. t[n] = p[n]
  BY <1>1, <1>2, <1>5, RecursionUnique
<1>7. Scalar(i, ys, K) = (Scalar(i, xs, K) * Factor(i, ys, K, n + 1)) % Order
  BY <1>1, <1>2, <1>3, <1>4, <1>6
<1>8. Cg(Scalar(i, ys, K), Scalar(i, xs, K) * Factor(i, ys, K, n + 1))
  <2>1. n + 1 \in 1 .. Len(ys)
    BY <1>1
  <2>2. Scalar(i, xs, K) * Factor(i, ys, K, n + 1) \in Int
    BY <1>1, <2>1, FactorType, ScalarType
  <2> QED BY <1>7, <2>2, CgMod
<1> QED BY <1>1, <1>8 DEF Factor, ys

\* No such product is zero.
LEMMA ScalarInvertible ==
  ASSUME NEW i, NEW xs \in Seq(Challenges), NEW K
  PROVE  ~Cg(Scalar(i, xs, K), 0)
<1> DEFINE n == Len(xs)
<1>1. n \in Nat
  OBVIOUS
<1>2. PICK p \in [0 .. n -> Int] :
          Recursive(p, n, 1, ScalarStep(i, xs, K)) /\ Scalar(i, xs, K) = p[n]
  BY ScalarIs
<1> HIDE DEF n
<1> DEFINE T == {k \in Nat : k <= n => ~Cg(p[k], 0)}
<1>3. 0 \in T
  <2>1. p[0] = 1
    BY <1>2 DEF Recursive
  <2>2. 1 \in 1 .. Order - 1
    BY OrderIsPrime
  <2> QED BY <2>1, <2>2, NonZero
<1>4. ASSUME NEW k \in T PROVE k + 1 \in T
  <2> SUFFICES ASSUME k + 1 <= n, Cg(p[k + 1], 0) PROVE FALSE
    OBVIOUS
  <2> DEFINE f == Factor(i, xs, K, k + 1)
  <2>1. k + 1 \in 1 .. n /\ k \in 0 .. n
    BY <1>1
  <2>2. p[k] \in Int /\ p[k + 1] \in Int /\ p[k + 1] = ScalarStep(i, xs, K)[k + 1][p[k]]
    BY <1>2, <2>1 DEF Recursive
  <2>3. p[k + 1] = (p[k] * f) % Order
    BY <2>1, <2>2 DEF ScalarStep, n
  <2>4. f \in Int /\ ~Cg(f, 0)
    <3>1. /\ xs[k + 1] \in Challenges /\ ModInverse(xs[k + 1]) \in Challenges
          /\ f \in Int
      BY <2>1, FactorType DEF n
    <3>2. f \in Challenges
      BY <3>1 DEF Factor
    <3> QED BY <3>1, <3>2, NonZero DEF Challenges
  <2>5. ~Cg(p[k], 0)
    BY <2>1
  <2> HIDE DEF f, T
  <2>6. p[k] * f \in Int
    BY <2>2, <2>4
  <2>7. Cg(p[k] * f, p[k + 1])
    <3>1. Cg(p[k + 1], p[k] * f)
      BY <2>3, <2>6, CgMod
    <3> QED BY <2>2, <2>6, <3>1, CgSym
  <2>8. Cg(p[k] * f, 0)
    BY <2>2, <2>6, <2>7, CgTrans
  <2> QED BY <2>2, <2>4, <2>5, <2>8, NoZeroDivisor
<1>5. T \subseteq Nat
  OBVIOUS
<1> HIDE DEF T
<1>6. n \in T
  BY <1>1, <1>3, <1>4, <1>5, Induction
<1> QED BY <1>2, <1>6 DEF T

\* The verifier's scalar is that of as many rounds as the vectors have bits.
LEMMA sVectorIs ==
  ASSUME NEW i \in Nat \ {0}, NEW xs \in Seq(Challenges)
  PROVE  sVector(i, xs) = Scalar(i, xs, Len(xs))
<1> DEFINE n == Len(xs)
           F(j) == IF Bij(i, n + 1 - j) THEN xs[j] ELSE ModInverse(xs[j])
           Is(s) == s = [j \in 0 .. n |-> IF j = 0 THEN 1 ELSE (s[j - 1] * F(j)) % Order]
           c == CHOOSE s : Is(s)
<1>1. n \in Nat
  OBVIOUS
<1>2. PICK p \in [0 .. n -> Int] :
          Recursive(p, n, 1, ScalarStep(i, xs, n)) /\ Scalar(i, xs, n) = p[n]
  BY ScalarIs
<1>3. \A j \in 1 .. n : F(j) = Factor(i, xs, n, j)
  <2>1. \A j \in 1 .. n : (n + 1 - j) - 1 = n - j
    BY <1>1
  <2> QED BY <2>1 DEF Factor, Bij, Moves
<1>4. sVector(i, xs) = c[n]
  BY DEF sVector
<1>5. Is(p)
  <2>1. ASSUME NEW j \in 1 .. n PROVE p[j] = (p[j - 1] * Factor(i, xs, n, j)) % Order
    <3>1. p[j - 1] \in Int /\ p[j] = ScalarStep(i, xs, n)[j][p[j - 1]]
      BY <1>1, <1>2 DEF Recursive
    <3> QED BY <3>1 DEF ScalarStep
  <2>2. p[0] = 1 /\ DOMAIN p = 0 .. n
    BY <1>2 DEF Recursive
  <2>3. \A j \in 1 .. n : p[j] = (p[j - 1] * F(j)) % Order
    BY <2>1, <1>3
  <2> HIDE DEF F
  <2>4. p = [j \in 0 .. n |-> IF j = 0 THEN 1 ELSE (p[j - 1] * F(j)) % Order]
    BY <1>1, <1>2, <2>2, <2>3
  <2> QED BY <2>4
<1>6. Is(c)
  <2> HIDE DEF Is
  <2> QED BY <1>5
<1> HIDE DEF c, F, n
<1>7. \A k \in Nat : k <= n => c[k] = p[k]
  <2> DEFINE T == {k \in Nat : k <= n => c[k] = p[k]}
  <2>1. 0 \in T
    BY <1>1, <1>5, <1>6
  <2>2. ASSUME NEW k \in T PROVE k + 1 \in T
    <3> SUFFICES ASSUME k + 1 <= n PROVE c[k + 1] = p[k + 1]
      OBVIOUS
    <3>1. k + 1 \in 0 .. n /\ k + 1 # 0 /\ (k + 1) - 1 = k
      BY <1>1
    <3>2. c[k + 1] = (c[(k + 1) - 1] * F(k + 1)) % Order
      BY <1>6, <3>1
    <3>3. p[k + 1] = (p[(k + 1) - 1] * F(k + 1)) % Order
      BY <1>5, <3>1
    <3>4. c[k] = p[k]
      BY <1>1, <3>1
    <3> QED BY <3>1, <3>2, <3>3, <3>4
  <2>3. T \subseteq Nat
    OBVIOUS
  <2> HIDE DEF T
  <2>4. \A k \in Nat : k \in T
    BY <2>1, <2>2, <2>3, Induction
  <2> QED BY <2>4 DEF T
<1> QED BY <1>1, <1>2, <1>4, <1>7 DEF n

\* The inverse of a product is the product of the inverses.
LEMMA InverseOfProduct ==
  ASSUME NEW a \in Int, NEW b \in Int, NEW ia \in Int, NEW ib \in Int, NEW c \in Int,
         Cg(a * ia, 1), Cg(b * ib, 1), Cg(c, a * b)
  PROVE  Cg(ModInverse(c), ia * ib) /\ ~Cg(c, 0)
<1>0. Order \in Int
  BY OrderIsPrime
<1>1. /\ ia * ib \in Int /\ a * b \in Int /\ (a * ia) * (b * ib) \in Int /\ c * (ia * ib) \in Int
      /\ a * ia \in Int /\ b * ib \in Int
  OBVIOUS
<1>2. Cg(c * (ia * ib), (a * b) * (ia * ib))
  <2>1. Cg(ia * ib, ia * ib)
    BY <1>1, CgRefl
  <2> QED BY <1>1, <2>1, CgMul
<1>3. (a * b) * (ia * ib) = (a * ia) * (b * ib)
  OBVIOUS
<1>4. Cg((a * ia) * (b * ib), 1)
  <2>1. Cg((a * ia) * (b * ib), 1 * 1)
    BY <1>1, CgMul
  <2> QED BY <2>1
<1>5. Cg(c * (ia * ib), 1)
  BY <1>1, <1>2, <1>3, <1>4, CgTrans
<1>6. ~Cg(c, 0) /\ Cg(ia * ib, ModInverse(c))
  BY <1>1, <1>5, InverseUnique
<1>7. ModInverse(c) \in Int
  BY <1>6, <1>0, InverseOf
<1> QED BY <1>1, <1>6, <1>7, CgSym

\* Quotient and remainder are unique.
LEMMA QuotientUnique ==
  ASSUME NEW d \in Nat \ {0}, NEW q \in Int, NEW r \in 0 .. d - 1
  PROVE  (d * q + r) % d = r /\ (d * q + r) \div d = q
<1> DEFINE a == d * q + r
<1>1. /\ a \in Int /\ a \div d \in Int /\ a % d \in 0 .. d - 1
      /\ a = d * (a \div d) + (a % d)
  BY DivisionBounds
<1> DEFINE q1 == a \div d
           r1 == a % d
<1>2. d * (q1 - q) = r - r1
  BY <1>1
<1>3. q1 = q
  <2>1. CASE q1 - q >= 1
    <3>1. d * (q1 - q) >= d
      BY <2>1, <1>1
    <3> QED BY <3>1, <1>1, <1>2
  <2>2. CASE q1 - q <= -1
    <3>1. d * (q1 - q) <= -d
      BY <2>2, <1>1
    <3> QED BY <3>1, <1>1, <1>2
  <2> QED BY <2>1, <2>2, <1>1
<1> QED BY <1>1, <1>2, <1>3

\* A number modulo 2l, and its half.
LEMMA HalfMod ==
  ASSUME NEW l \in Nat \ {0}, NEW a \in Nat
  PROVE  /\ a % (l + l) \in 0 .. l + l - 1 /\ a % l \in 0 .. l - 1
         /\ (a \div l) % 2 = 1 => a % (l + l) = (a % l) + l
         /\ (a \div l) % 2 # 1 => a % (l + l) = a % l
<1> DEFINE q == a \div l
           r == a % l
           p == q \div 2
           b == q % 2
<1>1. q \in Int /\ r \in 0 .. l - 1 /\ a = l * q + r
  BY DivisionBounds
<1> HIDE DEF q, r
<1>2. p \in Int /\ b \in 0 .. 1 /\ q = 2 * p + b
  BY <1>1
<1> HIDE DEF p, b
<1>3. l + l \in Nat \ {0}
  OBVIOUS
<1>4. a % (l + l) \in 0 .. l + l - 1
  BY <1>3, DivisionBounds
<1>5. CASE b = 1
  <2>1. a = (l + l) * p + (r + l)
    BY <1>1, <1>2, <1>5
  <2>2. r + l \in 0 .. (l + l) - 1
    BY <1>1
  <2>3. a % (l + l) = r + l
    BY <1>2, <1>3, <2>1, <2>2, QuotientUnique
  <2> QED BY <1>1, <1>4, <1>5, <2>3 DEF b, r, q
<1>6. CASE b = 0
  <2>1. a = (l + l) * p + r
    BY <1>1, <1>2, <1>6
  <2>2. r \in 0 .. (l + l) - 1
    BY <1>1
  <2>3. a % (l + l) = r
    BY <1>2, <1>3, <2>1, <2>2, QuotientUnique
  <2> QED BY <1>1, <1>4, <1>6, <2>3 DEF b, r, q
<1> QED BY <1>2, <1>5, <1>6

-----------------------------------------------------------------------------
(* Where the generators are after some rounds                              *)

\* Of l points, generator i of n is in the one its number modulo l names,
\* multiplied by w[i], and there is nothing else in any of them.
Spread(q, name, w, l, n) ==
    \A j \in 1 .. l :
       /\ \A i \in 1 .. n : /\ (i - 1) % l = j - 1 => Cg(q[j][<<name, i>>], w[i])
                            /\ (i - 1) % l # j - 1 => Cg(q[j][<<name, i>>], 0)
       /\ \A k \in Generators : (\A i \in 1 .. n : k # <<name, i>>) => Cg(q[j][k], 0)

\* Every element of the vectors of generators is a generator.
LEMMA VectorGenerators ==
  ASSUME NEW name \in {"gVector", "hVector"}, NEW i \in 1 .. 2 * N
  PROVE  <<name, i>> \in Generators
BY DEF Generators

\* A round spreads the challenge and its inverse over the generators by the bit
\* that tells the halves apart.
LEMMA SpreadFold ==
  ASSUME NEW l \in Nat \ {0}, NEW n \in 1 .. 2 * N, NEW name \in {"gVector", "hVector"},
         NEW q \in Vectors(l + l, Points), NEW w \in Vectors(n, Int), Spread(q, name, w, l + l, n),
         NEW s1 \in Int, NEW s2 \in Int,
         NEW q1 \in Vectors(l, Points), NEW w1 \in Vectors(n, Int),
         \A j \in 1 .. l, k \in Generators : Cg(q1[j][k], q[j][k] * s1 + q[l + j][k] * s2),
         \A i \in 1 .. n : /\ ((i - 1) \div l) % 2 = 1 => Cg(w1[i], w[i] * s2)
                           /\ ((i - 1) \div l) % 2 # 1 => Cg(w1[i], w[i] * s1)
  PROVE  Spread(q1, name, w1, l, n)
<1>0. n \in Nat /\ N \in Nat
  BY NIsNat
<1>1. ASSUME NEW j \in 1 .. l, NEW k \in Generators
      PROVE  /\ q[j][k] \in Int /\ q[l + j][k] \in Int /\ q1[j][k] \in Int
             /\ Cg(q1[j][k], q[j][k] * s1 + q[l + j][k] * s2)
  <2>1. j \in 1 .. l + l /\ l + j \in 1 .. l + l
    OBVIOUS
  <2>2. q[j] \in Points /\ q[l + j] \in Points /\ q1[j] \in Points
    BY <2>1 DEF Vectors
  <2> QED BY <2>2, PointInt
<1>2. ASSUME NEW j \in 1 .. l, NEW k \in Generators, NEW a \in Int, NEW b \in Int,
             Cg(q[j][k], a), Cg(q[l + j][k], b)
      PROVE  Cg(q1[j][k], a * s1 + b * s2)
  <2>1. /\ q[j][k] \in Int /\ q[l + j][k] \in Int /\ q1[j][k] \in Int
        /\ Cg(q1[j][k], q[j][k] * s1 + q[l + j][k] * s2)
    BY <1>1
  <2>2. /\ q[j][k] * s1 \in Int /\ q[l + j][k] * s2 \in Int /\ a * s1 \in Int /\ b * s2 \in Int
        /\ Cg(s1, s1) /\ Cg(s2, s2)
    BY <2>1, CgRefl
  <2>3. Cg(q[j][k] * s1, a * s1) /\ Cg(q[l + j][k] * s2, b * s2)
    BY <1>2, <2>1, <2>2, CgMul
  <2>4. Cg(q[j][k] * s1 + q[l + j][k] * s2, a * s1 + b * s2)
    BY <2>2, <2>3, CgAdd
  <2>5. q[j][k] * s1 + q[l + j][k] * s2 \in Int /\ a * s1 + b * s2 \in Int
    BY <2>2
  <2> QED BY <2>1, <2>4, <2>5, CgTrans
<1>3. ASSUME NEW j \in 1 .. l, NEW i \in 1 .. n
      PROVE  /\ (i - 1) % l = j - 1 => Cg(q1[j][<<name, i>>], w1[i])
             /\ (i - 1) % l # j - 1 => Cg(q1[j][<<name, i>>], 0)
  <2> DEFINE k == <<name, i>>
             m == (i - 1) % (l + l)
             r == (i - 1) % l
  <2>1. k \in Generators
    <3>1. i \in 1 .. 2 * N
      BY <1>0
    <3> QED BY <3>1, VectorGenerators
  <2>2. /\ m \in 0 .. l + l - 1 /\ r \in 0 .. l - 1
        /\ ((i - 1) \div l) % 2 = 1 => m = r + l
        /\ ((i - 1) \div l) % 2 # 1 => m = r
    <3>1. i - 1 \in Nat
      OBVIOUS
    <3> QED BY <3>1, HalfMod
  <2>3. /\ m = j - 1 => Cg(q[j][k], w[i])
        /\ m # j - 1 => Cg(q[j][k], 0)
        /\ m = (l + j) - 1 => Cg(q[l + j][k], w[i])
        /\ m # (l + j) - 1 => Cg(q[l + j][k], 0)
    <3>1. j \in 1 .. l + l /\ l + j \in 1 .. l + l
      OBVIOUS
    <3> QED BY <3>1 DEF Spread
  <2>4. w[i] \in Int /\ w1[i] \in Int /\ q1[j][k] \in Int
    BY <1>1, <2>1 DEF Vectors
  <2>5. \/ ((i - 1) \div l) % 2 = 1 /\ m = r + l /\ Cg(w1[i], w[i] * s2)
        \/ ((i - 1) \div l) % 2 # 1 /\ m = r /\ Cg(w1[i], w[i] * s1)
    BY <2>2
  <2> HIDE DEF k, m, r
  <2>6. CASE r # j - 1
    <3>1. m # j - 1 /\ m # (l + j) - 1
      BY <2>2, <2>5, <2>6
    <3>2. Cg(q1[j][k], 0 * s1 + 0 * s2)
      BY <1>2, <2>1, <2>3, <3>1
    <3>3. 0 * s1 + 0 * s2 = 0
      OBVIOUS
    <3> QED BY <2>6, <3>2, <3>3 DEF k, r
  <2>7. CASE r = j - 1 /\ m = r + l
    <3>1. m # j - 1 /\ m = (l + j) - 1
      BY <2>2, <2>7
    <3>2. Cg(q1[j][k], 0 * s1 + w[i] * s2)
      BY <1>2, <2>1, <2>3, <2>4, <3>1
    <3>3. 0 * s1 + w[i] * s2 = w[i] * s2 /\ w[i] * s2 \in Int
      BY <2>4
    <3>4. Cg(w1[i], w[i] * s2)
      BY <2>2, <2>5, <2>7
    <3>5. Cg(q1[j][k], w1[i])
      BY <2>4, <3>2, <3>3, <3>4, CgSym, CgTrans
    <3> QED BY <2>7, <3>5 DEF k, r
  <2>8. CASE r = j - 1 /\ m = r
    <3>1. m = j - 1 /\ m # (l + j) - 1
      BY <2>2, <2>8
    <3>2. Cg(q1[j][k], w[i] * s1 + 0 * s2)
      BY <1>2, <2>1, <2>3, <2>4, <3>1
    <3>3. w[i] * s1 + 0 * s2 = w[i] * s1 /\ w[i] * s1 \in Int
      BY <2>4
    <3>4. Cg(w1[i], w[i] * s1)
      BY <2>2, <2>5, <2>8
    <3>5. Cg(q1[j][k], w1[i])
      BY <2>4, <3>2, <3>3, <3>4, CgSym, CgTrans
    <3> QED BY <2>8, <3>5 DEF k, r
  <2> QED BY <2>5, <2>6, <2>7, <2>8
<1>4. ASSUME NEW j \in 1 .. l, NEW k \in Generators, \A i \in 1 .. n : k # <<name, i>>
      PROVE  Cg(q1[j][k], 0)
  <2>1. j \in 1 .. l + l /\ l + j \in 1 .. l + l
    OBVIOUS
  <2>2. Cg(q[j][k], 0) /\ Cg(q[l + j][k], 0)
    BY <1>4, <2>1 DEF Spread
  <2>3. Cg(q1[j][k], 0 * s1 + 0 * s2)
    BY <1>2, <2>2
  <2>4. 0 * s1 + 0 * s2 = 0
    OBVIOUS
  <2> QED BY <2>3, <2>4
<1> QED BY <1>3, <1>4 DEF Spread

GScalars(xs, K, n) == [i \in 1 .. n |-> Scalar(i, xs, K)]
HScalars(xs, K, n, y) ==
    [i \in 1 .. n |-> ModInverse(Scalar(i, xs, K)) * Pow(ModInverse(y), i - 1)]

\* The scalars of both vectors of generators are integers.
LEMMA ScalarsType ==
  ASSUME NEW xs \in Seq(Challenges), NEW K, NEW n \in Nat, NEW y \in Challenges
  PROVE  /\ GScalars(xs, K, n) \in Vectors(n, Int) /\ HScalars(xs, K, n, y) \in Vectors(n, Int)
         /\ \A i \in 1 .. n : /\ ModInverse(Scalar(i, xs, K)) \in Int
                              /\ Pow(ModInverse(y), i - 1) \in Int
                              /\ Cg(Scalar(i, xs, K) * ModInverse(Scalar(i, xs, K)), 1)
<1>0. Order \in Int
  BY OrderIsPrime
<1>1. ModInverse(y) \in Int
  BY <1>0, NonZero, InverseOf DEF Challenges
<1>2. ASSUME NEW i \in 1 .. n
      PROVE  /\ Scalar(i, xs, K) \in Int
             /\ ModInverse(Scalar(i, xs, K)) \in Int
             /\ Pow(ModInverse(y), i - 1) \in Int
             /\ Cg(Scalar(i, xs, K) * ModInverse(Scalar(i, xs, K)), 1)
             /\ ModInverse(Scalar(i, xs, K)) * Pow(ModInverse(y), i - 1) \in Int
  <2>1. Scalar(i, xs, K) \in Int /\ ~Cg(Scalar(i, xs, K), 0)
    BY ScalarType, ScalarInvertible
  <2>2. /\ ModInverse(Scalar(i, xs, K)) \in Int
        /\ Cg(Scalar(i, xs, K) * ModInverse(Scalar(i, xs, K)), 1)
    BY <1>0, <2>1, InverseOf
  <2>3. i - 1 \in Nat
    OBVIOUS
  <2>4. Pow(ModInverse(y), i - 1) \in Int
    BY <1>1, <2>3, PowNext
  <2> QED BY <2>1, <2>2, <2>4
<1> QED BY <1>2 DEF GScalars, HScalars, Vectors

\* Before the first round every generator is where it was.
LEMMA SpreadStart ==
  ASSUME NEW n \in 1 .. 2 * N, NEW y \in Challenges, NEW K
  PROVE  /\ Spread(gVector(n), "gVector", GScalars(<<>>, K, n), n, n)
         /\ Spread(GenerateHprime(n, y), "hVector", HScalars(<<>>, K, n, y), n, n)
<1>0. n \in Nat /\ n > 0 /\ N \in Nat /\ Order \in Int /\ <<>> \in Seq(Challenges)
  BY NIsNat, OrderIsPrime
<1>1. \A i \in 1 .. n : (i - 1) % n = i - 1
  <2>1. ASSUME NEW i \in 1 .. n PROVE (i - 1) % n = i - 1
    <3>1. n \in Nat \ {0} /\ i - 1 \in 0 .. n - 1 /\ n * 0 + (i - 1) = i - 1
      BY <1>0
    <3>2. (n * 0 + (i - 1)) % n = i - 1
      BY <3>1, QuotientUnique
    <3> QED BY <3>1, <3>2
  <2> QED BY <2>1
<1>2. ASSUME NEW name, NEW j \in 1 .. n
      PROVE  /\ \A i \in 1 .. n : <<name, i>> \in Generators =>
                  Generator(name, j)[<<name, i>>] = IF i = j THEN 1 ELSE 0
             /\ \A k \in Generators : (\A i \in 1 .. n : k # <<name, i>>) =>
                   Generator(name, j)[k] = 0
  BY DEF Generator, Infinity
<1>3. \A i \in 1 .. n : <<"gVector", i>> \in Generators /\ <<"hVector", i>> \in Generators
  <2>1. \A i \in 1 .. n : i \in 1 .. 2 * N
    BY <1>0
  <2> QED BY <2>1, VectorGenerators
<1>4. Spread(gVector(n), "gVector", GScalars(<<>>, K, n), n, n)
  <2>1. ASSUME NEW j \in 1 .. n, NEW i \in 1 .. n
        PROVE  /\ (i - 1) % n = j - 1 =>
                    Cg(gVector(n)[j][<<"gVector", i>>], GScalars(<<>>, K, n)[i])
               /\ (i - 1) % n # j - 1 => Cg(gVector(n)[j][<<"gVector", i>>], 0)
    <3>1. gVector(n)[j][<<"gVector", i>>] = IF i = j THEN 1 ELSE 0
      BY <1>2, <1>3 DEF gVector
    <3>2. GScalars(<<>>, K, n)[i] = 1
      BY ScalarEmpty DEF GScalars
    <3>3. Cg(1, 1) /\ Cg(0, 0)
      BY CgRefl
    <3>4. (i - 1) % n = j - 1 <=> i = j
      BY <1>1
    <3> QED BY <3>1, <3>2, <3>3, <3>4
  <2>2. ASSUME NEW j \in 1 .. n, NEW k \in Generators, \A i \in 1 .. n : k # <<"gVector", i>>
        PROVE  Cg(gVector(n)[j][k], 0)
    <3>1. gVector(n)[j][k] = 0
      BY <1>2, <2>2 DEF gVector
    <3> QED BY <3>1, CgRefl
  <2> QED BY <2>1, <2>2 DEF Spread
<1>5. Spread(GenerateHprime(n, y), "hVector", HScalars(<<>>, K, n, y), n, n)
  <2> DEFINE H == GenerateHprime(n, y)
             yi == ModInverse(y)
  <2>1. /\ H \in Vectors(n, Points)
        /\ \A j \in 1 .. n, k \in Generators : Cg(H[j][k], hVector(n)[j][k] * Pow(yi, j - 1))
    BY <1>0, HprimeIs DEF Challenges
  <2>2. \A j \in 1 .. n : Pow(yi, j - 1) \in Int
    BY <1>0, ScalarsType
  <2> HIDE DEF H, yi
  <2>3. ASSUME NEW j \in 1 .. n, NEW k \in Generators PROVE H[j][k] \in Int
    <3>1. H[j] \in Points
      BY <2>1 DEF Vectors
    <3> QED BY <3>1, PointInt
  <2>4. ASSUME NEW j \in 1 .. n, NEW i \in 1 .. n
        PROVE  /\ (i - 1) % n = j - 1 =>
                    Cg(H[j][<<"hVector", i>>], HScalars(<<>>, K, n, y)[i])
               /\ (i - 1) % n # j - 1 => Cg(H[j][<<"hVector", i>>], 0)
    <3> DEFINE a == H[j][<<"hVector", i>>]
    <3>1. hVector(n)[j][<<"hVector", i>>] = IF i = j THEN 1 ELSE 0
      BY <1>2, <1>3 DEF hVector
    <3>2. Cg(a, hVector(n)[j][<<"hVector", i>>] * Pow(yi, j - 1)) /\ a \in Int
      BY <1>3, <2>1, <2>3
    <3> HIDE DEF a
    <3>3. (i - 1) % n = j - 1 <=> i = j
      BY <1>1
    <3>4. CASE i = j
      <4> DEFINE p == Pow(yi, j - 1)
                 o == ModInverse(1)
      <4>1. p \in Int
        BY <2>2
      <4>2. Cg(a, p)
        BY <3>1, <3>2, <3>4, <4>1
      <4>3. HScalars(<<>>, K, n, y)[i] = o * p
        BY <3>4, ScalarEmpty DEF HScalars, yi
      <4>4. o \in Int /\ Cg(1 * o, 1)
        <5>1. Scalar(i, <<>>, K) = 1
          BY ScalarEmpty
        <5> QED BY <1>0, <5>1, ScalarsType
      <4> HIDE DEF o, p
      <4>5. Cg(o, 1)
        BY <4>4
      <4>6. Cg(o * p, 1 * p)
        <5>1. Cg(p, p) /\ 1 \in Int
          BY <4>1, CgRefl
        <5> QED BY <4>1, <4>4, <4>5, <5>1, CgMul
      <4>7. 1 * p = p /\ o * p \in Int
        BY <4>1, <4>4
      <4>8. Cg(p, o * p)
        BY <4>1, <4>6, <4>7, CgSym
      <4>9. Cg(a, o * p)
        BY <3>2, <4>1, <4>2, <4>7, <4>8, CgTrans
      <4> QED BY <3>3, <3>4, <4>3, <4>9 DEF a
    <3>5. CASE i # j
      <4>1. 0 * Pow(yi, j - 1) = 0
        BY <2>2
      <4> QED BY <3>1, <3>2, <3>3, <3>5, <4>1 DEF a
    <3> QED BY <3>4, <3>5
  <2>5. ASSUME NEW j \in 1 .. n, NEW k \in Generators, \A i \in 1 .. n : k # <<"hVector", i>>
        PROVE  Cg(H[j][k], 0)
    <3>1. hVector(n)[j][k] = 0
      BY <1>2, <2>5 DEF hVector
    <3>2. Cg(H[j][k], 0 * Pow(yi, j - 1))
      BY <2>1, <3>1
    <3>3. 0 * Pow(yi, j - 1) = 0
      BY <2>2
    <3> QED BY <3>2, <3>3
  <2> QED BY <2>4, <2>5 DEF Spread, H
<1> QED BY <1>4, <1>5

-----------------------------------------------------------------------------
(* The state of the rounds                                                 *)

\* The number of rounds that vectors of n elements take.
LogOf(n) == CHOOSE K \in Nat : 2^K = n

\* The length of the vectors is a power of two.
LEMMA LogIs ==
  ASSUME NEW m \in {1, 2}
  PROVE  /\ LogOf(N * m) \in Nat /\ 2^LogOf(N * m) = N * m
         /\ N * m \in Nat /\ N * m >= 2 /\ N * m \in 1 .. 2 * N
<1>1. /\ 2^1 = 2 /\ 2^2 = 4 /\ 2^3 = 8 /\ 2^4 = 16 /\ 2^5 = 32 /\ 2^6 = 64
  <2>1. 2^(0 + 1) = 2 * 2^0
    BY TwoNext
  <2>2. 2^(1 + 1) = 2 * 2^1
    BY TwoNext
  <2>3. 2^(2 + 1) = 2 * 2^2
    BY TwoNext
  <2>4. 2^(3 + 1) = 2 * 2^3
    BY TwoNext
  <2>5. 2^(4 + 1) = 2 * 2^4
    BY TwoNext
  <2>6. 2^(5 + 1) = 2 * 2^5
    BY TwoNext
  <2> QED BY <2>1, <2>2, <2>3, <2>4, <2>5, <2>6, TwoZero
<1>2. N * m \in {2, 4, 8, 16, 32, 64}
  BY Parameters
<1>3. \E K \in Nat : 2^K = N * m
  BY <1>1, <1>2
<1>4. N * m \in 1 .. 2 * N
  BY NIsNat
<1>5. N * m \in Nat /\ N * m >= 2
  BY <1>2
<1> DEFINE n == N * m
<1> HIDE DEF n
<1>6. \E K \in Nat : 2^K = n
  BY <1>3 DEF n
<1>7. LogOf(n) \in Nat /\ 2^LogOf(n) = n
  BY <1>6 DEF LogOf
<1> QED BY <1>4, <1>5, <1>7 DEF n

Excess(p, s, n, c) ==
    p.tHat - Sum(Terms(Lx(s, c.z, c.x), Rx(s, c.y, c.z, c.x), n), n)

Start(k0, p, s, n, c) == StartOf(k0, p, s, n, c.y, c.z, c.x, c.c)

Squares(xs) == [j \in 1 .. Len(xs) |-> (xs[j] * xs[j]) % Order]
InverseSquares(xs) == [j \in 1 .. Len(xs) |-> ModInverse(Squares(xs)[j])]

\* The point of the round is that of the start and what L and R brought.
Transcript(q, st, p, xs) ==
    LET r == Len(xs)
    IN  \A k \in Generators :
           Cg(q.P[k], st.P[k] + Sum(Terms(Squares(xs), At(p.LS, k, r), r), r)
                         + Sum(Terms(InverseSquares(xs), At(p.RS, k, r), r), r))

\* The squares of the challenges and their inverses ...
LEMMA SquareIs ==
  ASSUME NEW xs \in Seq(Challenges), NEW j \in 1 .. Len(xs)
  PROVE  /\ Squares(xs)[j] \in Int /\ Cg(Squares(xs)[j], xs[j] * xs[j])
         /\ InverseSquares(xs)[j] \in Int
         /\ Cg(InverseSquares(xs)[j], ModInverse(xs[j]) * ModInverse(xs[j]))
<1> DEFINE x == xs[j]
           t == ModInverse(x)
           s == (x * x) % Order
<1>0. Order \in Int
  BY OrderIsPrime
<1>1. x \in Int /\ t \in Int /\ Cg(x * t, 1)
  BY FactorType
<1>2. Squares(xs)[j] = s /\ InverseSquares(xs)[j] = ModInverse(s)
  BY DEF Squares, InverseSquares
<1> HIDE DEF x, t
<1>3. x * x \in Int
  BY <1>1
<1>4. s \in Int /\ Cg(s, x * x)
  BY <1>3, CgMod
<1> HIDE DEF s
<1>5. Cg(ModInverse(s), t * t) /\ ~Cg(s, 0)
  BY <1>1, <1>4, InverseOfProduct
<1>6. ModInverse(s) \in Int
  BY <1>0, <1>4, <1>5, InverseOf
<1> QED BY <1>2, <1>4, <1>5, <1>6 DEF x, t

\* ... are integers.
LEMMA SquaresType ==
  ASSUME NEW xs \in Seq(Challenges)
  PROVE  Squares(xs) \in Vectors(Len(xs), Int) /\ InverseSquares(xs) \in Vectors(Len(xs), Int)
<1>1. \A j \in 1 .. Len(xs) : Squares(xs)[j] \in Int /\ InverseSquares(xs)[j] \in Int
  BY SquareIs
<1>2. /\ Squares(xs) = [j \in 1 .. Len(xs) |-> Squares(xs)[j]]
      /\ InverseSquares(xs) = [j \in 1 .. Len(xs) |-> InverseSquares(xs)[j]]
  BY DEF Squares, InverseSquares
<1> HIDE DEF Squares, InverseSquares
<1> QED BY <1>1, <1>2 DEF Vectors

\* A sum over one element more.
LEMMA TermsAppend ==
  ASSUME NEW n \in Nat, NEW a \in Vectors(n, Int), NEW b \in Vectors(n, Int),
         NEW a1 \in Vectors(n + 1, Int), NEW b1 \in Vectors(n + 1, Int),
         \A i \in 1 .. n : a1[i] = a[i] /\ b1[i] = b[i]
  PROVE  /\ Sum(Terms(a, b, n), n) \in Int /\ Sum(Terms(a1, b1, n + 1), n + 1) \in Int
         /\ Cg(Sum(Terms(a1, b1, n + 1), n + 1), Sum(Terms(a, b, n), n) + a1[n + 1] * b1[n + 1])
<1> DEFINE f == Terms(a, b, n)
           f1 == Terms(a1, b1, n + 1)
<1>1. Ints(f, n) /\ \A i \in 1 .. n : f[i] = a[i] * b[i]
  BY TermsAreInts
<1>2. Ints(f1, n + 1) /\ \A i \in 1 .. n + 1 : f1[i] = a1[i] * b1[i]
  BY TermsAreInts
<1> HIDE DEF f, f1
<1>3. \A i \in 1 .. n : f1[i] = f[i]
  BY <1>1, <1>2
<1>4. Ints(f1, n)
  BY <1>2 DEF Ints
<1>5. \A i \in 1 .. n : Cg(f1[i], f[i])
  BY <1>1, <1>3, CgRefl DEF Ints
<1>6. Sum(f1, n) = Sum(f, n)
  BY <1>1, <1>4, <1>5, SumCongruent
<1>7. Sum(f1, n + 1) = (Sum(f, n) + f1[n + 1]) % Order
  BY <1>2, <1>6, SumNext
<1>8. Sum(f, n) \in Int /\ f1[n + 1] \in Int /\ f1[n + 1] = a1[n + 1] * b1[n + 1]
  BY <1>1, <1>2, SumType DEF Ints
<1>9. Sum(f1, n + 1) \in Int
  <2>1. n + 1 \in Nat
    OBVIOUS
  <2> QED BY <1>2, <2>1, SumType
<1>10. Cg(Sum(f1, n + 1), Sum(f, n) + f1[n + 1])
  BY <1>7, <1>8, CgMod
<1> QED BY <1>8, <1>9, <1>10 DEF f, f1

\* Before the first round nothing was sent.
LEMMA TranscriptStart ==
  ASSUME NEW q, NEW st, q.P = st.P, st.P \in Points, NEW p, p.LS = <<>>, p.RS = <<>>
  PROVE  Transcript(q, st, p, <<>>)
<1>1. Len(<<>>) = 0
  OBVIOUS
<1>2. ASSUME NEW k \in Generators PROVE Cg(st.P[k], st.P[k] + 0 + 0)
  <2>1. st.P[k] \in Int
    BY PointInt
  <2>2. st.P[k] + 0 + 0 = st.P[k]
    BY <2>1
  <2> QED BY <2>1, <2>2, CgRefl
<1>3. \A f : Sum(f, 0) = 0
  BY SumZero
<1> QED BY <1>1, <1>2, <1>3 DEF Transcript

\* A step of the transcript at one generator.
TranscriptStep(L, Rr, xx, tt, s1, i1, A, B, A1, B1, P, P1, S) ==
    /\ Cg(A1, A + s1 * L) /\ Cg(B1, B + i1 * Rr) /\ Cg(P, S + A + B)
    /\ Cg(P1, (L * xx + P) + Rr * tt) /\ Cg(s1, xx) /\ Cg(i1, tt)

\* One generator of a round: the point grows by what the round sent.
LEMMA TranscriptSum ==
  ASSUME NEW L \in Int, NEW Rr \in Int, NEW xx \in Int, NEW tt \in Int, NEW s1 \in Int,
         NEW i1 \in Int, NEW A \in Int, NEW B \in Int, NEW A1 \in Int, NEW B1 \in Int,
         NEW P \in Int, NEW P1 \in Int, NEW S \in Int,
         TranscriptStep(L, Rr, xx, tt, s1, i1, A, B, A1, B1, P, P1, S)
  PROVE  Cg(P1, S + A1 + B1)
<1>0. Order \in Int
  BY OrderIsPrime
<1>1. PICK k1 \in Int : A1 = A + s1 * L + k1 * Order
  BY DEF Cg, TranscriptStep
<1>2. PICK k2 \in Int : B1 = B + i1 * Rr + k2 * Order
  BY DEF Cg, TranscriptStep
<1>3. PICK k3 \in Int : P = S + A + B + k3 * Order
  BY DEF Cg, TranscriptStep
<1>4. PICK k4 \in Int : P1 = (L * xx + P) + Rr * tt + k4 * Order
  BY DEF Cg, TranscriptStep
<1>5. PICK k5 \in Int : s1 = xx + k5 * Order
  BY DEF Cg, TranscriptStep
<1>6. PICK k6 \in Int : i1 = tt + k6 * Order
  BY DEF Cg, TranscriptStep
<1> DEFINE j == k3 + k4 - k1 - k2 - k5 * L - k6 * Rr
<1>7. P1 = (S + A1 + B1) + j * Order
  BY <1>0, <1>1, <1>2, <1>3, <1>4, <1>5, <1>6
<1>8. j \in Int
  OBVIOUS
<1> HIDE DEF j
<1> QED BY <1>7, <1>8 DEF Cg

PointFolded(q1, q, L, Rr, x, t) ==
    \A k \in Generators : Cg(q1.P[k], (L[k] * (x * x) + q.P[k]) + Rr[k] * (t * t))

\* A round appends what it sends to the transcript.
LEMMA TranscriptAppend ==
  ASSUME NEW q, NEW st, NEW p, NEW xs \in Seq(Challenges), NEW x \in Challenges,
         Transcript(q, st, p, xs), st.P \in Points, q.P \in Points,
         p.LS \in Vectors(Len(xs), Points), p.RS \in Vectors(Len(xs), Points),
         NEW L \in Points, NEW Rr \in Points, NEW q1, NEW p1, q1.P \in Points,
         p1.LS = Append(p.LS, L), p1.RS = Append(p.RS, Rr),
         PointFolded(q1, q, L, Rr, x, ModInverse(x))
  PROVE  /\ Transcript(q1, st, p1, Append(xs, x))
         /\ p1.LS \in Vectors(Len(xs) + 1, Points) /\ p1.RS \in Vectors(Len(xs) + 1, Points)
<1> DEFINE r == Len(xs)
           ys == Append(xs, x)
           t == ModInverse(x)
           S == Squares(xs)
           I == InverseSquares(xs)
           S1 == Squares(ys)
           I1 == InverseSquares(ys)
<1>0. Order \in Int /\ x \in Int /\ t \in Int /\ Cg(x * t, 1)
  BY OrderIsPrime, NonZero, InverseOf DEF Challenges
<1>1. /\ r \in Nat /\ ys \in Seq(Challenges) /\ Len(ys) = r + 1 /\ ys[r + 1] = x
      /\ \A j \in 1 .. r : ys[j] = xs[j]
  OBVIOUS
<1>2. /\ S \in Vectors(r, Int) /\ I \in Vectors(r, Int)
      /\ S1 \in Vectors(r + 1, Int) /\ I1 \in Vectors(r + 1, Int)
  <2> HIDE DEF ys
  <2> QED BY <1>1, SquaresType
<1>3. \A j \in 1 .. r : S1[j] = S[j] /\ I1[j] = I[j]
  BY <1>1 DEF Squares, InverseSquares
<1>4. Cg(S1[r + 1], x * x) /\ Cg(I1[r + 1], t * t) /\ S1[r + 1] \in Int /\ I1[r + 1] \in Int
  <2>1. r + 1 \in 1 .. Len(ys)
    BY <1>1
  <2> HIDE DEF ys
  <2> QED BY <1>1, <2>1, SquareIs
<1>5. ASSUME NEW l \in Vectors(r, Points), NEW e \in Points
      PROVE  /\ Append(l, e) \in Vectors(r + 1, Points) /\ Append(l, e)[r + 1] = e
             /\ \A j \in 1 .. r : Append(l, e)[j] = l[j]
  <2>1. l \in Seq(Points) /\ Len(l) = r
    BY <1>1, VectorLen
  <2>2. /\ Append(l, e) \in Seq(Points) /\ Len(Append(l, e)) = r + 1
        /\ \A j \in 1 .. r : Append(l, e)[j] = l[j]
        /\ Append(l, e)[r + 1] = e
    BY <2>1, AppendProperties
  <2>3. Append(l, e) \in [1 .. Len(Append(l, e)) -> Points]
    BY <2>2, LenProperties
  <2> QED BY <2>2, <2>3 DEF Vectors
<1>6. /\ p1.LS \in Vectors(r + 1, Points) /\ p1.LS[r + 1] = L
      /\ \A j \in 1 .. r : p1.LS[j] = p.LS[j]
  <2>1. p.LS \in Vectors(r, Points)
    OBVIOUS
  <2> HIDE DEF r
  <2>2. /\ Append(p.LS, L) \in Vectors(r + 1, Points) /\ Append(p.LS, L)[r + 1] = L
        /\ \A j \in 1 .. r : Append(p.LS, L)[j] = p.LS[j]
    BY <1>5, <2>1
  <2> QED BY <2>2
<1>7. /\ p1.RS \in Vectors(r + 1, Points) /\ p1.RS[r + 1] = Rr
      /\ \A j \in 1 .. r : p1.RS[j] = p.RS[j]
  <2>1. p.RS \in Vectors(r, Points)
    OBVIOUS
  <2> HIDE DEF r
  <2>2. /\ Append(p.RS, Rr) \in Vectors(r + 1, Points) /\ Append(p.RS, Rr)[r + 1] = Rr
        /\ \A j \in 1 .. r : Append(p.RS, Rr)[j] = p.RS[j]
    BY <1>5, <2>1
  <2> QED BY <2>2
<1> HIDE DEF r, ys, t, S, I, S1, I1
<1>8. ASSUME NEW k \in Generators
      PROVE  Cg(q1.P[k], st.P[k] + Sum(Terms(S1, At(p1.LS, k, r + 1), r + 1), r + 1)
                            + Sum(Terms(I1, At(p1.RS, k, r + 1), r + 1), r + 1))
  <2> DEFINE l == At(p.LS, k, r)
             l1 == At(p1.LS, k, r + 1)
             rr == At(p.RS, k, r)
             rr1 == At(p1.RS, k, r + 1)
  <2>1. /\ l \in Vectors(r, Int) /\ rr \in Vectors(r, Int)
        /\ l1 \in Vectors(r + 1, Int) /\ rr1 \in Vectors(r + 1, Int)
    <3>1. r + 1 \in Nat
      BY <1>1
    <3>2. p.LS \in Vectors(r, Points) /\ p.RS \in Vectors(r, Points)
      BY DEF r
    <3> QED BY <1>1, <1>6, <1>7, <3>1, <3>2, AtIs
  <2>2. /\ \A i \in 1 .. r : l1[i] = l[i] /\ rr1[i] = rr[i]
        /\ l1[r + 1] = L[k] /\ rr1[r + 1] = Rr[k]
    <3>1. r + 1 \in 1 .. r + 1 /\ \A i \in 1 .. r : i \in 1 .. r + 1
      BY <1>1
    <3>2. \A i \in 1 .. r : l1[i] = p1.LS[i][k] /\ rr1[i] = p1.RS[i][k]
      BY <3>1 DEF At
    <3>3. l1[r + 1] = p1.LS[r + 1][k] /\ rr1[r + 1] = p1.RS[r + 1][k]
      BY <3>1 DEF At
    <3>4. \A i \in 1 .. r : l[i] = p.LS[i][k] /\ rr[i] = p.RS[i][k]
      BY DEF At
    <3> HIDE DEF l, l1, rr, rr1
    <3> QED BY <1>6, <1>7, <3>2, <3>3, <3>4
  <2> DEFINE A == Sum(Terms(S, l, r), r)
             B == Sum(Terms(I, rr, r), r)
             A1 == Sum(Terms(S1, l1, r + 1), r + 1)
             B1 == Sum(Terms(I1, rr1, r + 1), r + 1)
  <2>3. A \in Int /\ A1 \in Int /\ Cg(A1, A + S1[r + 1] * L[k])
    <3> HIDE DEF l, l1, rr, rr1
    <3>1. \A i \in 1 .. r : S1[i] = S[i] /\ l1[i] = l[i]
      BY <1>3, <2>2
    <3> QED BY <1>1, <1>2, <2>1, <2>2, <3>1, TermsAppend
  <2>4. B \in Int /\ B1 \in Int /\ Cg(B1, B + I1[r + 1] * Rr[k])
    <3> HIDE DEF l, l1, rr, rr1
    <3>1. \A i \in 1 .. r : I1[i] = I[i] /\ rr1[i] = rr[i]
      BY <1>3, <2>2
    <3> QED BY <1>1, <1>2, <2>1, <2>2, <3>1, TermsAppend
  <2>5. Cg(q.P[k], st.P[k] + A + B)
    BY DEF Transcript, r, S, I
  <2>6. Cg(q1.P[k], (L[k] * (x * x) + q.P[k]) + Rr[k] * (t * t))
    BY DEF t, PointFolded
  <2>7. L[k] \in Int /\ Rr[k] \in Int /\ q.P[k] \in Int /\ q1.P[k] \in Int /\ st.P[k] \in Int
    BY PointInt
  <2>8. x * x \in Int /\ t * t \in Int
    BY <1>0
  <2>9. Cg(q1.P[k], st.P[k] + A1 + B1)
    <3> HIDE DEF A, B, A1, B1
    <3> DEFINE xx == x * x
               tt == t * t
    <3>1. /\ Cg(S1[r + 1], xx) /\ Cg(I1[r + 1], tt)
          /\ Cg(q1.P[k], (L[k] * xx + q.P[k]) + Rr[k] * tt)
      BY <1>4, <2>6
    <3>2. xx \in Int /\ tt \in Int
      BY <2>8
    <3> HIDE DEF xx, tt
    <3>3. TranscriptStep(L[k], Rr[k], xx, tt, S1[r + 1], I1[r + 1], A, B, A1, B1,
                         q.P[k], q1.P[k], st.P[k])
      BY <2>3, <2>4, <2>5, <3>1 DEF TranscriptStep
    <3> QED BY <1>4, <2>3, <2>4, <2>7, <3>2, <3>3, TranscriptSum
  <2> QED BY <2>9 DEF A1, B1, l1, rr1
<1>9. Transcript(q1, st, p1, ys)
  BY <1>1, <1>8 DEF Transcript, S1, I1
<1> QED BY <1>6, <1>7, <1>9 DEF r, ys

\* The rounds made so far, K of them in all, on the vectors of n elements of
\* s: the instance q has l elements a vector.
RoundsAt(k0, s, n, p, c, q, K, l) ==
    /\ c.rounds \in Seq(Challenges) /\ Len(c.rounds) <= K /\ l = 2^(K - Len(c.rounds))
    /\ q \in Instances(l) /\ Relation(q, l, Excess(p, s, n, c))
    /\ Spread(q.g, "gVector", GScalars(c.rounds, K, n), l, n)
    /\ Spread(q.h, "hVector", HScalars(c.rounds, K, n, c.y), l, n)
    /\ p.LS \in Vectors(Len(c.rounds), Points) /\ p.RS \in Vectors(Len(c.rounds), Points)
    /\ Transcript(q, Start(k0, p, s, n, c), p, c.rounds)
    /\ q.u = Start(k0, p, s, n, c).u

RoundsOf(k0, s, n, p, c, q) ==
    RoundsAt(k0, s, n, p, c, q, LogOf(n), 2^(LogOf(n) - Len(c.rounds)))

\* What the start depends on.
SameStart(p, p1, c, c1) ==
    /\ p1.A = p.A /\ p1.S = p.S /\ p1.mu = p.mu /\ p1.tHat = p.tHat
    /\ c1.y = c.y /\ c1.z = c.z /\ c1.x = c.x /\ c1.c = c.c

\* What a round leaves alone leaves the start of the rounds alone.
LEMMA StartSame ==
  ASSUME NEW k0, NEW s, NEW n, NEW p, NEW p1, NEW c, NEW c1, SameStart(p, p1, c, c1)
  PROVE  /\ Start(k0, p1, s, n, c1) = Start(k0, p, s, n, c)
         /\ Excess(p1, s, n, c1) = Excess(p, s, n, c)
<1>1. UpdateP(p1, n, c.x, c.y, c.z) = UpdateP(p, n, c.x, c.y, c.z)
  BY DEF SameStart, UpdateP
<1>2. StartOf(k0, p1, s, n, c.y, c.z, c.x, c.c) = StartOf(k0, p, s, n, c.y, c.z, c.x, c.c)
  BY <1>1 DEF SameStart, StartOf
<1> QED BY <1>2 DEF Start, Excess, SameStart

\* One step of the inverse of a product.
LEMMA InverseStep ==
  ASSUME NEW a \in Int, NEW ia \in Int, NEW b \in Int, NEW ib \in Int, NEW c \in Int, NEW p \in Int,
         Cg(a * ia, 1), Cg(b * ib, 1), Cg(c, a * b)
  PROVE  Cg(ModInverse(c) * p, (ia * p) * ib)
<1>0. Order \in Int
  BY OrderIsPrime
<1>1. Cg(ModInverse(c), ia * ib) /\ ~Cg(c, 0)
  BY InverseOfProduct
<1>2. ModInverse(c) \in Int
  BY <1>0, <1>1, InverseOf
<1>3. ia * ib \in Int /\ Cg(p, p)
  BY CgRefl
<1> DEFINE d == ModInverse(c)
           e == ia * ib
<1>4. Cg(d, e) /\ d \in Int /\ e \in Int
  BY <1>1, <1>2, <1>3
<1> HIDE DEF d, e
<1>5. Cg(d * p, e * p)
  BY <1>3, <1>4, CgMul
<1>6. e * p = (ia * p) * ib
  BY DEF e
<1> QED BY <1>5, <1>6 DEF d

\* The instance of Evaluate satisfies all that the rounds keep ...
LEMMA RoundsStart ==
  ASSUME NEW k0, NEW c, NEW m \in {1, 2}, NEW n, n = N * m, NEW s \in Secrets(m, n),
         NEW p, CommittedTo(p, s), p.mu = (s.alpha + s.rho * c.x) % Order, p.tHat \in Int,
         p.LS = <<>>, p.RS = <<>>,
         c.y \in Challenges, c.z \in Challenges, c.x \in Int, c.c \in Int, c.rounds = <<>>
  PROVE  RoundsOf(k0, s, n, p, c, Start(k0, p, s, n, c))
<1> DEFINE q == Start(k0, p, s, n, c)
           K == LogOf(n)
<1>1. K \in Nat /\ 2^K = n /\ n \in Nat /\ n \in 1 .. 2 * N
  BY LogIs
<1> HIDE DEF K
<1>2. <<>> \in Seq(Challenges) /\ Len(<<>>) = 0 /\ K - 0 = K /\ 0 <= K
  BY <1>1
<1>3. q \in Instances(n) /\ Relation(q, n, Excess(p, s, n, c))
  <2>1. c.y \in 1 .. Order - 1 /\ c.z \in 1 .. Order - 1
    BY DEF Challenges
  <2> QED BY <1>1, <2>1, StartRelation DEF Start, Excess
<1>4. q.g = gVector(n) /\ q.h = GenerateHprime(n, c.y)
  BY DEF Start, StartOf
<1>5. Spread(q.g, "gVector", GScalars(<<>>, K, n), n, n)
      /\ Spread(q.h, "hVector", HScalars(<<>>, K, n, c.y), n, n)
  BY <1>1, <1>4, SpreadStart
<1>6. <<>> \in Vectors(0, Points)
  BY DEF Vectors
<1>7. q.P \in Points
  BY <1>3 DEF Instances
<1> HIDE DEF q
<1>8. Transcript(q, q, p, <<>>)
  BY <1>7, TranscriptStart
<1>9. RoundsAt(k0, s, n, p, c, q, K, n)
  BY <1>1, <1>2, <1>3, <1>5, <1>6, <1>8 DEF RoundsAt, q
<1> QED BY <1>1, <1>2, <1>9 DEF RoundsOf, K, q

\* ... and a round keeps it.
LEMMA RoundsFold ==
  ASSUME NEW k0, NEW s, NEW n \in 1 .. 2 * N, NEW K \in Nat, NEW l \in Nat, l > 1,
         NEW p, NEW c, NEW q, RoundsAt(k0, s, n, p, c, q, K, l),
         c.y \in Challenges, Excess(p, s, n, c) \in Int, Start(k0, p, s, n, c).P \in Points,
         NEW x \in Challenges, NEW p1, NEW c1, SameStart(p, p1, c, c1),
         p1.LS = Append(p.LS, CrossL(q)), p1.RS = Append(p.RS, CrossR(q)),
         c1.rounds = Append(c.rounds, x)
  PROVE  /\ Len(c.rounds) + 1 <= K
         /\ RoundsAt(k0, s, n, p1, c1, Folded(q, x), K, 2^(K - (Len(c.rounds) + 1)))
<1> DEFINE xs == c.rounds
           r == Len(xs)
           l1 == 2^(K - (r + 1))
           t == ModInverse(x)
           st == Start(k0, p, s, n, c)
           e == Excess(p, s, n, c)
           F == Folded(q, x)
           ys == Append(xs, x)
<1>0. /\ xs \in Seq(Challenges) /\ r \in Nat /\ r <= K /\ l = 2^(K - r)
      /\ q \in Instances(l) /\ Relation(q, l, e)
      /\ Spread(q.g, "gVector", GScalars(xs, K, n), l, n)
      /\ Spread(q.h, "hVector", HScalars(xs, K, n, c.y), l, n)
      /\ p.LS \in Vectors(r, Points) /\ p.RS \in Vectors(r, Points)
      /\ Transcript(q, st, p, xs) /\ q.u = st.u
  BY DEF RoundsAt
<1>1. r + 1 <= K /\ l1 \in Nat \ {0} /\ l = l1 + l1
  <2>1. r # K
    <3>1. ASSUME r = K PROVE FALSE
      <4>1. K - r = 0
        BY <3>1
      <4>2. 2^(K - r) = 1
        BY <4>1, TwoZero
      <4> QED BY <1>0, <4>2
    <3> QED BY <3>1
  <2>2. K - (r + 1) \in Nat /\ K - r = (K - (r + 1)) + 1
    BY <1>0, <2>1
  <2>3. l1 \in Nat /\ 2^(K - r) = 2 * l1
    BY <2>2, TwoNext
  <2> HIDE DEF l1
  <2>4. l = 2 * l1
    BY <1>0, <2>3
  <2> QED BY <1>0, <2>1, <2>3, <2>4
<1>2. x \in Int /\ t \in Int /\ Cg(x * t, 1)
  BY OrderIsPrime, NonZero, InverseOf DEF Challenges
<1>3. /\ ys \in Seq(Challenges) /\ Len(ys) = r + 1
  BY <1>0
<1> HIDE DEF t, st, e, F, r, l1
<1>4. F \in Instances(l1) /\ Relation(F, l1, e) /\ FoldOf(F, q, x, t, l1)
  <2>1. q \in Instances(l1 + l1) /\ Relation(q, l1 + l1, e) /\ e \in Int /\ x \in 1 .. Order - 1
    BY <1>0, <1>1 DEF e, Challenges
  <2> QED BY <1>1, <2>1, FoldedKeeps DEF F, t
<1>5. n \in Nat /\ c.y \in Challenges
  BY NIsNat
<1>6. /\ GScalars(xs, K, n) \in Vectors(n, Int) /\ HScalars(xs, K, n, c.y) \in Vectors(n, Int)
      /\ GScalars(ys, K, n) \in Vectors(n, Int) /\ HScalars(ys, K, n, c.y) \in Vectors(n, Int)
  BY <1>0, <1>3, <1>5, ScalarsType
<1>7. ASSUME NEW i \in 1 .. n
      PROVE  /\ ((i - 1) \div l1) % 2 = 1 => Cg(Scalar(i, ys, K), Scalar(i, xs, K) * x)
             /\ ((i - 1) \div l1) % 2 # 1 => Cg(Scalar(i, ys, K), Scalar(i, xs, K) * t)
  <2>1. Moves(i, K, r + 1) <=> ((i - 1) \div l1) % 2 = 1
    BY DEF Moves, l1
  <2>2. /\ Moves(i, K, r + 1) => Cg(Scalar(i, ys, K), Scalar(i, xs, K) * x)
        /\ ~Moves(i, K, r + 1) => Cg(Scalar(i, ys, K), Scalar(i, xs, K) * t)
    BY <1>0, ScalarAppend DEF r, t
  <2> QED BY <2>1, <2>2
<1>8. /\ F.g \in Vectors(l1, Points) /\ F.h \in Vectors(l1, Points) /\ F.P \in Points
      /\ q.g \in Vectors(l1 + l1, Points) /\ q.h \in Vectors(l1 + l1, Points) /\ q.P \in Points
  BY <1>0, <1>1, <1>4 DEF Instances
<1>9. Spread(F.g, "gVector", GScalars(ys, K, n), l1, n)
  <2> DEFINE w == GScalars(xs, K, n)
             w1 == GScalars(ys, K, n)
  <2>1. \A i \in 1 .. n : /\ ((i - 1) \div l1) % 2 = 1 => Cg(w1[i], w[i] * x)
                          /\ ((i - 1) \div l1) % 2 # 1 => Cg(w1[i], w[i] * t)
    BY <1>7 DEF GScalars
  <2>2. \A j \in 1 .. l1, k \in Generators : Cg(F.g[j][k], q.g[j][k] * t + q.g[l1 + j][k] * x)
    BY <1>4 DEF FoldOf
  <2>3. Spread(q.g, "gVector", w, l1 + l1, n)
    BY <1>0, <1>1
  <2>4. w \in Vectors(n, Int) /\ w1 \in Vectors(n, Int)
    BY <1>6
  <2> HIDE DEF w, w1
  <2>5. Spread(F.g, "gVector", w1, l1, n)
    BY <1>1, <1>2, <1>8, <2>1, <2>2, <2>3, <2>4, SpreadFold
  <2> QED BY <2>5 DEF w1
<1>10. Spread(F.h, "hVector", HScalars(ys, K, n, c.y), l1, n)
  <2> DEFINE w == HScalars(xs, K, n, c.y)
             w1 == HScalars(ys, K, n, c.y)
  <2>1. ASSUME NEW i \in 1 .. n
        PROVE  /\ ((i - 1) \div l1) % 2 = 1 => Cg(w1[i], w[i] * t)
               /\ ((i - 1) \div l1) % 2 # 1 => Cg(w1[i], w[i] * x)
    <3> DEFINE a == Scalar(i, xs, K)
               ia == ModInverse(a)
               a1 == Scalar(i, ys, K)
               y1 == Pow(ModInverse(c.y), i - 1)
    <3>1. w[i] = ia * y1 /\ w1[i] = ModInverse(a1) * y1
      BY DEF HScalars
    <3>2. a \in Int /\ a1 \in Int
      BY <1>0, <1>3, ScalarType
    <3>3. ia \in Int /\ y1 \in Int /\ Cg(a * ia, 1)
      BY <1>0, <1>5, ScalarsType
    <3>4. /\ ((i - 1) \div l1) % 2 = 1 => Cg(a1, a * x)
          /\ ((i - 1) \div l1) % 2 # 1 => Cg(a1, a * t)
      BY <1>7
    <3> HIDE DEF a, ia, a1, y1, w, w1
    <3>5. Cg(a1, a * x) => Cg(ModInverse(a1) * y1, (ia * y1) * t)
      BY <1>2, <3>2, <3>3, InverseStep
    <3>6. Cg(a1, a * t) => Cg(ModInverse(a1) * y1, (ia * y1) * x)
      <4>1. t * x = x * t
        BY <1>2
      <4>2. Cg(t * x, 1)
        BY <1>2, <4>1
      <4> QED BY <1>2, <4>2, <3>2, <3>3, InverseStep
    <3> QED BY <3>1, <3>4, <3>5, <3>6
  <2>2. \A j \in 1 .. l1, k \in Generators : Cg(F.h[j][k], q.h[j][k] * x + q.h[l1 + j][k] * t)
    BY <1>4 DEF FoldOf
  <2>3. Spread(q.h, "hVector", w, l1 + l1, n)
    BY <1>0, <1>1
  <2>4. w \in Vectors(n, Int) /\ w1 \in Vectors(n, Int)
    BY <1>6
  <2> HIDE DEF w, w1
  <2>5. Spread(F.h, "hVector", w1, l1, n)
    BY <1>1, <1>2, <1>8, <2>1, <2>2, <2>3, <2>4, SpreadFold
  <2> QED BY <2>5 DEF w1
<1>11. /\ Transcript(F, st, p1, ys)
       /\ p1.LS \in Vectors(r + 1, Points) /\ p1.RS \in Vectors(r + 1, Points)
  <2> DEFINE L == CrossL(q)
             Rr == CrossR(q)
  <2>1. L \in Points /\ Rr \in Points
        /\ PointFolded(F, q, L, Rr, x, t)
    BY <1>4 DEF FoldOf, PointFolded
  <2>2. p1.LS = Append(p.LS, L) /\ p1.RS = Append(p.RS, Rr) /\ st.P \in Points
    BY DEF st
  <2>3. p.LS \in Vectors(Len(xs), Points) /\ p.RS \in Vectors(Len(xs), Points)
    BY <1>0 DEF r
  <2>4. Transcript(q, st, p, xs) /\ xs \in Seq(Challenges)
    BY <1>0
  <2>5. PointFolded(F, q, L, Rr, x, ModInverse(x))
    BY <2>1 DEF t
  <2> HIDE DEF L, Rr, xs
  <2>6. /\ Transcript(F, st, p1, Append(xs, x))
        /\ p1.LS \in Vectors(Len(xs) + 1, Points) /\ p1.RS \in Vectors(Len(xs) + 1, Points)
    BY <1>8, <2>1, <2>2, <2>3, <2>4, <2>5, TranscriptAppend
  <2> QED BY <2>6 DEF r
<1>12. Start(k0, p1, s, n, c1) = st /\ Excess(p1, s, n, c1) = e
  BY StartSame DEF st, e
<1>13. F.u = st.u /\ c1.y = c.y
  BY <1>0, <1>4 DEF FoldOf, SameStart
<1>14. c1.rounds = ys /\ l1 = 2^(K - Len(ys))
  BY <1>3 DEF l1
<1> HIDE DEF ys
<1>15. RoundsAt(k0, s, n, p1, c1, F, K, l1)
  BY <1>1, <1>3, <1>4, <1>9, <1>10, <1>11, <1>12, <1>13, <1>14 DEF RoundsAt
<1> QED BY <1>1, <1>15 DEF F, l1, r

-----------------------------------------------------------------------------
(* Typing of what the prover computes                                      *)

\* A digit is a bit.
LEMMA DigitType ==
  ASSUME NEW x \in Int, NEW i \in 1 .. N
  PROVE  Decompose(x)[i] \in {0, 1}
<1>1. 2^(i - 1) \in Nat \ {0}
  <2>1. i - 1 \in Nat
    BY NIsNat
  <2> QED BY <2>1, TwoPositive
<1> DEFINE d == 2^(i - 1)
<1>2. d \in Nat \ {0}
  BY <1>1
<1>3. Decompose(x)[i] = IF x < 0 /\ i > 1 THEN 0 ELSE (x \div d) % 2
  BY DEF Decompose
<1> HIDE DEF d
<1>4. x \div d \in Int
  BY <1>2, DivisionBounds
<1>5. (x \div d) % 2 \in 0 .. 1
  BY <1>4
<1> QED BY <1>3, <1>5

\* The block and the place of a position.
LEMMA PositionIs ==
  ASSUME NEW m \in {1, 2}, NEW i \in 1 .. N * m
  PROVE  Block(i) \in 1 .. m /\ Place(i) + 1 \in 1 .. N /\ i \in Nat \ {0}
<1>1. N \in Nat /\ N >= 2 /\ N * m \in Nat
  BY NIsNat
<1>2. i \in Nat \ {0}
  BY <1>1
<1>3. /\ Block(i) \in Nat \ {0} /\ Place(i) \in 0 .. N - 1
      /\ i = N * (Block(i) - 1) + Place(i) + 1
  BY <1>2, PlaceIs
<1> DEFINE b == Block(i)
           p == Place(i)
<1>4. b \in Nat \ {0} /\ p \in 0 .. N - 1 /\ i = N * (b - 1) + p + 1 /\ i <= N * m
  BY <1>1, <1>3
<1> HIDE DEF b, p
<1>5. b <= m
  <2>1. SUFFICES ASSUME b >= m + 1 PROVE FALSE
    BY <1>4
  <2>2. b - 1 - m \in Nat
    BY <1>4, <2>1
  <2>3. N * (b - 1 - m) >= 0
    BY <1>1, <2>2
  <2>4. N * (b - 1 - m) = N * (b - 1) - N * m
    BY <1>1, <1>4
  <2> QED BY <1>1, <1>4, <2>3, <2>4
<1> QED BY <1>1, <1>2, <1>4, <1>5 DEF b, p

\* The digits of the witness, position by position.
LEMMA VectorDecomposeIs ==
  ASSUME NEW m \in {1, 2}, NEW w \in Vectors(m, Int)
  PROVE  /\ VectorDecompose(w) \in Vectors(N * m, {0, 1})
         /\ VectorDecompose(w) \in Vectors(N * m, Int)
         /\ ComputeAR(VectorDecompose(w)) \in Vectors(N * m, Int)
         /\ \A i \in 1 .. N * m : VectorDecompose(w)[i] = Decompose(w[Block(i)])[Place(i) + 1]
<1> DEFINE a == VectorDecompose(w)
           n == N * m
<1>1. n \in Nat
  BY NIsNat
<1>2. Len(w) = m
  BY VectorLen
<1>3. a = [i \in 1 .. n |-> Decompose(w[Block(i)])[Place(i) + 1]]
  BY <1>2 DEF VectorDecompose
<1>4. \A i \in 1 .. n : Decompose(w[Block(i)])[Place(i) + 1] \in {0, 1}
  <2> TAKE i \in 1 .. n
  <2>1. Block(i) \in 1 .. m /\ Place(i) + 1 \in 1 .. N
    BY PositionIs
  <2>2. w[Block(i)] \in Int
    BY <2>1 DEF Vectors
  <2> QED BY <2>1, <2>2, DigitType
<1> HIDE DEF a, n
<1>5. a \in Vectors(n, {0, 1})
  BY <1>3, <1>4 DEF Vectors
<1>6. a \in Vectors(n, Int)
  BY <1>5 DEF Vectors
<1>7. ComputeAR(a) \in Vectors(n, Int)
  <2>1. ComputeAR(a) = [i \in 1 .. n |-> (a[i] - 1) % Order]
    BY <1>1, <1>6, VectorLen DEF ComputeAR
  <2>2. \A i \in 1 .. n : (a[i] - 1) % Order \in Int
    <3> TAKE i \in 1 .. n
    <3>1. a[i] - 1 \in Int
      BY <1>6 DEF Vectors
    <3> QED BY <3>1, CgMod
  <2> QED BY <2>1, <2>2 DEF Vectors
<1> QED BY <1>3, <1>5, <1>6, <1>7 DEF a, n

\* What the prover draws from the tape and derives from the witness w.
Drawn(tape, w, m) ==
    [gamma |-> SubSeq(tape, 1, m), alpha |-> tape[m + 1],
     rho |-> tape[m + 2 + 2 * (N * m)], aL |-> VectorDecompose(w),
     aR |-> ComputeAR(VectorDecompose(w)),
     sL |-> SubSeq(tape, m + 2, m + 1 + N * m),
     sR |-> SubSeq(tape, m + 2 + N * m, m + 1 + 2 * (N * m)),
     tau1 |-> tape[m + 3 + 2 * (N * m)], tau2 |-> tape[m + 4 + 2 * (N * m)]]

\* What Commit draws and derives are secrets of the right lengths.
LEMMA DrawnIs ==
  ASSUME NEW m \in {1, 2}, NEW w \in Vectors(m, Int), NEW tape \in Tapes
  PROVE  Drawn(tape, w, m) \in Secrets(m, N * m)
<1> DEFINE n == N * m
<1>1. n \in Nat /\ n <= 2 * N /\ N \in Nat
  BY NIsNat
<1>2. tape \in Seq(Int) /\ Len(tape) >= 6 + 4 * N
  BY Inputs
<1>3. \A i \in 1 .. 6 + 4 * N : tape[i] \in Int
  <2> DEFINE e == 6 + 4 * N
  <2>1. e \in Int /\ Len(tape) >= e
    BY <1>1, <1>2
  <2> HIDE DEF e
  <2>2. \A i \in 1 .. e : tape[i] \in Int
    BY <1>2, <2>1
  <2> QED BY <2>2 DEF e
<1> HIDE DEF n
<1>4. ASSUME NEW a \in Int, NEW b \in Int, a >= 1, b <= 6 + 4 * N, b - a + 1 \in Nat
      PROVE  SubSeq(tape, a, b) \in Vectors(b - a + 1, Int)
  <2>1. \A i \in a .. b : tape[i] \in Int
    BY <1>1, <1>3, <1>4
  <2>2. /\ SubSeq(tape, a, b) \in Seq(Int)
        /\ Len(SubSeq(tape, a, b)) = IF a <= b THEN b - a + 1 ELSE 0
    BY <2>1, SubSeqProperties
  <2>3. Len(SubSeq(tape, a, b)) = b - a + 1
    BY <1>4, <2>2
  <2> DEFINE t == SubSeq(tape, a, b)
             d == b - a + 1
  <2>4. t \in Seq(Int) /\ Len(t) = d
    BY <2>2, <2>3
  <2> HIDE DEF t, d
  <2>5. t \in [1 .. d -> Int]
    BY <2>4, LenProperties
  <2> QED BY <2>5 DEF Vectors, t, d
<1>5. SubSeq(tape, 1, m) \in Vectors(m, Int)
  <2>1. SubSeq(tape, 1, m) \in Vectors(m - 1 + 1, Int)
    BY <1>1, <1>4
  <2>2. m - 1 + 1 = m
    OBVIOUS
  <2> QED BY <2>1, <2>2
<1>6. SubSeq(tape, m + 2, m + 1 + n) \in Vectors(n, Int)
  <2>1. SubSeq(tape, m + 2, m + 1 + n) \in Vectors((m + 1 + n) - (m + 2) + 1, Int)
    BY <1>1, <1>4
  <2>2. (m + 1 + n) - (m + 2) + 1 = n
    BY <1>1
  <2> QED BY <2>1, <2>2
<1>7. SubSeq(tape, m + 2 + n, m + 1 + 2 * n) \in Vectors(n, Int)
  <2>1. SubSeq(tape, m + 2 + n, m + 1 + 2 * n) \in Vectors((m + 1 + 2 * n) - (m + 2 + n) + 1, Int)
    BY <1>1, <1>4
  <2>2. (m + 1 + 2 * n) - (m + 2 + n) + 1 = n
    BY <1>1
  <2> QED BY <2>1, <2>2
<1>8. /\ tape[m + 1] \in Int /\ tape[m + 2 + 2 * n] \in Int
      /\ tape[m + 3 + 2 * n] \in Int /\ tape[m + 4 + 2 * n] \in Int
  BY <1>1, <1>3
<1>9. VectorDecompose(w) \in Vectors(n, Int) /\ ComputeAR(VectorDecompose(w)) \in Vectors(n, Int)
  BY VectorDecomposeIs DEF n
<1> QED BY <1>5, <1>6, <1>7, <1>8, <1>9 DEF Drawn, Secrets, n

\* The commitment to a value, generator by generator.
LEMMA PedersenIs ==
  ASSUME NEW a \in Int, NEW r \in Int
  PROVE  /\ PedersenCommit(a, r) \in Points
         /\ \A k \in Generators : Cg(PedersenCommit(a, r)[k], h[k] * r + g[k] * a)
<1> DEFINE p == ScalarMult(h, r)
           q == ScalarMult(g, a)
<1>1. /\ p \in Points /\ q \in Points
      /\ \A k \in Generators : Cg(p[k], h[k] * r) /\ Cg(q[k], g[k] * a)
  BY GeneratorTypes, ScalarMultIs
<1>2. PedersenCommit(a, r) = Add(p, q)
  BY DEF PedersenCommit
<1> HIDE DEF p, q
<1>3. Add(p, q) \in Points /\ \A k \in Generators : Cg(Add(p, q)[k], p[k] + q[k])
  BY <1>1, AddIs
<1>4. ASSUME NEW k \in Generators PROVE Cg(Add(p, q)[k], h[k] * r + g[k] * a)
  <2>1. h[k] * r \in Int /\ g[k] * a \in Int
    <3>1. h[k] \in Int /\ g[k] \in Int
      BY GeneratorTypes, PointInt
    <3> QED BY <3>1
  <2>2. p[k] \in Int /\ q[k] \in Int /\ Add(p, q)[k] \in Int
    BY <1>1, <1>3, PointInt
  <2>3. Cg(p[k] + q[k], h[k] * r + g[k] * a)
    BY <1>1, <2>1, <2>2, CgAdd
  <2> QED BY <1>3, <2>1, <2>2, <2>3, CgTrans
<1> QED BY <1>2, <1>3, <1>4

\* Delta in terms of its sums.
LEMMA DeltaIs ==
  ASSUME NEW n \in Nat, NEW y \in Int, NEW z \in Int
  PROVE  LET Py == Sum([i \in 1 .. n |-> Pow(y, i - 1)], n)
             Wz == Sum([i \in 1 .. n |-> z * Weight(z, i)], n)
         IN  /\ Py \in Int /\ Wz \in Int /\ Delta(n, y, z) \in Int
             /\ Cg(Delta(n, y, z), (z - z * z) * Py - Wz)
<1> DEFINE f == [i \in 1 .. n |-> Pow(y, i - 1)]
           w == [i \in 1 .. n |-> z * Weight(z, i)]
<1>1. Ints(f, n)
  <2>1. \A i \in 1 .. n : i - 1 \in Nat
    OBVIOUS
  <2> QED BY <2>1, PowNext DEF Ints
<1>2. Ints(w, n)
  <2>1. \A i \in 1 .. n : i \in Nat \ {0}
    OBVIOUS
  <2>2. \A i \in 1 .. n : Weight(z, i) \in Int
    BY <2>1, WeightType
  <2> QED BY <2>2 DEF Ints
<1>3. Delta(n, y, z) = ((z - z * z) * Sum(f, n) - Sum(w, n)) % Order
  BY DEF Delta
<1> HIDE DEF f, w
<1>4. Sum(f, n) \in Int /\ Sum(w, n) \in Int
  BY <1>1, <1>2, SumType
<1>5. (z - z * z) * Sum(f, n) - Sum(w, n) \in Int
  BY <1>4
<1>6. Delta(n, y, z) \in Int /\ Cg(Delta(n, y, z), (z - z * z) * Sum(f, n) - Sum(w, n))
  BY <1>3, <1>5, CgMod
<1> QED BY <1>4, <1>6 DEF f, w

\* The coefficients of the polynomial.
LEMMA CoefficientsAre ==
  ASSUME NEW m, NEW n \in Nat, NEW s \in Secrets(m, n), NEW y \in Int, NEW z \in Int
  PROVE  /\ LZero(s.aL, z) \in Vectors(n, Int) /\ ROne(s.sR, y) \in Vectors(n, Int)
         /\ RZero(s.aR, y, z) \in Vectors(n, Int) /\ s.sL \in Vectors(n, Int)
         /\ t1(s, y, z) \in Int /\ t2(s, y) \in Int
         /\ Cg(t1(s, y, z), Sum(Terms(LZero(s.aL, z), ROne(s.sR, y), n), n)
                              + Sum(Terms(s.sL, RZero(s.aR, y, z), n), n))
         /\ t2(s, y) = Sum(Terms(s.sL, ROne(s.sR, y), n), n)
<1> DEFINE l == LZero(s.aL, z)
           r == RZero(s.aR, y, z)
           o == ROne(s.sR, y)
<1>1. /\ s.aL \in Vectors(n, Int) /\ s.aR \in Vectors(n, Int)
      /\ s.sL \in Vectors(n, Int) /\ s.sR \in Vectors(n, Int)
  BY DEF Secrets
<1>2. l \in Vectors(n, Int) /\ r \in Vectors(n, Int) /\ o \in Vectors(n, Int)
  BY <1>1, LZeroIs, RZeroIs, ROneIs
<1>3. /\ t1(s, y, z) = (VectorInnerProduct(l, o) + VectorInnerProduct(s.sL, r)) % Order
      /\ t2(s, y) = VectorInnerProduct(s.sL, o)
  BY DEF t1, t2
<1> HIDE DEF l, r, o
<1>4. /\ VectorInnerProduct(l, o) = Sum(Terms(l, o, n), n) /\ VectorInnerProduct(l, o) \in Int
      /\ VectorInnerProduct(s.sL, r) = Sum(Terms(s.sL, r, n), n)
      /\ VectorInnerProduct(s.sL, r) \in Int
      /\ VectorInnerProduct(s.sL, o) = Sum(Terms(s.sL, o, n), n)
      /\ VectorInnerProduct(s.sL, o) \in Int
  BY <1>1, <1>2, InnerProductIs
<1>5. VectorInnerProduct(l, o) + VectorInnerProduct(s.sL, r) \in Int
  BY <1>4
<1> QED BY <1>1, <1>2, <1>3, <1>4, <1>5, CgMod DEF l, r, o

\* The blinding of tHat.
LEMMA TauXIs ==
  ASSUME NEW m \in Nat, NEW n, NEW s \in Secrets(m, n), NEW z \in Int, NEW x \in Int
  PROVE  LET S == Sum([j \in 1 .. m |-> Pow(z, j + 1) * s.gamma[j]], m)
         IN  /\ S \in Int /\ TauX(s, z, x) \in Int
             /\ Cg(TauX(s, z, x), s.tau1 * x + s.tau2 * x * x + S)
<1> DEFINE f == [j \in 1 .. m |-> Pow(z, j + 1) * s.gamma[j]]
<1>1. s.gamma \in Vectors(m, Int) /\ s.tau1 \in Int /\ s.tau2 \in Int
  BY DEF Secrets
<1>2. Len(s.gamma) = m
  BY <1>1, VectorLen
<1>3. Ints(f, m)
  <2>1. \A j \in 1 .. m : Pow(z, j + 1) \in Int /\ s.gamma[j] \in Int
    <3> TAKE j \in 1 .. m
    <3>1. j + 1 \in Nat
      OBVIOUS
    <3> QED BY <1>1, <3>1, PowNext DEF Vectors
  <2> QED BY <2>1 DEF Ints
<1>4. TauX(s, z, x) = (s.tau1 * x + s.tau2 * x * x + Sum(f, m)) % Order
  BY <1>2 DEF TauX
<1> HIDE DEF f
<1>5. Sum(f, m) \in Int
  BY <1>3, SumType
<1>6. s.tau1 * x + s.tau2 * x * x + Sum(f, m) \in Int
  BY <1>1, <1>5
<1> QED BY <1>4, <1>5, <1>6, CgMod DEF f

\* tHat of both kinds of proof.
LEMMA THatIs ==
  ASSUME NEW k, NEW m, NEW n \in Nat, NEW s \in Secrets(m, n), NEW w, k = "aggregate" \/ w[1] \in Int,
         NEW y \in Int, NEW z \in Int, NEW x \in Int
  PROVE  /\ THat(k, w, s, y, z, x) \in Int
         /\ k = "aggregate" =>
               THat(k, w, s, y, z, x) = Sum(Terms(Lx(s, z, x), Rx(s, y, z, x), n), n)
         /\ k # "aggregate" =>
               Cg(THat(k, w, s, y, z, x),
                  w[1] * z * z + Delta(n, y, z) + t1(s, y, z) * x + t2(s, y) * x * x)
<1>1. Lx(s, z, x) \in Vectors(n, Int) /\ Rx(s, y, z, x) \in Vectors(n, Int)
  BY LxIs, RxIs
<1>2. CASE k = "aggregate"
  <2>1. THat(k, w, s, y, z, x) = VectorInnerProduct(Lx(s, z, x), Rx(s, y, z, x))
    BY <1>2 DEF THat
  <2> QED BY <1>1, <1>2, <2>1, InnerProductIs
<1>3. CASE k # "aggregate"
  <2> DEFINE a == t1(s, y, z)
             b == t2(s, y)
             d == Delta(n, y, z)
  <2>1. Len(s.aL) = n
    <3>1. s.aL \in Vectors(n, Int)
      BY DEF Secrets
    <3> QED BY <3>1, VectorLen
  <2>2. a \in Int /\ b \in Int /\ d \in Int /\ w[1] \in Int
    BY <1>3, CoefficientsAre, DeltaIs
  <2>3. THat(k, w, s, y, z, x) = (w[1] * z * z + d + a * x + b * x * x) % Order
    BY <1>3, <2>1 DEF THat
  <2> HIDE DEF a, b, d
  <2>4. w[1] * z * z + d + a * x + b * x * x \in Int
    BY <2>2
  <2>5. THat(k, w, s, y, z, x) \in Int
        /\ Cg(THat(k, w, s, y, z, x), w[1] * z * z + d + a * x + b * x * x)
    BY <2>3, <2>4, CgMod
  <2> QED BY <1>3, <2>5 DEF a, b, d
<1> QED BY <1>2, <1>3

-----------------------------------------------------------------------------
(* Standards                                                               *)

\* Scaled values are integers.
LEMMA TruncType ==
  ASSUME NEW r \in Int, NEW p \in Int, p >= 0 => Step(p) \in Nat \ {0}
  PROVE  Scaled(r, p) \in Int
<1>1. CASE p < 0
  BY <1>1 DEF Scaled
<1>2. CASE p >= 0
  <2>1. r \div Step(p) \in Int /\ (-r) \div Step(p) \in Int
    BY <1>2
  <2> QED BY <1>2, <2>1 DEF Scaled, Trunc
<1> QED BY <1>1, <1>2

\* The numbers of an entry.
Numbers(e) == /\ e.low \in Int /\ e.high \in Int /\ e.precision \in Int
              /\ e.precision >= 0 => Step(e.precision) \in Nat \ {0}

\* A standard that is found is that of the last usable entry of its type.
LEMMA StandardIs ==
  ASSUME NEW f \in Files, NEW t
  PROVE  LET of == {i \in StandardCleaning(f) : f[i].type = t}
         IN  /\ Len(f) \in Nat /\ DOMAIN f = 1 .. Len(f)
             /\ \A i \in 1 .. Len(f) : Numbers(f[i])
             /\ of = {} <=> StandardOf(f, t) = NoStandard
             /\ of # {} => \E i \in of :
                   /\ \A j \in of : j <= i
                   /\ StandardOf(f, t) = [low |-> Scaled(f[i].low, f[i].precision),
                                          high |-> Scaled(f[i].high, f[i].precision),
                                          precision |-> f[i].precision]
                   /\ StandardOf(f, t) \in [low : Int, high : Int, precision : Int]
<1> DEFINE of == {i \in StandardCleaning(f) : f[i].type = t}
           n == Len(f)
           Best(i) == i \in of /\ \A j \in of : j <= i
           b == CHOOSE i \in of : \A j \in of : j <= i
           s == [low |-> Scaled(f[b].low, f[b].precision),
                 high |-> Scaled(f[b].high, f[b].precision), precision |-> f[b].precision]
<1>1. /\ f \in Seq({f[i] : i \in DOMAIN f})
      /\ \A i \in 1 .. Len(f) : Numbers(f[i])
  BY Inputs DEF Numbers
<1>2. n \in Nat /\ DOMAIN f = 1 .. n
  <2> DEFINE T == {f[i] : i \in DOMAIN f}
  <2>1. f \in Seq(T)
    BY <1>1
  <2> HIDE DEF T
  <2> QED BY <2>1
<1>3. of \subseteq 1 .. n
  BY DEF StandardCleaning
<1>4. ASSUME of # {} PROVE \E i \in of : \A j \in of : j <= i
  <2> DEFINE T == {n - i : i \in of}
  <2>1. T \subseteq Nat /\ T # {}
    BY <1>2, <1>3, <1>4
  <2>2. PICK k \in T : \A l \in T : k <= l
    BY <2>1, Least
  <2>3. PICK i \in of : k = n - i
    BY <2>2
  <2>4. \A j \in of : n - i <= n - j
    BY <2>2, <2>3
  <2>5. \A j \in of : j <= i
    BY <1>2, <1>3, <2>3, <2>4
  <2> QED BY <2>3, <2>5
<1>5. ASSUME of # {} PROVE b \in of /\ \A j \in of : j <= b
  BY <1>4, <1>5
<1>6. of = {} => StandardOf(f, t) = NoStandard
  BY DEF StandardOf
<1>7. of # {} => StandardOf(f, t) = s
  BY DEF StandardOf
<1>8. of # {} => s \in [low : Int, high : Int, precision : Int]
  <2>1. SUFFICES ASSUME of # {} PROVE s \in [low : Int, high : Int, precision : Int]
    OBVIOUS
  <2>2. b \in 1 .. n
    BY <1>3, <1>5, <2>1
  <2> HIDE DEF b
  <2>3. Numbers(f[b])
    BY <1>1, <2>2
  <2>4. Scaled(f[b].low, f[b].precision) \in Int /\ Scaled(f[b].high, f[b].precision) \in Int
    BY <2>3, TruncType DEF Numbers
  <2> QED BY <2>3, <2>4 DEF Numbers
<1>9. of # {} => StandardOf(f, t) # NoStandard
  BY <1>7, <1>8, Inputs
<1> HIDE DEF b, of
<1>10. of # {} => \E i \in of :
                   /\ \A j \in of : j <= i
                   /\ StandardOf(f, t) = [low |-> Scaled(f[i].low, f[i].precision),
                                          high |-> Scaled(f[i].high, f[i].precision),
                                          precision |-> f[i].precision]
                   /\ StandardOf(f, t) \in [low : Int, high : Int, precision : Int]
  BY <1>5, <1>7, <1>8
<1> QED BY <1>1, <1>2, <1>6, <1>9, <1>10 DEF of

-----------------------------------------------------------------------------
(* The invariant                                                           *)

Proofs == [V : Seq(Points), A : Points, S : Points, T1 : Points, T2 : Points, taux : Int,
           mu : Int, tHat : Int, LS : Seq(Points), RS : Seq(Points), a : Int, b : Int]

Begun == {"poly", "evaluate", "rounds", "made", "accepted", "rejected"}

\* What is proved in the call, and by which standard.
Call ==
    /\ kind \in {"aggregate", "single"}
    /\ phase \in {"render", "refused", "commit"} \cup Begun
    /\ kind = "aggregate" => file \in Files /\ reading \in Readings
    /\ kind = "single" => /\ phase \notin {"render", "refused"}
                          /\ \E w \in SingleValues : v = <<w>>
    /\ phase = "refused" => StandardOf(file, 1) = NoStandard
    /\ kind = "aggregate" /\ phase \notin {"render", "refused"} =>
          rs = StandardOf(file, 1) /\ rs # NoStandard /\ v = RawToMaterial(reading, rs)

\* Types of the proof and the challenges.
Typed ==
    /\ proof \in Proofs
    /\ ch \in [y : Int, z : Int, x : Int, c : Int, rounds : Seq(Int)]
    /\ phase \notin {"rounds", "made", "accepted", "rejected"} =>
          proof.LS = <<>> /\ proof.RS = <<>> /\ ch.rounds = <<>>

\* The secret is that of the witness, V, A and S commit to it.
Committed ==
    phase \in Begun =>
        /\ secret \in Secrets(Len(v), N * Len(v))
        /\ secret.aL = VectorDecompose(v) /\ secret.aR = ComputeAR(secret.aL)
        /\ CommittedTo(proof, secret)
        /\ proof.V = [j \in 1 .. Len(v) |-> PedersenCommit(v[j], secret.gamma[j])]

\* T1 and T2 commit to the coefficients of the polynomial.
Posed ==
    phase \in Begun \ {"poly"} =>
        /\ ch.y \in Y /\ ch.z \in Z
        /\ proof.T1 = PedersenCommit(t1(secret, ch.y, ch.z), secret.tau1)
        /\ proof.T2 = PedersenCommit(t2(secret, ch.y), secret.tau2)

\* The polynomial and the blindings at x.
Answered ==
    phase \in Begun \ {"poly", "evaluate"} =>
        /\ ch.x \in X /\ ch.c \in C
        /\ proof.taux = TauX(secret, ch.z, ch.x)
        /\ proof.mu = (secret.alpha + secret.rho * ch.x) % Order
        /\ proof.tHat = THat(kind, v, secret, ch.y, ch.z, ch.x)

Halved ==
    phase \in Begun \ {"poly", "evaluate"} =>
        RoundsOf(kind, secret, N * Len(v), proof, ch, ip)

\* The proof ends with what is left of the vectors, and was judged by that.
Closed ==
    /\ phase \in {"made", "accepted", "rejected"} =>
          Len(ip.a) = 1 /\ proof.a = ip.a[1] /\ proof.b = ip.b[1]
    /\ phase = "accepted" => VerifyTHat /\ InnerProductVerifier
    /\ phase = "rejected" => ~(VerifyTHat /\ InnerProductVerifier)

Inv == Call /\ Typed /\ Committed /\ Posed /\ Answered /\ Halved /\ Closed

\* The witness is one value or two.
LEMMA WitnessIs ==
  ASSUME Call, phase \notin {"render", "refused"}
  PROVE  /\ Len(v) \in {1, 2} /\ v \in Vectors(Len(v), Int)
         /\ kind = "single" => Len(v) = 1
         /\ kind = "aggregate" => Len(v) = 2
<1>1. CASE kind = "single"
  <2>1. PICK w \in SingleValues : v = <<w>>
    BY <1>1 DEF Call
  <2>2. w \in Int
    BY Inputs, OrderIsPrime
  <2>3. Len(v) = 1 /\ v \in [1 .. 1 -> Int]
    BY <2>1, <2>2
  <2> QED BY <1>1, <2>3 DEF Vectors
<1>2. CASE kind = "aggregate"
  <2>1. rs = StandardOf(file, 1) /\ rs # NoStandard /\ v = RawToMaterial(reading, rs)
        /\ file \in Files /\ reading \in Int
    BY <1>2, Inputs DEF Call
  <2>2. rs \in [low : Int, high : Int, precision : Int]
    BY <2>1, StandardIs
  <2>3. rs.low \in Int /\ rs.high \in Int /\ rs.precision \in Int
    BY <2>2
  <2>a. rs.precision >= 0 => Step(rs.precision) \in Nat \ {0}
    <3> DEFINE of == {i \in StandardCleaning(file) : file[i].type = 1}
    <3>1. \A i \in 1 .. Len(file) : Numbers(file[i])
      BY <2>1, StandardIs
    <3>2. PICK i \in of : rs = [low |-> Scaled(file[i].low, file[i].precision),
                                high |-> Scaled(file[i].high, file[i].precision),
                                precision |-> file[i].precision]
      BY <2>1, StandardIs
    <3>3. i \in 1 .. Len(file)
      BY <3>2 DEF StandardCleaning
    <3>4. Numbers(file[i])
      BY <3>1, <3>3
    <3>5. rs.precision = file[i].precision
      BY <3>2
    <3> QED BY <3>4, <3>5 DEF Numbers
  <2>4. Scaled(reading, rs.precision) \in Int
    BY <2>1, <2>3, <2>a, TruncType
  <2>5. v = <<Scaled(reading, rs.precision) - rs.low, rs.high - Scaled(reading, rs.precision)>>
    BY <2>1 DEF RawToMaterial
  <2>6. Len(v) = 2 /\ v \in [1 .. 2 -> Int]
    BY <2>3, <2>4, <2>5
  <2> QED BY <1>2, <2>6 DEF Vectors
<1> QED BY <1>1, <1>2 DEF Call

\* The invariant holds at first, ...
LEMMA Init_Inv == Init => Inv
<1> SUFFICES ASSUME Init PROVE Inv
  OBVIOUS
<1> USE DEF Init
<1>1. Call
  <2>1. kind = "aggregate" => phase = "render" /\ file \in Files /\ reading \in Readings
    OBVIOUS
  <2>2. kind = "single" => phase = "commit" /\ v \in {<<w>> : w \in SingleValues}
    OBVIOUS
  <2> QED BY <2>1, <2>2 DEF Call
<1>2. Infinity \in Points
  BY OrderIsPrime DEF Points, Infinity, Fp
<1>3. Typed
  <2>1. <<>> \in Seq(Points) /\ <<>> \in Seq(Int)
    OBVIOUS
  <2> QED BY <1>2, <2>1 DEF Typed, Proofs, NoProof, NoChallenges
<1>4. phase \notin Begun
  BY DEF Begun
<1> QED BY <1>1, <1>3, <1>4 DEF Inv, Committed, Posed, Answered, Halved, Closed, Begun

\* Every challenge is an integer that is not zero in the field.
LEMMA ChallengeTypes ==
  /\ Y \subseteq Challenges /\ Z \subseteq Challenges /\ X \subseteq Challenges
  /\ C \subseteq Challenges /\ R \subseteq Challenges /\ Challenges \subseteq Int
  /\ \A a \in Challenges : ~Cg(a, 0)
<1>1. Challenges \subseteq Int /\ \A a \in Challenges : ~Cg(a, 0)
  BY NonZero DEF Challenges
<1> QED BY <1>1, Parameters DEF Challenges

\* The vectors of the call have N elements for each value.
LEMMA SizeIs ==
  ASSUME Call, phase \notin {"render", "refused"}
  PROVE  LET n == N * Len(v)
         IN  /\ Len(v) \in {1, 2} /\ n \in Nat /\ n >= 2 /\ n \in 1 .. 2 * N
             /\ LogOf(n) \in Nat /\ 2^LogOf(n) = n
<1>1. Len(v) \in {1, 2}
  BY WitnessIs
<1> QED BY <1>1, LogIs

\* ... when the standard is rendered, ...
LEMMA Render_Inv == Inv /\ Render => Inv'
<1> SUFFICES ASSUME Inv, Render PROVE Inv'
  OBVIOUS
<1>0. phase = "render" /\ phase' \in {"refused", "commit"}
  BY DEF Render
<1>1. kind = "aggregate" /\ kind' = kind /\ file \in Files /\ reading \in Readings
  BY <1>0 DEF Inv, Call, Render
<1>2. Call'
  <2>1. file' = file /\ reading' = reading /\ rs' = StandardOf(file, 1)
    BY DEF Render
  <2>2. CASE rs' = NoStandard
    <3>1. phase' = "refused"
      BY <2>1, <2>2 DEF Render
    <3> QED BY <1>1, <2>1, <2>2, <3>1 DEF Call
  <2>3. CASE rs' # NoStandard
    <3>1. phase' = "commit" /\ v' = RawToMaterial(reading, rs')
      BY <2>1, <2>3 DEF Render
    <3> QED BY <1>1, <2>1, <2>3, <3>1 DEF Call
  <2> QED BY <2>2, <2>3
<1>3. Typed'
  BY <1>0 DEF Inv, Typed, Render
<1>4. phase' \notin Begun
  BY <1>0 DEF Begun
<1> QED BY <1>2, <1>3, <1>4 DEF Inv, Committed, Posed, Answered, Halved, Closed, Begun

\* ... when the witness is committed to, ...
LEMMA Commit_Inv == Inv /\ Commit => Inv'
<1> SUFFICES ASSUME Inv, Commit PROVE Inv'
  OBVIOUS
<1>0. phase = "commit" /\ phase' = "poly"
      /\ UNCHANGED <<kind, file, reading, rs, v, ch, ip>>
  BY DEF Commit
<1> DEFINE m == Len(v)
           n == N * m
<1>1. m \in {1, 2} /\ v \in Vectors(m, Int)
  BY <1>0, WitnessIs DEF Inv
<1>2. n \in Nat
  BY <1>1, LogIs
<1>3. PICK tape \in Tapes :
          /\ secret' = Drawn(tape, v, m)
          /\ proof' = [proof EXCEPT
                          !.V = [j \in 1 .. m |-> PedersenCommit(v[j], tape[j])],
                          !.A = VectorCommit(VectorDecompose(v), ComputeAR(VectorDecompose(v)), tape[m + 1]),
                          !.S = VectorCommit(SubSeq(tape, m + 2, m + 1 + n),
                                             SubSeq(tape, m + 2 + n, m + 1 + 2 * n),
                                             tape[m + 2 + 2 * n])]
  BY DEF Commit, Drawn
<1> DEFINE s == Drawn(tape, v, m)
<1>4. s \in Secrets(m, n)
  BY <1>1, DrawnIs
<1>5. \A j \in 1 .. m : tape[j] = s.gamma[j]
  <2>1. m \in Int /\ \A i \in 1 .. m : tape[i] \in Int
    <3>1. tape \in Seq(Int) /\ Len(tape) >= 6 + 4 * N /\ N \in Nat
      BY Inputs, NIsNat
    <3> DEFINE l == Len(tape)
    <3>2. l \in Nat /\ l >= 6 + 4 * N
      BY <3>1
    <3> HIDE DEF l, m
    <3>3. l >= m /\ m \in Nat
      BY <1>1, <3>1, <3>2
    <3> QED BY <3>1, <3>2, <3>3 DEF l
  <2>2. \A i \in 1 .. m - 1 + 1 : SubSeq(tape, 1, m)[i] = tape[1 + i - 1]
    BY <2>1, SubSeqProperties
  <2>3. ASSUME NEW j \in 1 .. m PROVE SubSeq(tape, 1, m)[j] = tape[j]
    <3>1. j \in 1 .. m - 1 + 1 /\ 1 + j - 1 = j
      BY <2>1
    <3> QED BY <2>2, <3>1
  <2>4. s.gamma = SubSeq(tape, 1, m)
    BY DEF Drawn
  <2> QED BY <2>3, <2>4
<1> DEFINE Vs == [j \in 1 .. m |-> PedersenCommit(v[j], s.gamma[j])]
           A == VectorCommit(s.aL, s.aR, s.alpha)
           S == VectorCommit(s.sL, s.sR, s.rho)
<1>6. proof' = [proof EXCEPT !.V = Vs, !.A = A, !.S = S]
  <2>1. Vs = [j \in 1 .. m |-> PedersenCommit(v[j], tape[j])]
    BY <1>5
  <2>2. /\ s.aL = VectorDecompose(v) /\ s.aR = ComputeAR(VectorDecompose(v)) /\ s.alpha = tape[m + 1]
        /\ s.sL = SubSeq(tape, m + 2, m + 1 + n)
        /\ s.sR = SubSeq(tape, m + 2 + n, m + 1 + 2 * n) /\ s.rho = tape[m + 2 + 2 * n]
    BY DEF Drawn
  <2> HIDE DEF Vs, s, n, m
  <2> QED BY <1>3, <2>1, <2>2
<1>7. s.aL = VectorDecompose(v) /\ s.aR = ComputeAR(s.aL)
  BY DEF Drawn
<1> HIDE DEF s, n
<1>8. /\ s.gamma \in Vectors(m, Int) /\ s.alpha \in Int /\ s.rho \in Int
      /\ s.aL \in Vectors(n, Int) /\ s.aR \in Vectors(n, Int)
      /\ s.sL \in Vectors(n, Int) /\ s.sR \in Vectors(n, Int)
  BY <1>4 DEF Secrets
<1>9. A \in Points /\ S \in Points
  BY <1>2, <1>8, VectorCommitIs
<1>10. Vs \in Seq(Points)
  <2>1. \A j \in 1 .. m : v[j] \in Int /\ s.gamma[j] \in Int
    BY <1>1, <1>8 DEF Vectors
  <2>2. \A j \in 1 .. m : PedersenCommit(v[j], s.gamma[j]) \in Points
    BY <2>1, PedersenIs
  <2>3. m \in Nat
    BY <1>1
  <2> HIDE DEF m
  <2>4. Vs \in [1 .. m -> Points]
    BY <2>2
  <2> QED BY <2>3, <2>4
<1> HIDE DEF Vs, A, S
<1>11. proof \in Proofs /\ proof.LS = <<>> /\ proof.RS = <<>> /\ ch.rounds = <<>>
  BY <1>0 DEF Inv, Typed
<1>12. /\ proof' \in Proofs /\ proof'.V = Vs /\ proof'.A = A /\ proof'.S = S
       /\ proof'.LS = <<>> /\ proof'.RS = <<>>
  BY <1>6, <1>9, <1>10, <1>11 DEF Proofs
<1>13. Call'
  BY <1>0 DEF Inv, Call, Begun
<1>14. Typed'
  BY <1>0, <1>11, <1>12 DEF Inv, Typed
<1>15. Committed'
  <2>1. secret' = s /\ v' = v
    BY <1>0, <1>3 DEF s
  <2>2. CommittedTo(proof', s)
    BY <1>12 DEF CommittedTo, A, S
  <2> QED BY <1>4, <1>7, <1>12, <2>1, <2>2 DEF Committed, Vs, n
<1> QED BY <1>0, <1>13, <1>14, <1>15 DEF Inv, Posed, Answered, Halved, Closed, Begun

\* ... when the coefficients are, ...
LEMMA CommitPoly_Inv == Inv /\ CommitPoly => Inv'
<1> SUFFICES ASSUME Inv, CommitPoly PROVE Inv'
  OBVIOUS
<1>0. phase = "poly" /\ phase' = "evaluate"
      /\ UNCHANGED <<kind, file, reading, rs, v, secret, ip>>
  BY DEF CommitPoly
<1>1. PICK y \in Y, z \in Z :
          /\ ch' = [ch EXCEPT !.y = y, !.z = z]
          /\ proof' = [proof EXCEPT !.T1 = PedersenCommit(t1(secret, y, z), secret.tau1),
                                    !.T2 = PedersenCommit(t2(secret, y), secret.tau2)]
  BY DEF CommitPoly
<1> DEFINE T1 == PedersenCommit(t1(secret, y, z), secret.tau1)
           T2 == PedersenCommit(t2(secret, y), secret.tau2)
<1>2. y \in Int /\ z \in Int
  BY ChallengeTypes
<1>3. /\ secret \in Secrets(Len(v), N * Len(v)) /\ CommittedTo(proof, secret)
      /\ proof.V = [j \in 1 .. Len(v) |-> PedersenCommit(v[j], secret.gamma[j])]
  BY <1>0 DEF Inv, Committed, Begun
<1>4. N * Len(v) \in Nat
  BY <1>0, SizeIs DEF Inv
<1>5. t1(secret, y, z) \in Int /\ t2(secret, y) \in Int
  BY <1>2, <1>3, <1>4, CoefficientsAre
<1>6. T1 \in Points /\ T2 \in Points
  <2>1. secret.tau1 \in Int /\ secret.tau2 \in Int
    BY <1>3 DEF Secrets
  <2> QED BY <1>5, <2>1, PedersenIs
<1> HIDE DEF T1, T2
<1>7. /\ proof \in Proofs /\ proof.LS = <<>> /\ proof.RS = <<>> /\ ch.rounds = <<>>
      /\ ch \in [y : Int, z : Int, x : Int, c : Int, rounds : Seq(Int)]
  BY <1>0 DEF Inv, Typed
<1>8. proof' = [proof EXCEPT !.T1 = T1, !.T2 = T2]
  BY <1>1 DEF T1, T2
<1>9. /\ proof' \in Proofs /\ proof'.V = proof.V /\ proof'.A = proof.A /\ proof'.S = proof.S
      /\ proof'.LS = <<>> /\ proof'.RS = <<>> /\ proof'.T1 = T1 /\ proof'.T2 = T2
  BY <1>6, <1>7, <1>8 DEF Proofs
<1>10. /\ ch' \in [y : Int, z : Int, x : Int, c : Int, rounds : Seq(Int)]
       /\ ch'.y = y /\ ch'.z = z /\ ch'.rounds = <<>>
  BY <1>1, <1>2, <1>7
<1>11. Call'
  BY <1>0 DEF Inv, Call, Begun
<1>12. Typed'
  BY <1>0, <1>9, <1>10 DEF Typed
<1>13. Committed'
  <2>1. Committed /\ phase \in Begun
    BY <1>0 DEF Inv, Begun
  <2>2. CommittedTo(proof', secret)
    BY <1>3, <1>9 DEF CommittedTo
  <2> QED BY <1>0, <1>3, <1>9, <2>1, <2>2 DEF Committed
<1>14. Posed'
  BY <1>0, <1>9, <1>10 DEF Posed, T1, T2
<1> QED BY <1>0, <1>11, <1>12, <1>13, <1>14 DEF Inv, Answered, Halved, Closed, Begun

\* What holds of the answers in the phases after them.
LEMMA AnsweredIs ==
  ASSUME Inv, phase \in Begun \ {"poly", "evaluate"}
  PROVE  LET n == N * Len(v)
         IN  /\ Len(v) \in {1, 2} /\ n \in Nat /\ n >= 2 /\ n \in 1 .. 2 * N
             /\ LogOf(n) \in Nat /\ 2^LogOf(n) = n
             /\ secret \in Secrets(Len(v), n) /\ CommittedTo(proof, secret)
             /\ ch.y \in Challenges /\ ch.z \in Challenges /\ ch.x \in Challenges
             /\ ch.c \in Challenges /\ ch.y \in Int /\ ch.z \in Int /\ ch.x \in Int /\ ch.c \in Int
             /\ proof.mu = (secret.alpha + secret.rho * ch.x) % Order
             /\ proof.tHat = THat(kind, v, secret, ch.y, ch.z, ch.x) /\ proof.tHat \in Int
             /\ Excess(proof, secret, n, ch) \in Int
             /\ Start(kind, proof, secret, n, ch) \in Instances(n)
             /\ RoundsOf(kind, secret, n, proof, ch, ip)
<1> DEFINE n == N * Len(v)
<1>1. /\ Len(v) \in {1, 2} /\ n \in Nat /\ n >= 2 /\ n \in 1 .. 2 * N
      /\ LogOf(n) \in Nat /\ 2^LogOf(n) = n
  <2>1. phase \notin {"render", "refused"}
    BY DEF Begun
  <2> QED BY <2>1, SizeIs DEF Inv
<1>2. secret \in Secrets(Len(v), n) /\ CommittedTo(proof, secret)
  BY DEF Inv, Committed
<1>3. /\ ch.y \in Challenges /\ ch.z \in Challenges /\ ch.x \in Challenges
      /\ ch.c \in Challenges /\ ch.y \in Int /\ ch.z \in Int /\ ch.x \in Int /\ ch.c \in Int
  BY ChallengeTypes DEF Inv, Posed, Answered
<1>4. /\ proof.mu = (secret.alpha + secret.rho * ch.x) % Order
      /\ proof.tHat = THat(kind, v, secret, ch.y, ch.z, ch.x)
  BY DEF Inv, Answered
<1>5. proof.tHat \in Int
  BY DEF Inv, Typed, Proofs
<1>6. RoundsOf(kind, secret, n, proof, ch, ip)
  BY DEF Inv, Halved
<1> HIDE DEF n
<1>7. Start(kind, proof, secret, n, ch) \in Instances(n)
  <2>1. ch.y \in 1 .. Order - 1 /\ ch.z \in 1 .. Order - 1
    BY <1>3 DEF Challenges
  <2> QED BY <1>1, <1>2, <1>3, <1>4, <1>5, <2>1, StartRelation DEF Start
<1>8. Excess(proof, secret, n, ch) \in Int
  <2>1. Lx(secret, ch.z, ch.x) \in Vectors(n, Int) /\ Rx(secret, ch.y, ch.z, ch.x) \in Vectors(n, Int)
    BY <1>1, <1>2, <1>3, LxIs, RxIs
  <2>2. Sum(Terms(Lx(secret, ch.z, ch.x), Rx(secret, ch.y, ch.z, ch.x), n), n) \in Int
    BY <1>1, <2>1, TermsAreInts, SumType
  <2> QED BY <1>5, <2>2 DEF Excess
<1> QED BY <1>1, <1>2, <1>3, <1>4, <1>5, <1>6, <1>7, <1>8 DEF n

\* ... when the polynomial is evaluated, ...
LEMMA Evaluate_Inv == Inv /\ Evaluate => Inv'
<1> SUFFICES ASSUME Inv, Evaluate PROVE Inv'
  OBVIOUS
<1>0. phase = "evaluate" /\ phase' = "rounds"
      /\ UNCHANGED <<kind, file, reading, rs, v, secret>>
  BY DEF Evaluate
<1> DEFINE m == Len(v)
           n == N * m
<1>1. /\ secret \in Secrets(m, n) /\ CommittedTo(proof, secret)
      /\ proof.V = [j \in 1 .. m |-> PedersenCommit(v[j], secret.gamma[j])]
  BY <1>0 DEF Inv, Committed, Begun
<1>2. /\ m \in {1, 2} /\ n \in Nat /\ v \in Vectors(m, Int) /\ kind \in {"aggregate", "single"}
  BY <1>0, SizeIs, WitnessIs DEF Inv, Call
<1>3. Len(secret.aL) = n
  <2>1. secret.aL \in Vectors(n, Int)
    BY <1>1 DEF Secrets
  <2> HIDE DEF n
  <2> QED BY <1>2, <2>1, VectorLen
<1>4. ch.y \in Challenges /\ ch.z \in Challenges /\ ch.y \in Int /\ ch.z \in Int /\ ch.y \in Y /\ ch.z \in Z
  BY <1>0, ChallengeTypes DEF Inv, Posed, Begun
<1>5. PICK x \in X, c \in C :
         LET nm == Len(secret.aL)
             made == [proof EXCEPT !.taux = TauX(secret, ch.z, x),
                                   !.mu = (secret.alpha + secret.rho * x) % Order,
                                   !.tHat = THat(kind, v, secret, ch.y, ch.z, x)]
             start == Protocol1(UpdateP(made, nm, x, ch.y, ch.z), u(kind), made.tHat, c)
         IN  /\ proof' = made
             /\ ch' = [ch EXCEPT !.x = x, !.c = c]
             /\ ip' = [a |-> Lx(secret, ch.z, x), b |-> Rx(secret, ch.y, ch.z, x),
                       g |-> gVector(nm), h |-> GenerateHprime(nm, ch.y),
                       P |-> start.P, u |-> start.u]
  BY DEF Evaluate
<1>6. x \in Challenges /\ c \in Challenges /\ x \in Int /\ c \in Int
  BY ChallengeTypes
<1> DEFINE tx == TauX(secret, ch.z, x)
           mu == (secret.alpha + secret.rho * x) % Order
           th == THat(kind, v, secret, ch.y, ch.z, x)
<1>7. tx \in Int /\ mu \in Int /\ th \in Int
  <2>1. m \in Nat
    BY <1>2
  <2>2. tx \in Int
    BY <1>1, <1>4, <1>6, <2>1, TauXIs
  <2>3. v[1] \in Int
    BY <1>2 DEF Vectors
  <2>4. th \in Int
    BY <1>1, <1>2, <1>4, <1>6, <2>3, THatIs
  <2>5. secret.alpha + secret.rho * x \in Int
    <3>1. secret.alpha \in Int /\ secret.rho \in Int
      BY <1>1 DEF Secrets
    <3> QED BY <1>6, <3>1
  <2> QED BY <2>2, <2>4, <2>5, CgMod
<1> HIDE DEF tx, mu, th
<1>8. /\ proof \in Proofs /\ proof.LS = <<>> /\ proof.RS = <<>> /\ ch.rounds = <<>>
      /\ ch \in [y : Int, z : Int, x : Int, c : Int, rounds : Seq(Int)]
  BY <1>0 DEF Inv, Typed
<1>9. proof' = [proof EXCEPT !.taux = tx, !.mu = mu, !.tHat = th]
  BY <1>5 DEF tx, mu, th
<1>10. /\ proof' \in Proofs /\ proof'.V = proof.V /\ proof'.A = proof.A /\ proof'.S = proof.S
       /\ proof'.T1 = proof.T1 /\ proof'.T2 = proof.T2
       /\ proof'.LS = <<>> /\ proof'.RS = <<>>
       /\ proof'.taux = tx /\ proof'.mu = mu /\ proof'.tHat = th
  BY <1>7, <1>8, <1>9 DEF Proofs
<1>11. /\ ch' \in [y : Int, z : Int, x : Int, c : Int, rounds : Seq(Int)]
       /\ ch'.y = ch.y /\ ch'.z = ch.z /\ ch'.rounds = <<>> /\ ch'.x = x /\ ch'.c = c
  BY <1>5, <1>6, <1>8
<1>12. CommittedTo(proof', secret)
  BY <1>1, <1>10 DEF CommittedTo
<1>13. ip' = Start(kind, proof', secret, n, ch')
  BY <1>3, <1>5, <1>11 DEF Start, StartOf
<1>14. RoundsOf(kind, secret, n, proof', ch', ip')
  <2> DEFINE p1 == proof'
             c1 == ch'
  <2>1. /\ p1.mu = (secret.alpha + secret.rho * c1.x) % Order /\ p1.tHat \in Int
        /\ p1.LS = <<>> /\ p1.RS = <<>>
        /\ c1.y \in Challenges /\ c1.z \in Challenges /\ c1.x \in Int /\ c1.c \in Int
        /\ c1.rounds = <<>> /\ CommittedTo(p1, secret)
    BY <1>4, <1>6, <1>7, <1>10, <1>11, <1>12 DEF mu
  <2>2. n = N * m
    OBVIOUS
  <2> HIDE DEF p1, c1, n, m
  <2>3. RoundsOf(kind, secret, n, p1, c1, Start(kind, p1, secret, n, c1))
    BY <1>1, <1>2, <2>1, <2>2, RoundsStart
  <2> QED BY <1>13, <2>3 DEF p1, c1
<1>15. Call'
  BY <1>0 DEF Inv, Call, Begun
<1>16. Typed'
  BY <1>0, <1>10, <1>11 DEF Typed
<1>17. Committed'
  <2>1. Committed /\ phase \in Begun
    BY <1>0 DEF Inv, Begun
  <2> QED BY <1>0, <1>1, <1>10, <1>12, <2>1 DEF Committed
<1>18. Posed'
  <2>1. Posed /\ phase \in Begun \ {"poly"}
    BY <1>0 DEF Inv, Begun
  <2> QED BY <1>0, <1>4, <1>10, <1>11, <2>1 DEF Posed
<1>19. Answered'
  BY <1>0, <1>5, <1>10, <1>11 DEF Answered, tx, mu, th
<1>20. Halved'
  BY <1>0, <1>14 DEF Halved
<1> QED BY <1>0, <1>15, <1>16, <1>17, <1>18, <1>19, <1>20 DEF Inv, Closed, Begun

\* ... in every round, ...
LEMMA Fold_Inv == Inv /\ Fold => Inv'
<1> SUFFICES ASSUME Inv, Fold PROVE Inv'
  OBVIOUS
<1>0. phase = "rounds" /\ UNCHANGED <<phase, kind, file, reading, rs, v, secret>>
      /\ Len(ip.a) > 1
      /\ proof' = [proof EXCEPT !.LS = Append(@, CrossL(ip)), !.RS = Append(@, CrossR(ip))]
  BY DEF Fold
<1>1. PICK x \in R : ip' = Folded(ip, x) /\ ch' = [ch EXCEPT !.rounds = Append(@, x)]
  BY DEF Fold
<1>2. x \in Challenges /\ x \in Int
  BY ChallengeTypes
<1> DEFINE n == N * Len(v)
           r == Len(ch.rounds)
           K == LogOf(n)
           l == 2^(K - r)
           L == CrossL(ip)
           Rr == CrossR(ip)
<1>3. phase \in Begun \ {"poly", "evaluate"}
  BY <1>0 DEF Begun
<1>4. /\ n \in 1 .. 2 * N /\ K \in Nat /\ ch.y \in Challenges
      /\ secret \in Secrets(Len(v), n) /\ CommittedTo(proof, secret)
      /\ Excess(proof, secret, n, ch) \in Int
      /\ Start(kind, proof, secret, n, ch).P \in Points
      /\ RoundsAt(kind, secret, n, proof, ch, ip, K, l)
  <2>1. Start(kind, proof, secret, n, ch) \in Instances(n)
    BY <1>3, AnsweredIs
  <2>2. Start(kind, proof, secret, n, ch).P \in Points
    BY <2>1 DEF Instances
  <2> QED BY <1>3, <2>2, AnsweredIs DEF RoundsOf
<1>5. /\ proof \in Proofs
      /\ ch \in [y : Int, z : Int, x : Int, c : Int, rounds : Seq(Int)]
  BY DEF Inv, Typed
<1> HIDE DEF n, K, L, Rr
<1>6. l \in Nat /\ l > 1
  <2>1. K - r \in Nat
    <3>1. r \in Nat /\ r <= K
      BY <1>4, <1>5 DEF RoundsAt
    <3> QED BY <1>4, <3>1
  <2>2. l \in Nat
    BY <2>1, TwoPositive
  <2>3. ip.a \in Vectors(l, Int)
    BY <1>4 DEF RoundsAt, Instances
  <2> HIDE DEF l
  <2>4. Len(ip.a) = l
    BY <2>2, <2>3, VectorLen
  <2> QED BY <1>0, <2>2, <2>4
<1> HIDE DEF l
<1>7. L \in Points /\ Rr \in Points
  <2>1. r + 1 <= K
        /\ RoundsAt(kind, secret, n, [proof EXCEPT !.LS = Append(@, L), !.RS = Append(@, Rr)],
                    ch', Folded(ip, x), K, 2^(K - (r + 1)))
    <3> DEFINE p1 == [proof EXCEPT !.LS = Append(@, L), !.RS = Append(@, Rr)]
               c1 == ch'
    <3>1. SameStart(proof, p1, ch, c1)
      BY <1>1, <1>5 DEF SameStart, Proofs
    <3>2. p1.LS = Append(proof.LS, L) /\ p1.RS = Append(proof.RS, Rr)
      BY <1>5 DEF Proofs
    <3>3. c1.rounds = Append(ch.rounds, x)
      BY <1>1, <1>5
    <3> HIDE DEF p1, c1
    <3>4. r + 1 <= K /\ RoundsAt(kind, secret, n, p1, c1, Folded(ip, x), K, 2^(K - (r + 1)))
      BY <1>2, <1>4, <1>6, <3>1, <3>2, <3>3, RoundsFold DEF L, Rr
    <3> QED BY <3>4 DEF p1, c1
  <2> DEFINE p1 == [proof EXCEPT !.LS = Append(@, L), !.RS = Append(@, Rr)]
  <2>2. p1.LS = Append(proof.LS, L) /\ p1.RS = Append(proof.RS, Rr) /\ ch'.rounds = Append(ch.rounds, x)
    BY <1>1, <1>5 DEF Proofs
  <2>3. p1.LS \in Vectors(r + 1, Points) /\ p1.RS \in Vectors(r + 1, Points)
    <3>1. Len(ch'.rounds) = r + 1
      BY <1>5, <2>2
    <3> QED BY <2>1, <3>1 DEF RoundsAt
  <2>4. Len(proof.LS) = r /\ Len(proof.RS) = r /\ r \in Nat
    <3>1. proof.LS \in Vectors(r, Points) /\ proof.RS \in Vectors(r, Points)
      BY <1>4 DEF RoundsAt
    <3>2. r \in Nat
      BY <1>5
    <3> HIDE DEF r
    <3> QED BY <3>1, <3>2, VectorLen
  <2>5. Append(proof.LS, L)[r + 1] = L /\ Append(proof.RS, Rr)[r + 1] = Rr
    <3>1. proof.LS \in Seq(Points) /\ proof.RS \in Seq(Points)
      BY <1>5 DEF Proofs
    <3> QED BY <2>4, <3>1
  <2>6. r + 1 \in 1 .. r + 1
    BY <2>4
  <2> HIDE DEF p1, r
  <2> QED BY <2>2, <2>3, <2>5, <2>6 DEF Vectors
<1>8. proof' = [proof EXCEPT !.LS = Append(@, L), !.RS = Append(@, Rr)]
  BY <1>0 DEF L, Rr
<1>9. /\ proof' \in Proofs /\ SameStart(proof, proof', ch, ch')
      /\ proof'.LS = Append(proof.LS, L) /\ proof'.RS = Append(proof.RS, Rr)
      /\ proof'.V = proof.V /\ proof'.T1 = proof.T1 /\ proof'.T2 = proof.T2
      /\ proof'.taux = proof.taux
      /\ ch' \in [y : Int, z : Int, x : Int, c : Int, rounds : Seq(Int)]
      /\ ch'.rounds = Append(ch.rounds, x) /\ Len(ch'.rounds) = r + 1
  <2>1. Append(proof.LS, L) \in Seq(Points) /\ Append(proof.RS, Rr) \in Seq(Points)
    BY <1>5, <1>7 DEF Proofs
  <2>2. Append(ch.rounds, x) \in Seq(Int) /\ Len(Append(ch.rounds, x)) = r + 1
    BY <1>2, <1>5
  <2>3. proof' = [proof EXCEPT !.LS = Append(proof.LS, L), !.RS = Append(proof.RS, Rr)]
    BY <1>8
  <2>4. ch' = [ch EXCEPT !.rounds = Append(ch.rounds, x)]
    BY <1>1
  <2> HIDE DEF r
  <2> QED BY <1>5, <2>1, <2>2, <2>3, <2>4 DEF SameStart, Proofs
<1>10. RoundsOf(kind, secret, n, proof', ch', ip')
  <2> DEFINE p1 == proof'
             c1 == ch'
  <2>1. /\ SameStart(proof, p1, ch, c1) /\ p1.LS = Append(proof.LS, L)
        /\ p1.RS = Append(proof.RS, Rr) /\ c1.rounds = Append(ch.rounds, x)
    BY <1>9
  <2> HIDE DEF p1, c1
  <2>2. RoundsAt(kind, secret, n, p1, c1, Folded(ip, x), K, 2^(K - (r + 1)))
    BY <1>2, <1>4, <1>6, <2>1, RoundsFold DEF L, Rr
  <2> QED BY <1>1, <1>9, <2>2 DEF RoundsOf, K, p1, c1
<1>11. Call'
  BY <1>0 DEF Inv, Call, Begun
<1>12. Typed'
  BY <1>0, <1>9 DEF Typed
<1>13. Committed'
  <2>1. CommittedTo(proof', secret)
    BY <1>4, <1>9 DEF CommittedTo, SameStart
  <2>2. Committed /\ phase \in Begun
    BY <1>3 DEF Inv
  <2> QED BY <1>0, <1>9, <2>1, <2>2 DEF Committed
<1>14. Posed'
  <2>1. Posed /\ phase \in Begun \ {"poly"}
    BY <1>3 DEF Inv
  <2>2. ch'.y = ch.y /\ ch'.z = ch.z
    BY <1>9 DEF SameStart
  <2> QED BY <1>0, <1>9, <2>1, <2>2 DEF Posed
<1>15. Answered'
  <2>1. Answered
    BY DEF Inv
  <2>2. /\ ch'.y = ch.y /\ ch'.z = ch.z /\ ch'.x = ch.x /\ ch'.c = ch.c
        /\ proof'.mu = proof.mu /\ proof'.tHat = proof.tHat /\ proof'.taux = proof.taux
    BY <1>9 DEF SameStart
  <2> QED BY <1>0, <1>3, <2>1, <2>2 DEF Answered
<1>16. Halved'
  BY <1>0, <1>10 DEF Halved, n
<1> QED BY <1>0, <1>11, <1>12, <1>13, <1>14, <1>15, <1>16 DEF Inv, Closed, Begun

\* ... after the last one, ...
LEMMA Finish_Inv == Inv /\ Finish => Inv'
<1> SUFFICES ASSUME Inv, Finish PROVE Inv'
  OBVIOUS
<1>0. phase = "rounds" /\ phase' = "made" /\ Len(ip.a) = 1
      /\ UNCHANGED <<kind, file, reading, rs, v, secret, ch, ip>>
      /\ proof' = [proof EXCEPT !.a = ip.a[1], !.b = ip.b[1]]
  BY DEF Finish
<1> DEFINE n == N * Len(v)
<1>1. phase \in Begun \ {"poly", "evaluate"}
  BY <1>0 DEF Begun
<1>2. RoundsOf(kind, secret, n, proof, ch, ip) /\ CommittedTo(proof, secret)
      /\ secret \in Secrets(Len(v), n)
  BY <1>1, AnsweredIs
<1>3. ip.a[1] \in Int /\ ip.b[1] \in Int
  <2> DEFINE l == 2^(LogOf(n) - Len(ch.rounds))
  <2>1. ip.a \in Vectors(l, Int) /\ ip.b \in Vectors(l, Int)
    BY <1>2 DEF RoundsOf, RoundsAt, Instances
  <2>2. l \in Nat
    <3>1. Len(ch.rounds) <= LogOf(n) /\ ch.rounds \in Seq(Challenges)
      BY <1>2 DEF RoundsOf, RoundsAt
    <3>2. LogOf(n) \in Nat /\ Len(ch.rounds) \in Nat
      BY <1>1, <3>1, AnsweredIs
    <3>3. LogOf(n) - Len(ch.rounds) \in Nat
      BY <3>1, <3>2
    <3> QED BY <3>3, TwoPositive
  <2> HIDE DEF l
  <2>3. l = 1
    BY <1>0, <2>1, <2>2, VectorLen
  <2> QED BY <2>1, <2>3 DEF Vectors
<1>4. /\ proof \in Proofs /\ ch \in [y : Int, z : Int, x : Int, c : Int, rounds : Seq(Int)]
  BY DEF Inv, Typed
<1>5. /\ proof' \in Proofs /\ SameStart(proof, proof', ch, ch)
      /\ proof'.LS = proof.LS /\ proof'.RS = proof.RS
      /\ proof'.V = proof.V /\ proof'.T1 = proof.T1 /\ proof'.T2 = proof.T2
      /\ proof'.taux = proof.taux /\ proof'.a = ip.a[1] /\ proof'.b = ip.b[1]
  BY <1>0, <1>3, <1>4 DEF SameStart, Proofs
<1> HIDE DEF n
<1>6. RoundsOf(kind, secret, n, proof', ch, ip)
  <2> DEFINE p1 == proof'
             K == LogOf(n)
             l == 2^(K - Len(ch.rounds))
  <2>1. SameStart(proof, p1, ch, ch) /\ p1.LS = proof.LS /\ p1.RS = proof.RS
    BY <1>5
  <2>2. RoundsAt(kind, secret, n, proof, ch, ip, K, l)
    BY <1>2 DEF RoundsOf
  <2> HIDE DEF p1, K, l
  <2>3. Start(kind, p1, secret, n, ch) = Start(kind, proof, secret, n, ch)
        /\ Excess(p1, secret, n, ch) = Excess(proof, secret, n, ch)
    BY <2>1, StartSame
  <2>4. Transcript(ip, Start(kind, p1, secret, n, ch), p1, ch.rounds)
    BY <2>1, <2>2, <2>3 DEF RoundsAt, Transcript
  <2>5. RoundsAt(kind, secret, n, p1, ch, ip, K, l)
    <3> DEFINE st == Start(kind, p1, secret, n, ch)
               e == Excess(p1, secret, n, ch)
    <3>1. st = Start(kind, proof, secret, n, ch) /\ e = Excess(proof, secret, n, ch)
          /\ Transcript(ip, st, p1, ch.rounds)
      BY <2>3, <2>4
    <3> HIDE DEF st, e
    <3>2. Transcript(ip, Start(kind, p1, secret, n, ch), p1, ch.rounds)
      BY <2>4
    <3> QED BY <2>1, <2>2, <3>1, <3>2 DEF RoundsAt, st, e
  <2> QED BY <2>5 DEF RoundsOf, p1, K, l
<1>7. Call'
  BY <1>0 DEF Inv, Call, Begun
<1>8. Typed'
  BY <1>0, <1>4, <1>5 DEF Typed
<1>9. Committed'
  <2>1. CommittedTo(proof', secret)
    BY <1>2, <1>5 DEF CommittedTo, SameStart
  <2>2. Committed /\ phase \in Begun
    BY <1>1 DEF Inv
  <2> QED BY <1>0, <1>5, <2>1, <2>2 DEF Committed
<1>10. Posed'
  <2>1. Posed /\ phase \in Begun \ {"poly"}
    BY <1>1 DEF Inv
  <2> QED BY <1>0, <1>5, <2>1 DEF Posed
<1>11. Answered'
  <2>1. Answered
    BY DEF Inv
  <2>2. proof'.mu = proof.mu /\ proof'.tHat = proof.tHat /\ proof'.taux = proof.taux
    BY <1>5 DEF SameStart
  <2> QED BY <1>0, <1>1, <2>1, <2>2 DEF Answered
<1>12. Halved'
  BY <1>0, <1>6 DEF Halved, n
<1>13. Closed'
  BY <1>0, <1>5 DEF Closed
<1> QED BY <1>7, <1>8, <1>9, <1>10, <1>11, <1>12, <1>13 DEF Inv

\* ... when the verifier judges ...
LEMMA Check_Inv == Inv /\ Check => Inv'
<1> SUFFICES ASSUME Inv, Check PROVE Inv'
  OBVIOUS
<1>0. /\ phase = "made" /\ UNCHANGED <<kind, file, reading, rs, v, secret, proof, ch, ip>>
      /\ phase' = IF VerifyTHat /\ InnerProductVerifier THEN "accepted" ELSE "rejected"
  BY DEF Check
<1>1. phase' \in {"accepted", "rejected"} /\ phase' \in Begun \ {"poly", "evaluate"}
      /\ phase \in Begun \ {"poly", "evaluate"}
  BY <1>0 DEF Begun
<1>2. Call'
  BY <1>0, <1>1 DEF Inv, Call, Begun
<1>3. Typed'
  BY <1>0, <1>1 DEF Inv, Typed
<1>4. Committed' /\ Posed' /\ Answered' /\ Halved'
  BY <1>0, <1>1 DEF Inv, Committed, Posed, Answered, Halved
<1>5. VerifyTHat' = VerifyTHat /\ InnerProductVerifier' = InnerProductVerifier
  BY <1>0 DEF VerifyTHat, InnerProductVerifier
<1>6. Closed'
  <2>1. Len(ip'.a) = 1 /\ proof'.a = ip'.a[1] /\ proof'.b = ip'.b[1]
    BY <1>0 DEF Inv, Closed
  <2> QED BY <1>0, <1>5, <2>1 DEF Closed
<1> QED BY <1>2, <1>3, <1>4, <1>6 DEF Inv

\* ... and when nothing happens.
LEMMA Stutter_Inv == Inv /\ UNCHANGED vars => Inv'
<1> SUFFICES ASSUME Inv, UNCHANGED vars PROVE Inv'
  OBVIOUS
<1> USE DEF vars
<1>1. Call' /\ Typed'
  BY DEF Inv, Call, Typed
<1>2. Committed' /\ Posed' /\ Answered' /\ Halved'
  BY DEF Inv, Committed, Posed, Answered, Halved
<1>3. VerifyTHat' = VerifyTHat /\ InnerProductVerifier' = InnerProductVerifier
  BY DEF VerifyTHat, InnerProductVerifier
<1>4. Closed'
  BY <1>3 DEF Inv, Closed
<1> QED BY <1>1, <1>2, <1>4 DEF Inv

\* What is proved holds of every call: the witness is that of the rendered
\* standard, the proof commits to it, every round keeps the relation of the
\* inner product, and the verdict is the verifier's.
THEOREM Invariant == Spec => []Inv
<1>1. Init => Inv
  BY Init_Inv
<1>2. Inv /\ [Next]_vars => Inv'
  BY Render_Inv, Commit_Inv, CommitPoly_Inv, Evaluate_Inv, Fold_Inv, Finish_Inv, Check_Inv,
     Stutter_Inv DEF Next
<1> QED BY <1>1, <1>2, PTL DEF Spec

\* The relation, said of the point itself.
LEMMA RelationPoint ==
  ASSUME NEW n \in Nat, NEW q \in Instances(n), NEW e \in Int, Relation(q, n, e)
  PROVE  q.P = Add(Add(VectorScalarMulSum(q.a, q.g), VectorScalarMulSum(q.b, q.h)),
                   ScalarMult(q.u, VectorInnerProduct(q.a, q.b) + e))
<1> DEFINE A == VectorScalarMulSum(q.a, q.g)
           B == VectorScalarMulSum(q.b, q.h)
           i == VectorInnerProduct(q.a, q.b)
           D == ScalarMult(q.u, i + e)
           E == Add(A, B)
<1>1. /\ q.a \in Vectors(n, Int) /\ q.b \in Vectors(n, Int) /\ q.g \in Vectors(n, Points)
      /\ q.h \in Vectors(n, Points) /\ q.P \in Points /\ q.u \in Points
  BY DEF Instances
<1>2. /\ A \in Points /\ B \in Points
      /\ \A k \in Generators : A[k] = Sum(Terms(q.a, At(q.g, k, n), n), n)
      /\ \A k \in Generators : B[k] = Sum(Terms(q.b, At(q.h, k, n), n), n)
  BY <1>1, MulSumIs
<1>3. i \in Int /\ i = Sum(Terms(q.a, q.b, n), n)
  BY <1>1, InnerProductIs
<1> HIDE DEF A, B, i
<1>4. D \in Points /\ \A k \in Generators : Cg(D[k], q.u[k] * (i + e))
  <2>1. i + e \in Int
    BY <1>3
  <2> QED BY <1>1, <2>1, ScalarMultIs
<1> HIDE DEF D
<1>5. E \in Points /\ \A k \in Generators : Cg(E[k], A[k] + B[k])
  BY <1>2, AddIs
<1> HIDE DEF E
<1>6. Add(E, D) \in Points /\ \A k \in Generators : Cg(Add(E, D)[k], E[k] + D[k])
  BY <1>4, <1>5, AddIs
<1>7. ASSUME NEW k \in Generators PROVE Cg(q.P[k], Add(E, D)[k])
  <2> DEFINE t == q.u[k] * (i + e)
  <2>1. /\ A[k] \in Int /\ B[k] \in Int /\ D[k] \in Int /\ E[k] \in Int /\ q.P[k] \in Int
        /\ Add(E, D)[k] \in Int /\ q.u[k] \in Int
    BY <1>1, <1>2, <1>4, <1>5, <1>6, PointInt
  <2>2. t \in Int
    BY <1>3, <2>1
  <2>3. Cg(q.P[k], A[k] + B[k] + t)
    BY <1>2, <1>3 DEF Relation
  <2>4. Cg(D[k], t)
    BY <1>4
  <2> HIDE DEF t
  <2>5. Cg(E[k] + D[k], (A[k] + B[k]) + t)
    BY <1>5, <2>1, <2>2, <2>4, CgAdd
  <2>6. Cg(Add(E, D)[k], (A[k] + B[k]) + t)
    BY <1>6, <2>1, <2>2, <2>5, CgTrans
  <2>7. Cg((A[k] + B[k]) + t, Add(E, D)[k])
    BY <2>1, <2>2, <2>6, CgSym
  <2> QED BY <2>1, <2>2, <2>3, <2>7, CgTrans
<1>8. q.P = Add(E, D)
  BY <1>1, <1>6, <1>7, PointsEqual
<1> QED BY <1>8 DEF A, B, D, E, i

\* The number of elements of each vector, between rounds.
LEMMA LengthIs ==
  ASSUME Inv, phase \in Begun \ {"poly", "evaluate"}
  PROVE  LET n == N * Len(v)
             K == LogOf(n)
             r == Len(ch.rounds)
             l == 2^(K - r)
         IN  /\ r \in Nat /\ r <= K /\ l \in Nat \ {0} /\ Len(ip.a) = l
             /\ l = 1 => r = K
             /\ RoundsAt(kind, secret, n, proof, ch, ip, K, l)
<1> DEFINE n == N * Len(v)
           K == LogOf(n)
           r == Len(ch.rounds)
           l == 2^(K - r)
<1>1. RoundsAt(kind, secret, n, proof, ch, ip, K, l) /\ K \in Nat
  BY AnsweredIs DEF RoundsOf
<1>2. r \in Nat /\ r <= K
  BY <1>1 DEF RoundsAt
<1> HIDE DEF K, r
<1>3. K - r \in Nat
  BY <1>1, <1>2
<1>4. l \in Nat \ {0}
  BY <1>3, TwoPositive
<1>5. r # K => l # 1
  <2>1. SUFFICES ASSUME r # K PROVE l # 1
    OBVIOUS
  <2>2. K - r - 1 \in Nat /\ (K - r - 1) + 1 = K - r
    BY <1>1, <1>2, <1>3, <2>1
  <2>3. 2^((K - r - 1) + 1) = 2 * 2^(K - r - 1) /\ 2^(K - r - 1) \in Nat
    BY <2>2, TwoNext
  <2> DEFINE e == 2^(K - r - 1)
  <2>4. l = 2 * e /\ e \in Nat
    BY <2>2, <2>3
  <2> HIDE DEF l, e
  <2> QED BY <2>4
<1>6. ip.a \in Vectors(l, Int)
  BY <1>1 DEF RoundsAt, Instances
<1> HIDE DEF l
<1>7. Len(ip.a) = l
  BY <1>4, <1>6, VectorLen
<1> QED BY <1>1, <1>2, <1>4, <1>5, <1>7 DEF K, r, l

\* The invariant has the relation of the rounds among its parts.
LEMMA RoundsKeep == Inv => RoundsKeepRelation
<1> SUFFICES ASSUME Inv, phase = "rounds" PROVE RoundsKeepRelation
  BY DEF RoundsKeepRelation
<1> DEFINE n == N * Len(v)
           l == Len(ip.a)
           e == Excess(proof, secret, n, ch)
           excess == proof.tHat - VectorInnerProduct(Lx(secret, ch.z, ch.x),
                                                     Rx(secret, ch.y, ch.z, ch.x))
<1>1. phase \in Begun \ {"poly", "evaluate"}
  BY DEF Begun
<1>2. l \in Nat /\ ip \in Instances(l) /\ Relation(ip, l, e)
  BY <1>1, LengthIs DEF RoundsAt
<1>3. /\ n \in Nat /\ secret \in Secrets(Len(v), n) /\ ch.y \in Int /\ ch.z \in Int /\ ch.x \in Int
      /\ proof.tHat = THat(kind, v, secret, ch.y, ch.z, ch.x) /\ proof.tHat \in Int /\ e \in Int
  BY <1>1, AnsweredIs
<1> HIDE DEF n, l
<1>4. Lx(secret, ch.z, ch.x) \in Vectors(n, Int) /\ Rx(secret, ch.y, ch.z, ch.x) \in Vectors(n, Int)
  BY <1>3, LxIs, RxIs
<1>5. e = excess
  BY <1>3, <1>4, InnerProductIs DEF Excess
<1>6. VectorInnerProduct(Lx(secret, ch.z, ch.x), Rx(secret, ch.y, ch.z, ch.x)) \in Int
  BY <1>3, <1>4, InnerProductIs
<1>7. kind = "aggregate" => excess = 0
  <2>1. kind = "aggregate" =>
           proof.tHat = VectorInnerProduct(Lx(secret, ch.z, ch.x), Rx(secret, ch.y, ch.z, ch.x))
    BY <1>3 DEF THat
  <2> QED BY <1>6, <2>1
<1>8. ip.P = Add(Add(VectorScalarMulSum(ip.a, ip.g), VectorScalarMulSum(ip.b, ip.h)),
                 ScalarMult(ip.u, VectorInnerProduct(ip.a, ip.b) + e))
  <2> HIDE DEF e
  <2> QED BY <1>2, <1>3, RelationPoint
<1> QED BY <1>5, <1>7, <1>8 DEF RoundsKeepRelation

\* recursiveIpProof: in every round the point is the commitment to both vectors
\* and their inner product, plus what tHat exceeded it by at the start, and in
\* an aggregated proof that is nothing.
THEOREM RoundsKeepTheRelation == Spec => []RoundsKeepRelation
BY Invariant, RoundsKeep, PTL

\* One generator that is spread over all is the sum of all.
LEMMA SpreadIsSum ==
  ASSUME NEW n \in 1 .. 2 * N, NEW name \in {"gVector", "hVector"},
         NEW V \in Vectors(n, Points), NEW e \in Vectors(n, Int), Spread(V, name, e, n, n),
         NEW w \in Vectors(n, Int),
         NEW q \in Vectors(1, Points), NEW e1 \in Vectors(n, Int), Spread(q, name, e1, 1, n),
         \A i \in 1 .. n : Cg(e1[i], w[i] * e[i])
  PROVE  q[1] = VectorScalarMulSum(w, V)
<1> DEFINE S == VectorScalarMulSum(w, V)
<1>0. n \in Nat /\ n > 0 /\ N \in Nat /\ Order \in Int
  BY NIsNat, OrderIsPrime
<1>1. /\ S \in Points
      /\ \A k \in Generators : S[k] = Sum(Terms(w, At(V, k, n), n), n)
  BY <1>0, MulSumIs
<1> HIDE DEF S
<1>2. q[1] \in Points
  BY DEF Vectors
<1>3. \A i \in 1 .. n : (i - 1) % n = i - 1 /\ (i - 1) % 1 = 0
  <2> TAKE i \in 1 .. n
  <2>1. n \in Nat \ {0} /\ i - 1 \in 0 .. n - 1 /\ n * 0 + (i - 1) = i - 1
    BY <1>0
  <2>2. (n * 0 + (i - 1)) % n = i - 1
    BY <2>1, QuotientUnique
  <2> QED BY <2>1, <2>2
<1>4. ASSUME NEW k \in Generators PROVE Cg(q[1][k], S[k])
  <2> DEFINE a == At(V, k, n)
             f == Terms(w, a, n)
  <2>1. a \in Vectors(n, Int) /\ \A i \in 1 .. n : a[i] = V[i][k]
    BY <1>0, AtIs
  <2>2. Ints(f, n) /\ \A i \in 1 .. n : f[i] = w[i] * a[i]
    <3> HIDE DEF a
    <3> QED BY <1>0, <2>1, TermsAreInts
  <2>3. \A i \in 1 .. n : w[i] \in Int /\ a[i] \in Int /\ e[i] \in Int /\ e1[i] \in Int
    BY <2>1 DEF Vectors
  <2>4. S[k] = Sum(f, n)
    BY <1>1
  <2> HIDE DEF a, f
  <2>5. ASSUME NEW i \in 1 .. n, Cg(a[i], 0) PROVE Cg(f[i], 0)
    <3>1. Cg(w[i], w[i]) /\ 0 \in Int
      BY <2>3, CgRefl
    <3>2. Cg(w[i] * a[i], w[i] * 0)
      BY <2>3, <2>5, <3>1, CgMul
    <3>3. w[i] * 0 = 0
      BY <2>3
    <3> QED BY <2>2, <3>2, <3>3
  <2>6. q[1][k] \in Int /\ Sum(f, n) \in Int
    BY <1>0, <1>2, <2>2, PointInt, SumType
  <2>7. CASE \E i \in 1 .. n : k = <<name, i>>
    <3>1. PICK i \in 1 .. n : k = <<name, i>>
      BY <2>7
    <3>2. \A j \in 1 .. n : j # i => Cg(a[j], 0)
      <4>1. \A j \in 1 .. n : (i - 1) % n # j - 1 => Cg(V[j][<<name, i>>], 0)
        BY DEF Spread
      <4> QED BY <1>0, <1>3, <2>1, <3>1, <4>1
    <3>3. Cg(Sum(f, n), f[i])
      BY <1>0, <2>2, <2>5, <3>2, SumUnit
    <3>4. Cg(a[i], e[i])
      <4>1. (i - 1) % n = i - 1 => Cg(V[i][<<name, i>>], e[i])
        BY DEF Spread
      <4> QED BY <1>3, <2>1, <3>1, <4>1
    <3>5. Cg(q[1][k], e1[i])
      <4>1. (i - 1) % 1 = 1 - 1 => Cg(q[1][<<name, i>>], e1[i])
        BY DEF Spread
      <4> QED BY <1>3, <3>1, <4>1
    <3> DEFINE b == w[i]
               c == a[i]
               d == e[i]
    <3>6. Cg(e1[i], b * d) /\ f[i] = b * c /\ b \in Int /\ c \in Int /\ d \in Int /\ Cg(c, d)
          /\ e1[i] \in Int
      BY <2>2, <2>3, <3>4
    <3> HIDE DEF b, c, d
    <3>7. Cg(b * c, b * d) /\ b * c \in Int /\ b * d \in Int
      <4>1. Cg(b, b)
        BY <3>6, CgRefl
      <4> QED BY <3>6, <4>1, CgMul
    <3>8. Cg(Sum(f, n), b * d)
      BY <2>6, <3>3, <3>6, <3>7, CgTrans
    <3>9. Cg(q[1][k], b * d)
      BY <2>6, <3>5, <3>6, <3>7, CgTrans
    <3>10. Cg(b * d, Sum(f, n))
      BY <2>6, <3>7, <3>8, CgSym
    <3> QED BY <2>4, <2>6, <3>7, <3>9, <3>10, CgTrans
  <2>8. CASE \A i \in 1 .. n : k # <<name, i>>
    <3>1. \A j \in 1 .. n : Cg(a[j], 0)
      BY <2>1, <2>8 DEF Spread
    <3>2. Cg(q[1][k], 0)
      BY <2>8 DEF Spread
    <3>3. 1 \in 1 .. n
      BY <1>0
    <3>4. Cg(Sum(f, n), f[1])
      BY <1>0, <2>2, <2>5, <3>1, <3>3, SumUnit
    <3>5. Cg(f[1], 0) /\ f[1] \in Int
      BY <2>2, <2>5, <3>1, <3>3 DEF Ints
    <3>6. Cg(Sum(f, n), 0) /\ 0 \in Int
      BY <2>6, <3>4, <3>5, CgTrans
    <3>7. Cg(0, Sum(f, n))
      BY <2>6, <3>6, CgSym
    <3> QED BY <2>4, <2>6, <3>2, <3>6, <3>7, CgTrans
  <2> QED BY <2>7, <2>8
<1>5. q[1] = S
  BY <1>1, <1>2, <1>4, PointsEqual
<1> QED BY <1>5 DEF S

\* What is left of the two vectors of generators after the last round.
LEMMA LastGenerators ==
  ASSUME Inv, phase \in {"made", "accepted", "rejected"}
  PROVE  LET n == N * Len(v)
             s == [i \in 1 .. n |-> sVector(i, ch.rounds)]
             t == [i \in 1 .. n |-> ModInverse(s[i])]
         IN  /\ ip \in Instances(1) /\ ch.rounds \in Seq(Challenges)
             /\ s \in Vectors(n, Int) /\ t \in Vectors(n, Int)
             /\ ip.g[1] = VectorScalarMulSum(s, gVector(n))
             /\ ip.h[1] = VectorScalarMulSum(t, GenerateHprime(n, ch.y))
<1> DEFINE n == N * Len(v)
           K == LogOf(n)
           xs == ch.rounds
           s == [i \in 1 .. n |-> sVector(i, xs)]
           t == [i \in 1 .. n |-> ModInverse(s[i])]
<1>1. phase \in Begun \ {"poly", "evaluate"} /\ Len(ip.a) = 1
  BY DEF Begun, Inv, Closed
<1>2. n \in 1 .. 2 * N /\ n \in Nat /\ K \in Nat /\ ch.y \in Challenges
  BY <1>1, AnsweredIs
<1>3. /\ Len(xs) = K /\ xs \in Seq(Challenges) /\ ip \in Instances(1)
      /\ Spread(ip.g, "gVector", GScalars(xs, K, n), 1, n)
      /\ Spread(ip.h, "hVector", HScalars(xs, K, n, ch.y), 1, n)
  BY <1>1, LengthIs DEF RoundsAt
<1> HIDE DEF n, K, xs
<1>4. \A i \in 1 .. n : sVector(i, xs) = Scalar(i, xs, K)
  <2> TAKE i \in 1 .. n
  <2>1. i \in Nat \ {0}
    BY <1>2
  <2> QED BY <1>3, <2>1, sVectorIs
<1>5. /\ s = GScalars(xs, K, n) /\ s \in Vectors(n, Int)
      /\ \A i \in 1 .. n : s[i] = Scalar(i, xs, K)
  <2>1. s = GScalars(xs, K, n) /\ \A i \in 1 .. n : s[i] = Scalar(i, xs, K)
    BY <1>4 DEF GScalars
  <2> HIDE DEF s
  <2> QED BY <1>2, <1>3, <2>1, ScalarsType
<1>6. t \in Vectors(n, Int) /\ \A i \in 1 .. n : t[i] = ModInverse(Scalar(i, xs, K)) /\ t[i] \in Int
  <2>1. \A i \in 1 .. n : ModInverse(Scalar(i, xs, K)) \in Int
    BY <1>2, <1>3, ScalarsType
  <2>2. \A i \in 1 .. n : ModInverse(s[i]) = ModInverse(Scalar(i, xs, K))
    BY <1>5
  <2> HIDE DEF s
  <2> QED BY <2>1, <2>2 DEF Vectors
<1> HIDE DEF s, t
<1>7. <<>> \in Seq(Challenges)
  OBVIOUS
<1>8. /\ Spread(gVector(n), "gVector", GScalars(<<>>, K, n), n, n)
      /\ Spread(GenerateHprime(n, ch.y), "hVector", HScalars(<<>>, K, n, ch.y), n, n)
  BY <1>2, SpreadStart
<1>9. /\ GScalars(<<>>, K, n) \in Vectors(n, Int) /\ HScalars(<<>>, K, n, ch.y) \in Vectors(n, Int)
      /\ GScalars(xs, K, n) \in Vectors(n, Int) /\ HScalars(xs, K, n, ch.y) \in Vectors(n, Int)
  BY <1>2, <1>3, <1>7, ScalarsType
<1>10. gVector(n) \in Vectors(n, Points) /\ GenerateHprime(n, ch.y) \in Vectors(n, Points)
  <2>1. ch.y \in 1 .. Order - 1
    BY <1>2 DEF Challenges
  <2> QED BY <1>2, <2>1, GeneratorTypes, HprimeIs
<1>11. ip.g \in Vectors(1, Points) /\ ip.h \in Vectors(1, Points)
  BY <1>3 DEF Instances
<1>12. ip.g[1] = VectorScalarMulSum(s, gVector(n))
  <2> DEFINE e == GScalars(<<>>, K, n)
             e1 == GScalars(xs, K, n)
  <2>1. \A i \in 1 .. n : Cg(e1[i], s[i] * e[i])
    <3> TAKE i \in 1 .. n
    <3>1. e[i] = 1
      BY ScalarEmpty DEF GScalars
    <3>2. e1[i] = s[i] /\ s[i] \in Int
      BY <1>5 DEF Vectors
    <3>3. s[i] * 1 = s[i]
      BY <3>2
    <3> QED BY <3>1, <3>2, <3>3, CgRefl
  <2>2. /\ e \in Vectors(n, Int) /\ e1 \in Vectors(n, Int)
        /\ Spread(gVector(n), "gVector", e, n, n) /\ Spread(ip.g, "gVector", e1, 1, n)
    BY <1>3, <1>8, <1>9
  <2> HIDE DEF e, e1
  <2> QED BY <1>2, <1>5, <1>10, <1>11, <2>1, <2>2, SpreadIsSum
<1>13. ip.h[1] = VectorScalarMulSum(t, GenerateHprime(n, ch.y))
  <2> DEFINE e == HScalars(<<>>, K, n, ch.y)
             e1 == HScalars(xs, K, n, ch.y)
             o == ModInverse(1)
  <2>1. \A i \in 1 .. n : Cg(e1[i], t[i] * e[i])
    <3> TAKE i \in 1 .. n
    <3> DEFINE p == Pow(ModInverse(ch.y), i - 1)
               d == t[i]
    <3>1. e[i] = o * p
      BY ScalarEmpty DEF HScalars
    <3>2. e1[i] = d * p
      BY <1>6 DEF HScalars
    <3>3. p \in Int /\ d \in Int
      BY <1>2, <1>3, <1>6, ScalarsType
    <3>4. o \in Int /\ Cg(1 * o, 1)
      <4>1. Scalar(i, <<>>, K) = 1
        BY ScalarEmpty
      <4> QED BY <1>2, <1>7, <4>1, ScalarsType
    <3> HIDE DEF p, d, o, e, e1
    <3>5. Cg(o, 1) /\ Cg(d * p, d * p) /\ d * p \in Int
      BY <3>3, <3>4, CgRefl
    <3> DEFINE c == d * p
    <3>6. c \in Int /\ Cg(c, c) /\ Cg(o, 1)
      BY <3>5
    <3> HIDE DEF c
    <3>7. Cg(c * o, c * 1)
      BY <3>4, <3>6, CgMul
    <3>8. c * 1 = c /\ c * o \in Int
      BY <3>4, <3>6
    <3>9. Cg(c, c * o)
      BY <3>6, <3>7, <3>8, CgSym
    <3>10. c * o = d * (o * p)
      BY <3>3, <3>4 DEF c
    <3>11. e1[i] = c /\ t[i] * e[i] = c * o
      BY <3>1, <3>2, <3>10 DEF c, d
    <3> QED BY <3>9, <3>11
  <2>2. /\ e \in Vectors(n, Int) /\ e1 \in Vectors(n, Int)
        /\ Spread(GenerateHprime(n, ch.y), "hVector", e, n, n) /\ Spread(ip.h, "hVector", e1, 1, n)
    BY <1>3, <1>8, <1>9
  <2> HIDE DEF e, e1
  <2> QED BY <1>2, <1>6, <1>10, <1>11, <2>1, <2>2, SpreadIsSum
<1> QED BY <1>3, <1>5, <1>6, <1>12, <1>13 DEF n, xs, s, t

\* innerProductVerifier: the scalars that it computes from the bits of an index
\* are what the rounds multiplied each generator by.
THEOREM ScalarsFollowTheRounds == Spec => []ScalarsFollowRounds
<1>1. Inv => ScalarsFollowRounds
  <2>1. SUFFICES ASSUME Inv, phase = "made" PROVE ScalarsFollowRounds
    BY DEF ScalarsFollowRounds
  <2> DEFINE n == N * Len(v)
             s == [i \in 1 .. n |-> sVector(i, ch.rounds)]
  <2>2. /\ ip.g[1] = VectorScalarMulSum(s, gVector(n))
        /\ ip.h[1] = VectorScalarMulSum([i \in 1 .. n |-> ModInverse(s[i])], GenerateHprime(n, ch.y))
    BY <2>1, LastGenerators
  <2> QED BY <2>2 DEF ScalarsFollowRounds
<1> QED BY <1>1, Invariant, PTL

-----------------------------------------------------------------------------
(* What the verifiers see                                                  *)

\* A scalar in front of every exponent is one in front of the sum.
LEMMA ScaledSum ==
  ASSUME NEW n \in Nat, NEW w \in Vectors(n, Int), NEW V \in Vectors(n, Points), NEW a \in Int
  PROVE  LET p == VectorScalarMulSum([i \in 1 .. n |-> a * w[i]], V)
         IN  /\ p \in Points /\ VectorScalarMulSum(w, V) \in Points
             /\ \A k \in Generators : Cg(p[k], VectorScalarMulSum(w, V)[k] * a)
<1> DEFINE aw == [i \in 1 .. n |-> a * w[i]]
           p == VectorScalarMulSum(aw, V)
           q == VectorScalarMulSum(w, V)
<1>1. aw \in Vectors(n, Int) /\ \A i \in 1 .. n : w[i] \in Int /\ aw[i] = a * w[i]
  BY DEF Vectors
<1> HIDE DEF aw
<1>2. /\ p \in Points /\ q \in Points
      /\ \A k \in Generators : p[k] = Sum(Terms(aw, At(V, k, n), n), n)
      /\ \A k \in Generators : q[k] = Sum(Terms(w, At(V, k, n), n), n)
  BY <1>1, MulSumIs
<1> HIDE DEF p, q
<1>3. ASSUME NEW k \in Generators PROVE Cg(p[k], q[k] * a)
  <2> DEFINE b == At(V, k, n)
             f == Terms(aw, b, n)
             f1 == Terms(w, b, n)
  <2>1. b \in Vectors(n, Int)
    BY AtIs
  <2> HIDE DEF b
  <2>2. Ints(f, n) /\ Ints(f1, n) /\ \A i \in 1 .. n : f[i] = aw[i] * b[i] /\ f1[i] = w[i] * b[i]
    BY <1>1, <2>1, TermsAreInts
  <2> HIDE DEF f, f1
  <2> DEFINE o == 0
  <2>3. \A i \in 1 .. n : Cg(f[i], a * f1[i] + o * f1[i] + o * f1[i] + o * f1[i])
    <3> TAKE i \in 1 .. n
    <3> DEFINE x == w[i]
               y == b[i]
    <3>1. x \in Int /\ y \in Int /\ f1[i] = x * y /\ f[i] = (a * x) * y
      BY <1>1, <2>1, <2>2 DEF Vectors
    <3> HIDE DEF x, y
    <3>2. f[i] = a * f1[i] + o * f1[i] + o * f1[i] + o * f1[i] /\ f[i] \in Int
      BY <3>1
    <3> QED BY <3>2, CgRefl
  <2>4. Cg(Sum(f, n), a * Sum(f1, n) + o * Sum(f1, n) + o * Sum(f1, n) + o * Sum(f1, n))
    <3>1. o \in Int
      OBVIOUS
    <3> HIDE DEF o
    <3> QED BY <2>2, <2>3, <3>1, SumLinear
  <2> DEFINE s == Sum(f1, n)
  <2>5. s \in Int
    BY <2>2, SumType
  <2> HIDE DEF s
  <2>6. a * s + o * s + o * s + o * s = s * a
    BY <2>5
  <2>7. Cg(Sum(f, n), s * a)
    BY <2>4, <2>6 DEF s
  <2> QED BY <1>2, <2>7 DEF f, f1, b, s
<1> QED BY <1>2, <1>3 DEF p, q, aw

\* The point that the inner product is carried on, and where it is not zero.
LEMMA CarrierIs ==
  ASSUME Inv, phase \in Begun \ {"poly", "evaluate"}
  PROVE  \E k \in Generators : ~Cg(ip.u[k], 0)
<1> DEFINE n == N * Len(v)
           k == IF kind = "aggregate" THEN <<"u", 0>> ELSE <<"h", 0>>
<1>1. ip.u = Start(kind, proof, secret, n, ch).u /\ ch.c \in Challenges /\ ch.c \in Int
  BY AnsweredIs DEF RoundsOf, RoundsAt
<1>2. ip.u = ScalarMult(u(kind), ch.c)
  BY <1>1 DEF Start, StartOf, Protocol1
<1>3. k \in Generators
  BY DEF Generators
<1>4. u(kind)[k] = 1
  BY <1>3 DEF u, h, Generator, Infinity
<1> HIDE DEF k
<1>5. Cg(ip.u[k], 1 * ch.c) /\ ip.u \in Points
  <2>1. u(kind) \in Points
    BY GeneratorTypes
  <2> QED BY <1>1, <1>2, <1>3, <1>4, <2>1, ScalarMultIs
<1>6. 1 * ch.c = ch.c /\ ~Cg(ch.c, 0)
  BY <1>1, ChallengeTypes
<1>7. ip.u[k] \in Int
  BY <1>3, <1>5, PointInt
<1>8. ASSUME Cg(ip.u[k], 0) PROVE FALSE
  <2>1. Cg(ip.u[k], ch.c)
    BY <1>5, <1>6
  <2>2. Cg(ch.c, ip.u[k])
    BY <1>1, <1>7, <2>1, CgSym
  <2>3. 0 \in Int
    OBVIOUS
  <2>4. Cg(ch.c, 0)
    BY <1>1, <1>7, <1>8, <2>2, <2>3, CgTrans
  <2> QED BY <1>6, <2>4
<1> QED BY <1>3, <1>8

\* One generator of both sides of the verifier's equation.
VerifierSides(P, S, A, B, D, a, b, w, e, l, rt, lt) ==
    /\ Cg(P, A * a + B * b + w * (a * b + e)) /\ Cg(P, S + lt + rt)
    /\ Cg(l, A * a + B * b + w * (a * b)) /\ Cg(D, S + (lt + rt))

\* The two sides differ by the excess.
LEMMA SidesDiffer ==
  ASSUME NEW P \in Int, NEW S \in Int, NEW A \in Int, NEW B \in Int, NEW D \in Int,
         NEW a \in Int, NEW b \in Int, NEW w \in Int, NEW e \in Int, NEW l \in Int,
         NEW rt \in Int, NEW lt \in Int,
         VerifierSides(P, S, A, B, D, a, b, w, e, l, rt, lt)
  PROVE  Cg(D, l + w * e)
<1>0. Order \in Int
  BY OrderIsPrime
<1> DEFINE A1 == A * a
           B1 == B * b
           i == a * b
<1>1. A1 \in Int /\ B1 \in Int /\ i \in Int
  OBVIOUS
<1>2. /\ Cg(P, A1 + B1 + w * (i + e)) /\ Cg(P, S + lt + rt)
      /\ Cg(l, A1 + B1 + w * i) /\ Cg(D, S + (lt + rt))
  BY DEF VerifierSides
<1> HIDE DEF A1, B1, i
<1>3. PICK k1 \in Int : P = A1 + B1 + w * (i + e) + k1 * Order
  BY <1>2 DEF Cg
<1>4. PICK k2 \in Int : P = S + lt + rt + k2 * Order
  BY <1>2 DEF Cg
<1>5. PICK k3 \in Int : l = A1 + B1 + w * i + k3 * Order
  BY <1>2 DEF Cg
<1>6. PICK k4 \in Int : D = S + (lt + rt) + k4 * Order
  BY <1>2 DEF Cg
<1> DEFINE j == k4 - k2 + k1 - k3
<1>7. D = (l + w * e) + j * Order
  BY <1>0, <1>1, <1>3, <1>4, <1>5, <1>6
<1>8. j \in Int
  OBVIOUS
<1> HIDE DEF j
<1> QED BY <1>7, <1>8 DEF Cg

\* The verifier of the inner product accepts exactly if tHat exceeded it by
\* nothing.
LEMMA InnerProductVerifierIs ==
  ASSUME Inv, phase \in {"made", "accepted", "rejected"}
  PROVE  InnerProductVerifier <=> Cg(Excess(proof, secret, N * Len(v), ch), 0)
<1> DEFINE n == N * Len(v)
           xs == ch.rounds
           r == Len(xs)
           e == Excess(proof, secret, n, ch)
           st == Start(kind, proof, secret, n, ch)
           s == [i \in 1 .. n |-> sVector(i, xs)]
           t == [i \in 1 .. n |-> ModInverse(s[i])]
           hp == GenerateHprime(n, ch.y)
           a == proof.a
           b == proof.b
           pa == VectorScalarMulSum([i \in 1 .. n |-> a * s[i]], gVector(n))
           pb == VectorScalarMulSum([i \in 1 .. n |-> b * t[i]], hp)
           pi == ScalarMult(st.u, a * b)
           pL == VectorScalarMulSum(Squares(xs), proof.LS)
           pR == VectorScalarMulSum(InverseSquares(xs), proof.RS)
           pab == Add(pa, pb)
           lhs == Add(pab, pi)
           pLR == Add(pL, pR)
           rhs == Add(st.P, pLR)
<1>1. phase \in Begun \ {"poly", "evaluate"}
  BY DEF Begun
<1>2. /\ n \in Nat /\ ch.y \in Challenges /\ e \in Int /\ st \in Instances(n)
  BY <1>1, AnsweredIs
<1>3. /\ ip \in Instances(1) /\ xs \in Seq(Challenges)
      /\ s \in Vectors(n, Int) /\ t \in Vectors(n, Int)
      /\ ip.g[1] = VectorScalarMulSum(s, gVector(n)) /\ ip.h[1] = VectorScalarMulSum(t, hp)
  BY LastGenerators
<1>4. /\ Relation(ip, 1, e) /\ r \in Nat
      /\ proof.LS \in Vectors(r, Points) /\ proof.RS \in Vectors(r, Points)
      /\ Transcript(ip, st, proof, xs) /\ ip.u = st.u
  <2>1. Len(ip.a) = 1
    BY DEF Inv, Closed
  <2> QED BY <1>1, <2>1, LengthIs DEF RoundsAt
<1>5. Len(proof.V) = Len(v)
  <2>1. proof.V = [j \in 1 .. Len(v) |-> PedersenCommit(v[j], secret.gamma[j])]
    BY <1>1 DEF Inv, Committed
  <2>2. Len(v) \in Nat
    BY <1>1, AnsweredIs
  <2> QED BY <2>1, <2>2
<1>6. InnerProductVerifier <=> lhs = rhs
  <2>1. DOMAIN xs = 1 .. Len(xs)
    BY <1>3
  <2>2. /\ Squares(xs) = [j \in DOMAIN xs |-> (xs[j] * xs[j]) % Order]
        /\ InverseSquares(xs) = [j \in DOMAIN Squares(xs) |-> ModInverse(Squares(xs)[j])]
    BY <2>1 DEF Squares, InverseSquares
  <2>3. /\ st.P = Protocol1(UpdateP(proof, n, ch.x, ch.y, ch.z), u(kind), proof.tHat, ch.c).P
        /\ st.u = Protocol1(UpdateP(proof, n, ch.x, ch.y, ch.z), u(kind), proof.tHat, ch.c).u
    BY DEF Start, StartOf
  <2>4. [i \in 1 .. n |-> b * t[i]] = [i \in 1 .. n |-> b * ModInverse(s[i])]
    OBVIOUS
  <2> HIDE DEF xs, st, t, s
  <2>5. s = [i \in 1 .. n |-> sVector(i, xs)]
    BY DEF s
  <2> QED BY <1>5, <2>2, <2>3, <2>4, <2>5 DEF InnerProductVerifier, xs
<1> HIDE DEF n, e, st, s, t, hp, xs, r
<1>7. /\ ip.a \in Vectors(1, Int) /\ ip.b \in Vectors(1, Int) /\ ip.g \in Vectors(1, Points)
      /\ ip.h \in Vectors(1, Points) /\ ip.P \in Points /\ ip.u \in Points
      /\ st.P \in Points
  BY <1>2, <1>3 DEF Instances
<1>8. a = ip.a[1] /\ b = ip.b[1] /\ a \in Int /\ b \in Int /\ a * b \in Int
  <2>1. a = ip.a[1] /\ b = ip.b[1]
    BY DEF Inv, Closed
  <2>2. a \in Int /\ b \in Int
    BY <1>7, <2>1 DEF Vectors
  <2> QED BY <2>1, <2>2
<1>9. gVector(n) \in Vectors(n, Points) /\ hp \in Vectors(n, Points)
  <2>1. ch.y \in 1 .. Order - 1
    BY <1>2 DEF Challenges
  <2> QED BY <1>2, <2>1, GeneratorTypes, HprimeIs DEF hp
<1> HIDE DEF a, b
<1>10. /\ pa \in Points /\ \A k \in Generators : Cg(pa[k], ip.g[1][k] * a)
       /\ pb \in Points /\ \A k \in Generators : Cg(pb[k], ip.h[1][k] * b)
  BY <1>2, <1>3, <1>8, <1>9, ScaledSum
<1>11. pi \in Points /\ \A k \in Generators : Cg(pi[k], ip.u[k] * (a * b))
  BY <1>4, <1>7, <1>8, ScalarMultIs
<1>12. Squares(xs) \in Vectors(r, Int) /\ InverseSquares(xs) \in Vectors(r, Int)
  BY <1>3, SquaresType DEF r
<1>13. /\ pL \in Points /\ pR \in Points
       /\ \A k \in Generators :
             /\ pL[k] = Sum(Terms(Squares(xs), At(proof.LS, k, r), r), r)
             /\ pR[k] = Sum(Terms(InverseSquares(xs), At(proof.RS, k, r), r), r)
  BY <1>4, <1>12, MulSumIs
<1> HIDE DEF pa, pb, pi, pL, pR
<1>14. pab \in Points /\ \A k \in Generators : Cg(pab[k], pa[k] + pb[k])
  BY <1>10, AddIs
<1>15. pLR \in Points /\ \A k \in Generators : Cg(pLR[k], pL[k] + pR[k])
  BY <1>13, AddIs
<1> HIDE DEF pab, pLR
<1>16. lhs \in Points /\ \A k \in Generators : Cg(lhs[k], pab[k] + pi[k])
  BY <1>11, <1>14, AddIs
<1>17. rhs \in Points /\ \A k \in Generators : Cg(rhs[k], st.P[k] + pLR[k])
  BY <1>7, <1>15, AddIs
<1> HIDE DEF lhs, rhs
<1>18. ASSUME NEW k \in Generators PROVE Cg(rhs[k], lhs[k] + ip.u[k] * e)
  <2> DEFINE P == ip.P[k]
             S == st.P[k]
             A == ip.g[1][k]
             B == ip.h[1][k]
             w == ip.u[k]
             aa == A * a
             bb == B * b
             ww == w * (a * b)
             L == pL[k]
             Rr == pR[k]
  <2>1. ip.g[1] \in Points /\ ip.h[1] \in Points
    BY <1>7 DEF Vectors
  <2>2. /\ P \in Int /\ S \in Int /\ A \in Int /\ B \in Int /\ w \in Int
        /\ lhs[k] \in Int /\ rhs[k] \in Int /\ L \in Int /\ Rr \in Int
        /\ pab[k] \in Int /\ pLR[k] \in Int /\ pa[k] \in Int /\ pb[k] \in Int /\ pi[k] \in Int
    BY <1>7, <1>10, <1>11, <1>13, <1>14, <1>15, <1>16, <1>17, <2>1, PointInt
  <2>3. aa \in Int /\ bb \in Int /\ ww \in Int
    BY <1>8, <2>2
  <2>4. Cg(pa[k], aa) /\ Cg(pb[k], bb) /\ Cg(pi[k], ww)
    BY <1>10, <1>11
  <2>5. Cg(lhs[k], (aa + bb) + ww)
    <3> HIDE DEF aa, bb, ww
    <3>1. Cg(pa[k] + pb[k], aa + bb)
      BY <2>2, <2>3, <2>4, CgAdd
    <3>2. Cg(pab[k], aa + bb)
      BY <1>14, <2>2, <2>3, <3>1, CgTrans
    <3> DEFINE ab == aa + bb
    <3>3. Cg(pab[k], ab) /\ Cg(pi[k], ww) /\ ab \in Int
      BY <2>3, <2>4, <3>2 DEF ww
    <3> HIDE DEF ab
    <3>4. Cg(pab[k] + pi[k], ab + ww)
      BY <2>2, <2>3, <3>3, CgAdd
    <3>5. Cg(lhs[k], ab + ww)
      BY <1>16, <2>2, <2>3, <3>3, <3>4, CgTrans
    <3> QED BY <3>5 DEF ab
  <2>6. Cg(rhs[k], S + (L + Rr))
    <3>1. Cg(pLR[k], L + Rr) /\ Cg(S, S)
      BY <1>15, <2>2, CgRefl
    <3> HIDE DEF L, Rr, S
    <3>2. Cg(S + pLR[k], S + (L + Rr))
      BY <2>2, <3>1, CgAdd
    <3>3. Cg(rhs[k], S + pLR[k])
      BY <1>17 DEF S
    <3> QED BY <2>2, <3>2, <3>3, CgTrans
  <2>7. Cg(P, S + L + Rr)
    BY <1>4, <1>13 DEF Transcript, r
  <2>8. Cg(P, aa + bb + w * (a * b + e))
    <3>1. ASSUME NEW f, NEW d, f \in Vectors(1, Int), d \in Vectors(1, Int)
          PROVE  Cg(Sum(Terms(f, d, 1), 1), f[1] * d[1]) /\ Sum(Terms(f, d, 1), 1) \in Int
                 /\ f[1] * d[1] \in Int
      <4> DEFINE g1 == Terms(f, d, 1)
      <4>1. Ints(g1, 1) /\ g1[1] = f[1] * d[1]
        BY <3>1, TermsAreInts
      <4> HIDE DEF g1
      <4>2. 1 \in 1 .. 1 /\ 1 \in Nat /\ \A i \in 1 .. 1 : i # 1 => Cg(g1[i], 0)
        OBVIOUS
      <4>3. Cg(Sum(g1, 1), g1[1])
        BY <4>1, <4>2, SumUnit
      <4>4. Sum(g1, 1) \in Int /\ g1[1] \in Int
        BY <4>1, <4>2, SumType DEF Ints
      <4> QED BY <4>1, <4>3, <4>4 DEF g1
    <3>2. /\ At(ip.g, k, 1) \in Vectors(1, Int) /\ At(ip.g, k, 1)[1] = A
          /\ At(ip.h, k, 1) \in Vectors(1, Int) /\ At(ip.h, k, 1)[1] = B
      BY <1>7, AtIs
    <3> DEFINE s1 == Sum(Terms(ip.a, At(ip.g, k, 1), 1), 1)
               s2 == Sum(Terms(ip.b, At(ip.h, k, 1), 1), 1)
               s3 == Sum(Terms(ip.a, ip.b, 1), 1)
               ab == a * b
    <3>3. Cg(s1, a * A) /\ s1 \in Int /\ a * A \in Int
      BY <1>7, <1>8, <3>1, <3>2
    <3>4. Cg(s2, b * B) /\ s2 \in Int /\ b * B \in Int
      BY <1>7, <1>8, <3>1, <3>2
    <3>5. Cg(s3, ab) /\ s3 \in Int /\ ab \in Int
      BY <1>7, <1>8, <3>1
    <3>6. Cg(P, s1 + s2 + w * (s3 + e))
      BY <1>4 DEF Relation
    <3>7. a * A = aa /\ b * B = bb
      BY <1>8, <2>2
    <3> HIDE DEF s1, s2, s3, aa, bb, P, w, ab, A, B
    <3>8. PICK k1 \in Int : s1 = aa + k1 * Order
      BY <3>3, <3>7 DEF Cg
    <3>9. PICK k2 \in Int : s2 = bb + k2 * Order
      BY <3>4, <3>7 DEF Cg
    <3>10. PICK k3 \in Int : s3 = ab + k3 * Order
      BY <3>5 DEF Cg
    <3>11. PICK k4 \in Int : P = s1 + s2 + w * (s3 + e) + k4 * Order
      BY <3>6 DEF Cg
    <3> DEFINE j == k1 + k2 + w * k3 + k4
    <3>12. P = (aa + bb + w * (ab + e)) + j * Order
      <4>1. Order \in Int /\ e \in Int
        BY <1>2, OrderIsPrime
      <4> QED BY <4>1, <2>2, <2>3, <3>5, <3>8, <3>9, <3>10, <3>11
    <3>13. j \in Int
      BY <2>2
    <3> HIDE DEF j
    <3> QED BY <3>12, <3>13 DEF Cg, ab
  <2>9. VerifierSides(P, S, A, B, rhs[k], a, b, w, e, lhs[k], Rr, L)
    BY <2>5, <2>6, <2>7, <2>8 DEF VerifierSides
  <2> HIDE DEF P, S, A, B, L, Rr, aa, bb, ww, w
  <2>10. Cg(rhs[k], lhs[k] + w * e)
    BY <1>2, <1>8, <2>2, <2>9, SidesDiffer
  <2> QED BY <2>10 DEF w
<1>19. ASSUME NEW k \in Generators
       PROVE  lhs[k] \in Int /\ rhs[k] \in Int /\ ip.u[k] \in Int /\ ip.u[k] * e \in Int
  <2>1. lhs[k] \in Int /\ rhs[k] \in Int /\ ip.u[k] \in Int
    BY <1>7, <1>16, <1>17, PointInt
  <2> QED BY <1>2, <2>1
<1>20. ASSUME Cg(e, 0) PROVE lhs = rhs
  <2>1. ASSUME NEW k \in Generators PROVE Cg(rhs[k], lhs[k])
    <3> DEFINE l == lhs[k]
               d == rhs[k]
               w == ip.u[k]
    <3>1. l \in Int /\ d \in Int /\ w \in Int /\ Cg(d, l + w * e) /\ Order \in Int
      BY <1>18, <1>19, OrderIsPrime
    <3> HIDE DEF l, d, w
    <3>2. PICK k1 \in Int : d = l + w * e + k1 * Order
      BY <3>1 DEF Cg
    <3>3. PICK k2 \in Int : e = 0 + k2 * Order
      BY <1>20 DEF Cg
    <3> DEFINE j == w * k2 + k1
    <3>4. d = l + j * Order
      BY <3>1, <3>2, <3>3
    <3>5. j \in Int
      BY <3>1
    <3> HIDE DEF j
    <3> QED BY <3>4, <3>5 DEF Cg, d, l
  <2>2. rhs = lhs
    BY <1>16, <1>17, <2>1, PointsEqual
  <2> QED BY <2>2
<1>21. ASSUME lhs = rhs PROVE Cg(e, 0)
  <2>1. PICK k \in Generators : ~Cg(ip.u[k], 0)
    BY <1>1, CarrierIs
  <2> DEFINE l == lhs[k]
             w == ip.u[k]
             p == w * e
  <2>2. l \in Int /\ w \in Int /\ p \in Int /\ Cg(l, l + p) /\ Order \in Int
    BY <1>18, <1>19, <1>21, OrderIsPrime
  <2>3. ~Cg(w, 0)
    BY <2>1
  <2> HIDE DEF l, w, p
  <2>4. PICK k1 \in Int : l = l + p + k1 * Order
    BY <2>2 DEF Cg
  <2>5. p = 0 + (-k1) * Order /\ -k1 \in Int
    BY <2>2, <2>4
  <2>6. Cg(p, 0)
    BY <2>5 DEF Cg
  <2> QED BY <1>2, <2>2, <2>3, <2>6, NoZeroDivisor DEF p
<1>22. lhs = rhs <=> Cg(e, 0)
  BY <1>20, <1>21
<1> QED BY <1>6, <1>22 DEF lhs, rhs, e, n

\* The values w weighted by the powers of z.
Weighted(z, w, m) == Sum([j \in 1 .. m |-> Pow(z, j + 1) * w[j]], m)

\* Weighted values are integers.
LEMMA WeightedIs ==
  ASSUME NEW z \in Int, NEW m \in Nat, NEW w \in Vectors(m, Int)
  PROVE  /\ Ints([j \in 1 .. m |-> Pow(z, j + 1) * w[j]], m)
         /\ Weighted(z, w, m) \in Int
         /\ \A j \in 1 .. m : Pow(z, j + 1) \in Int
<1>1. \A j \in 1 .. m : Pow(z, j + 1) \in Int /\ w[j] \in Int
  <2> TAKE j \in 1 .. m
  <2>1. j + 1 \in Nat
    OBVIOUS
  <2> QED BY <2>1, PowNext DEF Vectors
<1> DEFINE f == [j \in 1 .. m |-> Pow(z, j + 1) * w[j]]
<1>2. Ints(f, m)
  BY <1>1 DEF Ints
<1>3. Weighted(z, w, m) = Sum(f, m)
  BY DEF Weighted
<1> HIDE DEF f
<1>4. Sum(f, m) \in Int
  BY <1>2, SumType
<1> QED BY <1>1, <1>2, <1>3, <1>4 DEF f

\* The commitments, weighted: one to the weighted values.
LEMMA CommitmentsAre ==
  ASSUME NEW z \in Int, NEW m \in Nat, NEW w \in Vectors(m, Int), NEW r \in Vectors(m, Int)
  PROVE  LET V == [j \in 1 .. m |-> PedersenCommit(w[j], r[j])]
             p == VectorScalarMulSum([j \in 1 .. m |-> Pow(z, j + 1)], V)
         IN  /\ p \in Points
             /\ \A k \in Generators :
                   Cg(p[k], h[k] * Weighted(z, r, m) + g[k] * Weighted(z, w, m))
<1> DEFINE V == [j \in 1 .. m |-> PedersenCommit(w[j], r[j])]
           pz == [j \in 1 .. m |-> Pow(z, j + 1)]
           p == VectorScalarMulSum(pz, V)
           fr == [j \in 1 .. m |-> Pow(z, j + 1) * r[j]]
           fw == [j \in 1 .. m |-> Pow(z, j + 1) * w[j]]
<1>1. /\ Ints(fr, m) /\ Ints(fw, m) /\ Weighted(z, r, m) \in Int /\ Weighted(z, w, m) \in Int
      /\ \A j \in 1 .. m : Pow(z, j + 1) \in Int
  BY WeightedIs
<1>2. pz \in Vectors(m, Int) /\ \A j \in 1 .. m : pz[j] \in Int
  BY <1>1 DEF Vectors
<1>3. \A j \in 1 .. m : w[j] \in Int /\ r[j] \in Int
  BY DEF Vectors
<1>4. V \in Vectors(m, Points)
  BY <1>3, PedersenIs DEF Vectors
<1>5. \A j \in 1 .. m, k \in Generators : Cg(V[j][k], h[k] * r[j] + g[k] * w[j])
  BY <1>3, PedersenIs
<1>6. /\ \A j \in 1 .. m : fr[j] = pz[j] * r[j] /\ fw[j] = pz[j] * w[j]
      /\ Weighted(z, r, m) = Sum(fr, m) /\ Weighted(z, w, m) = Sum(fw, m)
  BY DEF Weighted
<1> HIDE DEF V, pz, fr, fw
<1>7. /\ p \in Points
      /\ \A k \in Generators : p[k] = Sum(Terms(pz, At(V, k, m), m), m)
  BY <1>2, <1>4, MulSumIs
<1> HIDE DEF p
<1>8. ASSUME NEW k \in Generators PROVE Cg(p[k], h[k] * Sum(fr, m) + g[k] * Sum(fw, m))
  <2> DEFINE a == At(V, k, m)
             f == Terms(pz, a, m)
             H == h[k]
             G == g[k]
             o == 0
  <2>1. a \in Vectors(m, Int) /\ \A j \in 1 .. m : a[j] = V[j][k]
    BY <1>4, AtIs
  <2> HIDE DEF a
  <2>2. Ints(f, m) /\ \A j \in 1 .. m : f[j] = pz[j] * a[j]
    BY <1>2, <2>1, TermsAreInts
  <2> HIDE DEF f
  <2>3. H \in Int /\ G \in Int /\ o \in Int
    BY GeneratorTypes, PointInt
  <2>4. ASSUME NEW j \in 1 .. m
        PROVE  Cg(f[j], H * fr[j] + G * fw[j] + o * fw[j] + o * fw[j])
    <3> DEFINE b == a[j]
               c == pz[j]
               d == r[j]
               e == w[j]
    <3>1. b \in Int /\ c \in Int /\ d \in Int /\ e \in Int /\ Cg(b, H * d + G * e) /\ Order \in Int
      <4>1. a[j] = V[j][k] /\ a[j] \in Int
        BY <2>1 DEF Vectors
      <4>2. Cg(V[j][k], h[k] * r[j] + g[k] * w[j])
        BY <1>5
      <4>3. pz[j] \in Int /\ r[j] \in Int /\ w[j] \in Int /\ Order \in Int
        BY <1>2, <1>3, OrderIsPrime
      <4> QED BY <4>1, <4>2, <4>3
    <3>2. f[j] = c * b /\ fr[j] = c * d /\ fw[j] = c * e
      BY <1>6, <2>2
    <3> HIDE DEF b, c, d, e, H, G
    <3>3. PICK q \in Int : b = H * d + G * e + q * Order
      BY <3>1 DEF Cg
    <3>4. c * b = (H * (c * d) + G * (c * e)) + (c * q) * Order
      BY <2>3, <3>1, <3>3
    <3>5. c * q \in Int /\ c * d \in Int /\ c * e \in Int
      BY <3>1
    <3>6. Cg(f[j], H * fr[j] + G * fw[j])
      BY <3>2, <3>4, <3>5 DEF Cg
    <3>7. o * fw[j] = 0 /\ H * fr[j] + G * fw[j] \in Int
      BY <2>3, <3>2, <3>5
    <3>8. H * fr[j] + G * fw[j] + o * fw[j] + o * fw[j] = H * fr[j] + G * fw[j]
      BY <3>7
    <3> QED BY <3>6, <3>8
  <2> HIDE DEF o
  <2>5. Cg(Sum(f, m), H * Sum(fr, m) + G * Sum(fw, m) + o * Sum(fw, m) + o * Sum(fw, m))
    BY <1>1, <2>2, <2>3, <2>4, SumLinear
  <2> DEFINE s1 == Sum(fr, m)
             s2 == Sum(fw, m)
  <2>6. s1 \in Int /\ s2 \in Int
    BY <1>1, SumType
  <2> HIDE DEF s1, s2, H, G
  <2>7. H * s1 + G * s2 + o * s2 + o * s2 = H * s1 + G * s2
    BY <2>3, <2>6 DEF o
  <2>8. Cg(Sum(f, m), H * s1 + G * s2)
    BY <2>5, <2>7 DEF s1, s2
  <2> QED BY <1>7, <2>8 DEF f, a, s1, s2, H, G
<1> QED BY <1>6, <1>7, <1>8 DEF V, pz, p

\* One generator of both sides of the equation of tHat.
THatSides(H, G, tx, th, D, Sg, Sv, a1, a2, u1, u2, x, q, l, c1, c2, c3, c4) ==
    /\ Cg(l, H * tx + G * th) /\ Cg(c1, G * D) /\ Cg(c2, H * Sg + G * Sv)
    /\ Cg(c3, (H * u1 + G * a1) * x) /\ Cg(c4, (H * u2 + G * a2) * (x * x))
    /\ Cg(q, (c1 + c2) + (c3 + c4)) /\ Cg(tx, u1 * x + u2 * x * x + Sg)

THatGap(G, th, D, Sv, a1, a2, x, q, l) ==
    Cg(l - q, G * (th - (D + Sv + a1 * x + a2 * (x * x))))

\* The two sides differ by what tHat is besides what it should be.
LEMMA THatSidesDiffer ==
  ASSUME NEW H \in Int, NEW G \in Int, NEW tx \in Int, NEW th \in Int, NEW D \in Int, NEW Sg \in Int,
         NEW Sv \in Int, NEW a1 \in Int, NEW a2 \in Int, NEW u1 \in Int, NEW u2 \in Int, NEW x \in Int,
         NEW q \in Int, NEW l \in Int, NEW c1 \in Int, NEW c2 \in Int, NEW c3 \in Int, NEW c4 \in Int,
         THatSides(H, G, tx, th, D, Sg, Sv, a1, a2, u1, u2, x, q, l, c1, c2, c3, c4)
  PROVE  THatGap(G, th, D, Sv, a1, a2, x, q, l)
<1>0. Order \in Int
  BY OrderIsPrime
<1> DEFINE xx == x * x
           A1 == a1 * x
           A2 == a2 * xx
           U1 == u1 * x
           U2 == u2 * xx
<1>1. xx \in Int /\ A1 \in Int /\ A2 \in Int /\ U1 \in Int /\ U2 \in Int
  OBVIOUS
<1>2. /\ (H * u1 + G * a1) * x = H * U1 + G * A1
      /\ (H * u2 + G * a2) * (x * x) = H * U2 + G * A2
      /\ u1 * x + u2 * x * x + Sg = U1 + U2 + Sg
      /\ D + Sv + a1 * x + a2 * (x * x) = D + Sv + A1 + A2
  <2>1. (H * u1 + G * a1) * x = H * U1 + G * A1
    OBVIOUS
  <2>2. (H * u2 + G * a2) * (x * x) = H * U2 + G * A2
    <3> HIDE DEF xx
    <3>1. (H * u2 + G * a2) * xx = H * U2 + G * A2
      BY <1>1
    <3> QED BY <3>1 DEF xx
  <2>3. u2 * x * x = U2
    OBVIOUS
  <2> QED BY <2>1, <2>2, <2>3
<1>3. /\ Cg(l, H * tx + G * th) /\ Cg(c1, G * D) /\ Cg(c2, H * Sg + G * Sv)
      /\ Cg(c3, H * U1 + G * A1) /\ Cg(c4, H * U2 + G * A2)
      /\ Cg(q, (c1 + c2) + (c3 + c4)) /\ Cg(tx, U1 + U2 + Sg)
  BY <1>2 DEF THatSides
<1> HIDE DEF xx, A1, A2, U1, U2
<1>4. PICK k1 \in Int : l = H * tx + G * th + k1 * Order
  BY <1>3 DEF Cg
<1>5. PICK k2 \in Int : c1 = G * D + k2 * Order
  BY <1>3 DEF Cg
<1>6. PICK k3 \in Int : c2 = H * Sg + G * Sv + k3 * Order
  BY <1>3 DEF Cg
<1>7. PICK k4 \in Int : c3 = H * U1 + G * A1 + k4 * Order
  BY <1>3 DEF Cg
<1>8. PICK k5 \in Int : c4 = H * U2 + G * A2 + k5 * Order
  BY <1>3 DEF Cg
<1>9. PICK k6 \in Int : q = (c1 + c2) + (c3 + c4) + k6 * Order
  BY <1>3 DEF Cg
<1>10. PICK k7 \in Int : tx = U1 + U2 + Sg + k7 * Order
  BY <1>3 DEF Cg
<1> DEFINE j == k1 - k2 - k3 - k4 - k5 - k6 + H * k7
           E == D + Sv + A1 + A2
<1>11. l - q = G * (th - E) + j * Order
  <2>1. H * tx = H * U1 + H * U2 + H * Sg + (H * k7) * Order
    BY <1>0, <1>1, <1>10
  <2>2. G * (th - E) = G * th - G * D - G * Sv - G * A1 - G * A2
    BY <1>1
  <2>3. l - q = (H * tx + G * th + k1 * Order)
                  - ((G * D + k2 * Order + (H * Sg + G * Sv + k3 * Order))
                     + ((H * U1 + G * A1 + k4 * Order) + (H * U2 + G * A2 + k5 * Order)) + k6 * Order)
    BY <1>0, <1>1, <1>4, <1>5, <1>6, <1>7, <1>8, <1>9
  <2>4. j * Order = k1 * Order - k2 * Order - k3 * Order - k4 * Order - k5 * Order - k6 * Order
                      + (H * k7) * Order
    BY <1>0
  <2> HIDE DEF j, E
  <2> DEFINE Ht == H * tx
             Gt == G * th
             GD == G * D
             GS == G * Sv
             GA == G * A1
             GB == G * A2
             HS == H * Sg
             HU == H * U1
             HV == H * U2
             o1 == k1 * Order
             o2 == k2 * Order
             o3 == k3 * Order
             o4 == k4 * Order
             o5 == k5 * Order
             o6 == k6 * Order
             o7 == (H * k7) * Order
             jO == j * Order
             GE == G * (th - E)
  <2>5. /\ Ht \in Int /\ Gt \in Int /\ GD \in Int /\ GS \in Int /\ GA \in Int /\ GB \in Int
        /\ HS \in Int /\ HU \in Int /\ HV \in Int /\ o1 \in Int /\ o2 \in Int /\ o3 \in Int
        /\ o4 \in Int /\ o5 \in Int /\ o6 \in Int /\ o7 \in Int
    BY <1>0, <1>1
  <2>6. /\ Ht = HU + HV + HS + o7 /\ GE = Gt - GD - GS - GA - GB
        /\ l - q = (Ht + Gt + o1) - ((GD + o2 + (HS + GS + o3)) + ((HU + GA + o4) + (HV + GB + o5)) + o6)
        /\ jO = o1 - o2 - o3 - o4 - o5 - o6 + o7
    BY <2>1, <2>2, <2>3, <2>4
  <2> HIDE DEF Ht, Gt, GD, GS, GA, GB, HS, HU, HV, o1, o2, o3, o4, o5, o6, o7, jO, GE
  <2>7. l - q = GE + jO
    BY <2>5, <2>6
  <2> QED BY <2>7 DEF GE, jO
<1>12. j \in Int
  OBVIOUS
<1> HIDE DEF j, E
<1>13. Cg(l - q, G * (th - E))
  BY <1>11, <1>12 DEF Cg
<1> QED BY <1>2, <1>13 DEF E, THatGap

\* The first check accepts exactly if tHat is the polynomial that was committed
\* to, at x.
LEMMA VerifyTHatIs ==
  ASSUME Inv, phase \in {"made", "accepted", "rejected"}
  PROVE  LET n == N * Len(v)
         IN  VerifyTHat <=>
                Cg(proof.tHat, Delta(n, ch.y, ch.z) + Weighted(ch.z, v, Len(v))
                                 + t1(secret, ch.y, ch.z) * ch.x
                                 + t2(secret, ch.y) * (ch.x * ch.x))
<1> DEFINE m == Len(v)
           n == N * m
           D == Delta(n, ch.y, ch.z)
           Sv == Weighted(ch.z, v, m)
           Sg == Weighted(ch.z, secret.gamma, m)
           a1 == t1(secret, ch.y, ch.z)
           a2 == t2(secret, ch.y)
           u1 == secret.tau1
           u2 == secret.tau2
           x == ch.x
           th == proof.tHat
           tx == proof.taux
           val == D + Sv + a1 * x + a2 * (x * x)
           p1 == ScalarMult(g, D)
           p2 == VectorScalarMulSum([j \in 1 .. m |-> Pow(ch.z, j + 1)], proof.V)
           p3 == ScalarMult(proof.T1, x)
           p4 == ScalarMult(proof.T2, x * x)
           p12 == Add(p1, p2)
           p34 == Add(p3, p4)
           lhs == PedersenCommit(th, tx)
           rhs == Add(p12, p34)
<1>1. phase \in Begun \ {"poly", "evaluate"} /\ phase \in Begun \ {"poly"} /\ phase \in Begun
      /\ phase \notin {"render", "refused"}
  BY DEF Begun
<1>2. /\ m \in {1, 2} /\ n \in Nat /\ secret \in Secrets(m, n)
      /\ ch.y \in Int /\ ch.z \in Int /\ x \in Int /\ th \in Int
  BY <1>1, AnsweredIs
<1>3. v \in Vectors(m, Int) /\ m \in Nat
  BY <1>1, <1>2, WitnessIs DEF Inv
<1>4. secret.gamma \in Vectors(m, Int) /\ u1 \in Int /\ u2 \in Int
  BY <1>2 DEF Secrets
<1>5. /\ proof.V = [j \in 1 .. m |-> PedersenCommit(v[j], secret.gamma[j])]
      /\ proof.T1 = PedersenCommit(a1, u1) /\ proof.T2 = PedersenCommit(a2, u2)
      /\ tx = TauX(secret, ch.z, x)
  BY <1>1 DEF Inv, Committed, Posed, Answered
<1>6. Len(proof.V) = m
  BY <1>3, <1>5
<1>7. VerifyTHat <=> lhs = rhs
  BY <1>6 DEF VerifyTHat
<1>8. D \in Int /\ a1 \in Int /\ a2 \in Int /\ Sv \in Int /\ Sg \in Int /\ tx \in Int
      /\ Cg(tx, u1 * x + u2 * x * x + Sg)
  <2>1. D \in Int
    BY <1>2, DeltaIs
  <2>2. a1 \in Int /\ a2 \in Int
    BY <1>2, CoefficientsAre
  <2>3. Sv \in Int /\ Sg \in Int
    BY <1>2, <1>3, <1>4, WeightedIs
  <2>4. TauX(secret, ch.z, x) \in Int /\ Cg(TauX(secret, ch.z, x), u1 * x + u2 * x * x + Sg)
    BY <1>2, <1>3, TauXIs DEF Weighted
  <2> QED BY <1>5, <2>1, <2>2, <2>3, <2>4
<1> HIDE DEF m, n, D, Sv, Sg, a1, a2, u1, u2, x, th, tx
<1>9. x * x \in Int
  BY <1>2
<1>10. /\ p1 \in Points /\ \A k \in Generators : Cg(p1[k], g[k] * D)
  BY <1>8, GeneratorTypes, ScalarMultIs
<1>11. /\ p2 \in Points /\ \A k \in Generators : Cg(p2[k], h[k] * Sg + g[k] * Sv)
  BY <1>2, <1>3, <1>4, <1>5, CommitmentsAre DEF Sg, Sv
<1>12. /\ proof.T1 \in Points /\ \A k \in Generators : Cg(proof.T1[k], h[k] * u1 + g[k] * a1)
       /\ proof.T2 \in Points /\ \A k \in Generators : Cg(proof.T2[k], h[k] * u2 + g[k] * a2)
  BY <1>4, <1>5, <1>8, PedersenIs
<1>13. /\ p3 \in Points /\ \A k \in Generators : Cg(p3[k], proof.T1[k] * x)
       /\ p4 \in Points /\ \A k \in Generators : Cg(p4[k], proof.T2[k] * (x * x))
  BY <1>2, <1>9, <1>12, ScalarMultIs
<1>14. lhs \in Points /\ \A k \in Generators : Cg(lhs[k], h[k] * tx + g[k] * th)
  BY <1>2, <1>8, PedersenIs
<1> HIDE DEF p1, p2, p3, p4, lhs
<1>15. p12 \in Points /\ \A k \in Generators : Cg(p12[k], p1[k] + p2[k])
  BY <1>10, <1>11, AddIs
<1>16. p34 \in Points /\ \A k \in Generators : Cg(p34[k], p3[k] + p4[k])
  BY <1>13, AddIs
<1> HIDE DEF p12, p34
<1>17. rhs \in Points /\ \A k \in Generators : Cg(rhs[k], p12[k] + p34[k])
  BY <1>15, <1>16, AddIs
<1> HIDE DEF rhs
<1>18. val \in Int
  BY <1>2, <1>8
<1>19. ASSUME NEW k \in Generators PROVE Cg(lhs[k] - rhs[k], g[k] * (th - val))
  <2> DEFINE H == h[k]
             G == g[k]
             c1 == p1[k]
             c2 == p2[k]
             c3 == p3[k]
             c4 == p4[k]
             w1 == H * u1 + G * a1
             w2 == H * u2 + G * a2
             xx == x * x
  <2>1. /\ H \in Int /\ G \in Int /\ c1 \in Int /\ c2 \in Int /\ c3 \in Int /\ c4 \in Int
        /\ lhs[k] \in Int /\ rhs[k] \in Int /\ p12[k] \in Int /\ p34[k] \in Int
        /\ proof.T1[k] \in Int /\ proof.T2[k] \in Int
    BY <1>10, <1>11, <1>12, <1>13, <1>14, <1>15, <1>16, <1>17, GeneratorTypes, PointInt
  <2>2. Cg(rhs[k], (c1 + c2) + (c3 + c4))
    <3>1. Cg(p12[k], c1 + c2) /\ Cg(p34[k], c3 + c4)
      BY <1>15, <1>16
    <3> DEFINE d1 == c1 + c2
               d2 == c3 + c4
    <3>2. d1 \in Int /\ d2 \in Int /\ Cg(p12[k], d1) /\ Cg(p34[k], d2)
      BY <2>1, <3>1
    <3> HIDE DEF d1, d2
    <3>3. Cg(p12[k] + p34[k], d1 + d2)
      BY <2>1, <3>2, CgAdd
    <3>4. Cg(rhs[k], d1 + d2)
      BY <1>17, <2>1, <3>2, <3>3, CgTrans
    <3> QED BY <3>4 DEF d1, d2
  <2>3. w1 \in Int /\ w2 \in Int /\ xx \in Int /\ Cg(x, x) /\ Cg(xx, xx)
    <3>1. w1 \in Int /\ w2 \in Int
      BY <1>4, <1>8, <2>1
    <3> QED BY <1>2, <1>9, <3>1, CgRefl
  <2>4. Cg(proof.T1[k], w1) /\ Cg(proof.T2[k], w2)
    BY <1>12
  <2>5. Cg(c3, proof.T1[k] * x) /\ Cg(c4, proof.T2[k] * xx)
    BY <1>13
  <2> DEFINE e1 == proof.T1[k]
             e2 == proof.T2[k]
  <2>6. e1 \in Int /\ e2 \in Int /\ Cg(e1, w1) /\ Cg(e2, w2) /\ Cg(c3, e1 * x) /\ Cg(c4, e2 * xx)
    BY <2>1, <2>4, <2>5
  <2> HIDE DEF w1, w2, xx, c1, c2, c3, c4, e1, e2
  <2>7. Cg(e1 * x, w1 * x) /\ Cg(e2 * xx, w2 * xx)
    BY <1>2, <2>3, <2>6, CgMul
  <2>8. Cg(c3, w1 * x) /\ Cg(c4, w2 * xx)
    <3>1. e1 * x \in Int /\ w1 * x \in Int /\ e2 * xx \in Int /\ w2 * xx \in Int
      BY <1>2, <2>3, <2>6
    <3> QED BY <2>1, <2>6, <2>7, <3>1, CgTrans
  <2>9. THatSides(H, G, tx, th, D, Sg, Sv, a1, a2, u1, u2, x, rhs[k], lhs[k], c1, c2, c3, c4)
    BY <1>8, <1>10, <1>11, <1>14, <2>2, <2>8 DEF THatSides, w1, w2, xx, c1, c2
  <2> DEFINE l == lhs[k]
             q == rhs[k]
  <2>10. /\ l \in Int /\ q \in Int /\ H \in Int /\ G \in Int
         /\ c1 \in Int /\ c2 \in Int /\ c3 \in Int /\ c4 \in Int
         /\ tx \in Int /\ th \in Int /\ D \in Int /\ Sg \in Int /\ Sv \in Int
         /\ a1 \in Int /\ a2 \in Int /\ u1 \in Int /\ u2 \in Int /\ x \in Int
         /\ THatSides(H, G, tx, th, D, Sg, Sv, a1, a2, u1, u2, x, q, l, c1, c2, c3, c4)
    BY <1>2, <1>4, <1>8, <2>1, <2>9
  <2> HIDE DEF H, G, l, q
  <2>11. THatGap(G, th, D, Sv, a1, a2, x, q, l)
    BY <2>10, THatSidesDiffer
  <2> QED BY <2>11 DEF G, l, q, THatGap
<1> HIDE DEF val
<1>20. \A k \in Generators : lhs[k] \in Int /\ rhs[k] \in Int /\ g[k] \in Int
  BY <1>14, <1>17, GeneratorTypes, PointInt
<1>21. ASSUME Cg(th, val) PROVE lhs = rhs
  <2>1. PICK c \in Int : th = val + c * Order
    BY <1>21 DEF Cg
  <2>2. ASSUME NEW k \in Generators PROVE Cg(lhs[k], rhs[k])
    <3> DEFINE l == lhs[k]
               q == rhs[k]
               G == g[k]
               e == th - val
    <3>1. l \in Int /\ q \in Int /\ G \in Int /\ Order \in Int /\ e \in Int /\ Cg(l - q, G * e)
      BY <1>2, <1>18, <1>19, <1>20, OrderIsPrime
    <3>2. e = c * Order
      BY <1>2, <1>18, <2>1, <3>1
    <3> HIDE DEF l, q, G, e
    <3>3. PICK k1 \in Int : l - q = G * e + k1 * Order
      BY <3>1 DEF Cg
    <3> DEFINE j == G * c + k1
    <3>4. l = q + j * Order
      <4>1. G * e = (G * c) * Order
        BY <3>1, <3>2
      <4>2. j * Order = (G * c) * Order + k1 * Order
        BY <3>1
      <4>3. (G * c) * Order \in Int /\ k1 * Order \in Int
        BY <3>1
      <4> HIDE DEF j
      <4> QED BY <3>1, <3>3, <4>1, <4>2, <4>3
    <3>5. j \in Int
      BY <3>1
    <3> HIDE DEF j
    <3> QED BY <3>4, <3>5 DEF Cg, l, q
  <2> QED BY <1>14, <1>17, <2>2, PointsEqual
<1>22. ASSUME lhs = rhs PROVE Cg(th, val)
  <2> DEFINE k == <<"g", 0>>
  <2>1. k \in Generators
    BY DEF Generators
  <2>2. g[k] = 1
    BY <2>1 DEF g, Generator, Infinity
  <2> HIDE DEF k
  <2>3. Cg(lhs[k] - rhs[k], g[k] * (th - val))
    BY <1>19, <2>1
  <2>4. lhs[k] - rhs[k] = 0 /\ 1 * (th - val) = th - val
    BY <1>2, <1>18, <1>20, <1>22, <2>1
  <2>5. Cg(0, th - val)
    BY <2>2, <2>3, <2>4
  <2>6. PICK c \in Int : 0 = (th - val) + c * Order
    BY <2>5 DEF Cg
  <2>7. th = val + (-c) * Order /\ -c \in Int
    BY <1>2, <1>18, <2>6, OrderIsPrime
  <2> QED BY <2>7 DEF Cg
<1>23. VerifyTHat <=> Cg(th, val)
  BY <1>7, <1>21, <1>22
<1> QED BY <1>23 DEF m, n, D, Sv, a1, a2, x, th, val

-----------------------------------------------------------------------------
(* The value of the digits                                                 *)

\* The quotient, of a number that is taken apart.
LEMMA DivisionUnique ==
  ASSUME NEW x \in Int, NEW d \in Nat \ {0}, NEW q \in Int, NEW r \in 0 .. d - 1, x = d * q + r
  PROVE  x \div d = q
BY QuotientUnique

\* One more digit of a number.
LEMMA DigitNext ==
  ASSUME NEW x \in Int, NEW p \in Nat \ {0}
  PROVE  /\ (x \div p) % 2 \in 0 .. 1 /\ x \div (2 * p) \in Int
         /\ p * (x \div p) = p * ((x \div p) % 2) + (2 * p) * (x \div (2 * p))
<1> DEFINE q == x \div p
           r == x % p
           k == q \div 2
           b == q % 2
           pp == 2 * p
<1>1. q \in Int /\ r \in 0 .. p - 1 /\ x = p * q + r
  BY DivisionBounds
<1> HIDE DEF q, r
<1>2. k \in Int /\ b \in 0 .. 1 /\ q = 2 * k + b
  BY <1>1
<1> HIDE DEF k, b
<1>3. p * q = p * b + pp * k
  BY <1>1, <1>2
<1>4. p * b + r \in 0 .. pp - 1
  <2>1. b = 0 \/ b = 1
    BY <1>2
  <2> QED BY <1>1, <2>1
<1>5. x \div pp = k
  <2>1. x = pp * k + (p * b + r)
    BY <1>1, <1>2, <1>3
  <2>2. pp \in Nat \ {0}
    OBVIOUS
  <2> HIDE DEF pp
  <2> QED BY <1>2, <1>4, <2>1, <2>2, DivisionUnique
<1> QED BY <1>2, <1>3, <1>5 DEF q, b

DigitStep(x) ==
    [i \in 1 .. N |-> [s \in Int |-> s + Decompose(x)[i] * 2^(i - 1)]]

\* What the digits stand for grows by one digit after the other.
LEMMA DigitsDef ==
  ASSUME NEW x \in Int
  PROVE  \E s \in [0 .. N -> Int] :
            /\ s[0] = 0 /\ Digits(x) = s[N]
            /\ \A i \in 1 .. N : s[i] = s[i - 1] + Decompose(x)[i] * 2^(i - 1)
<1> DEFINE d == Decompose(x)
           w(i) == d[i] * 2^(i - 1)
           st == DigitStep(x)
<1>1. N \in Nat /\ \A i \in 1 .. N : w(i) \in Int
  <2>1. N \in Nat
    BY NIsNat
  <2>2. ASSUME NEW i \in 1 .. N PROVE w(i) \in Int
    <3>1. i - 1 \in Nat
      BY <2>1
    <3>2. 2^(i - 1) \in Int
      BY <3>1, TwoPositive
    <3>3. d[i] \in Int
      BY DigitType
    <3> QED BY <3>2, <3>3
  <2> QED BY <2>1, <2>2
<1> HIDE DEF d
<1>2. st = [i \in 1 .. N |-> [s \in Int |-> s + w(i)]]
  BY DEF DigitStep, d
<1> HIDE DEF w
<1>3. st \in [1 .. N -> [Int -> Int]] /\ 0 \in Int
  BY <1>1, <1>2
<1>4. \A i \in 1 .. N, s \in Int : st[i][s] = s + w(i)
  BY <1>2
<1> HIDE DEF st
<1>5. PICK p \in [0 .. N -> Int] : Recursive(p, N, 0, st)
  BY <1>1, <1>3, RecursionExists
<1> DEFINE Is(s) == s = [i \in 0 .. N |-> IF i = 0 THEN 0 ELSE s[i - 1] + w(i)]
           c == CHOOSE s : Is(s)
<1>6. p[0] = 0 /\ \A i \in 1 .. N : p[i] = p[i - 1] + w(i)
  <2>1. ASSUME NEW i \in 1 .. N PROVE p[i] = p[i - 1] + w(i)
    <3>1. p[i - 1] \in Int /\ p[i] = st[i][p[i - 1]]
      BY <1>1, <1>5 DEF Recursive
    <3> QED BY <1>4, <3>1
  <2> QED BY <1>5, <2>1 DEF Recursive
<1>7. Is(p)
  BY <1>6
<1>8. Is(c)
  <2> HIDE DEF Is
  <2> QED BY <1>7
<1>9. Digits(x) = c[N]
  BY DEF Digits, w, d
<1> HIDE DEF c
<1>10. c[0] = 0 /\ \A i \in 1 .. N : c[i] = c[i - 1] + w(i)
  <2>1. c[0] = 0
    BY <1>1, <1>8
  <2> QED BY <1>1, <1>8, <2>1
<1>11. \A i \in 0 .. N : c[i] = p[i]
  <2> DEFINE T == {k \in Nat : k <= N => c[k] = p[k]}
  <2>1. 0 \in T
    BY <1>6, <1>10
  <2>2. ASSUME NEW k \in T PROVE k + 1 \in T
    <3> SUFFICES ASSUME k + 1 <= N PROVE c[k + 1] = p[k + 1]
      OBVIOUS
    <3>1. c[k + 1] = c[k] + w(k + 1) /\ p[k + 1] = p[k] + w(k + 1)
      BY <1>1, <1>6, <1>10
    <3> QED BY <1>1, <3>1
  <2>3. T \subseteq Nat
    OBVIOUS
  <2> HIDE DEF T
  <2>4. \A k \in Nat : k \in T
    BY <2>1, <2>2, <2>3, Induction
  <2> QED BY <1>1, <2>4 DEF T
<1>12. Digits(x) = p[N]
  BY <1>1, <1>9, <1>11
<1> QED BY <1>6, <1>12 DEF w, d

\* The digits in the field.
DigitTerms(x) == [k \in 1 .. N |-> Decompose(x)[k] * 2^(k - 1)]

\* The value of the digits is their sum, modulo Order.
LEMMA DigitsAreASum ==
  ASSUME NEW x \in Int
  PROVE  /\ Ints(DigitTerms(x), N) /\ Digits(x) \in Int
         /\ Cg(Sum(DigitTerms(x), N), Digits(x))
<1> DEFINE f == DigitTerms(x)
<1>1. N \in Nat /\ \A i \in 1 .. N : f[i] = Decompose(x)[i] * 2^(i - 1) /\ f[i] \in Int
  <2>1. N \in Nat
    BY NIsNat
  <2>2. ASSUME NEW i \in 1 .. N PROVE Decompose(x)[i] * 2^(i - 1) \in Int
    <3>1. i - 1 \in Nat
      BY <2>1
    <3>2. 2^(i - 1) \in Int
      BY <3>1, TwoPositive
    <3>3. Decompose(x)[i] \in Int
      BY DigitType
    <3> QED BY <3>2, <3>3
  <2> QED BY <2>1, <2>2 DEF DigitTerms
<1>2. PICK s \in [0 .. N -> Int] :
         /\ s[0] = 0 /\ Digits(x) = s[N]
         /\ \A i \in 1 .. N : s[i] = s[i - 1] + Decompose(x)[i] * 2^(i - 1)
  BY DigitsDef
<1>3. \A i \in 1 .. N : s[i] = s[i - 1] + f[i]
  BY <1>1, <1>2
<1> HIDE DEF f
<1>4. Ints(f, N)
  BY <1>1 DEF Ints
<1> DEFINE T == {k \in Nat : k <= N => Cg(Sum(f, k), s[k])}
<1>5. 0 \in T
  <2>1. Sum(f, 0) = 0 /\ s[0] = 0
    BY <1>2, SumZero
  <2> QED BY <2>1, CgRefl
<1>6. ASSUME NEW k \in T PROVE k + 1 \in T
  <2> SUFFICES ASSUME k + 1 <= N PROVE Cg(Sum(f, k + 1), s[k + 1])
    OBVIOUS
  <2> DEFINE S == Sum(f, k)
             a == f[k + 1]
             e == s[k]
  <2>1. /\ k \in Nat /\ Ints(f, k) /\ Ints(f, k + 1) /\ a \in Int /\ e \in Int /\ Cg(S, e)
        /\ s[k + 1] = e + a
    BY <1>1, <1>2, <1>3 DEF Ints
  <2>2. S \in Int
    BY <2>1, SumType
  <2>3. Sum(f, k + 1) = (S + a) % Order
    BY <2>1, SumNext
  <2> HIDE DEF S, a, e
  <2> DEFINE S1 == S + a
             e1 == e + a
  <2>4. Cg(S1, e1)
    BY <2>1, <2>2, CgRefl, CgAdd
  <2>5. S1 \in Int /\ e1 \in Int
    BY <2>1, <2>2
  <2> HIDE DEF S1, e1
  <2>6. Cg(S1 % Order, S1) /\ S1 % Order \in Int
    BY <2>5, CgMod
  <2>7. Cg(S1 % Order, e1)
    BY <2>4, <2>5, <2>6, CgTrans
  <2> QED BY <2>1, <2>3, <2>7 DEF S1, e1
<1>7. T \subseteq Nat
  OBVIOUS
<1> HIDE DEF T
<1>8. N \in T
  BY <1>1, <1>5, <1>6, <1>7, Induction
<1>9. Cg(Sum(f, N), s[N])
  BY <1>8 DEF T
<1>10. s[N] \in Int
  BY <1>1
<1> QED BY <1>2, <1>4, <1>9, <1>10 DEF f

\* A number below 2^N is its digits; a negative one leaves a bit.
LEMMA DigitsAre ==
  ASSUME NEW x \in Int
  PROVE  /\ x >= 0 => Digits(x) \in 0 .. 2^N - 1 /\ Digits(x) <= x
         /\ InRange(x) => Digits(x) = x
         /\ x < 0 => Digits(x) \in {0, 1}
<1>1. N \in Nat /\ N >= 2 /\ 2^N \in Nat /\ 2^N >= 1
  BY NIsNat, TwoPositive
<1>2. PICK s \in [0 .. N -> Int] :
         /\ s[0] = 0 /\ Digits(x) = s[N]
         /\ \A i \in 1 .. N : s[i] = s[i - 1] + Decompose(x)[i] * 2^(i - 1)
  BY DigitsDef
<1>3. ASSUME x >= 0
      PROVE  s[N] \in 0 .. 2^N - 1 /\ x = s[N] + 2^N * (x \div 2^N)
  <2> DEFINE T == {k \in Nat : k <= N => s[k] \in 0 .. 2^k - 1 /\ x = s[k] + 2^k * (x \div 2^k)}
  <2>1. 0 \in T
    <3>1. x \div 1 = x
      OBVIOUS
    <3>2. 2^0 = 1 /\ s[0] = 0
      BY <1>2, TwoZero
    <3> QED BY <3>1, <3>2
  <2>2. ASSUME NEW k \in T PROVE k + 1 \in T
    <3> SUFFICES ASSUME k + 1 <= N
                 PROVE  s[k + 1] \in 0 .. 2^(k + 1) - 1 /\ x = s[k + 1] + 2^(k + 1) * (x \div 2^(k + 1))
      OBVIOUS
    <3> DEFINE p == 2^k
               pp == 2^(k + 1)
               a == s[k]
               q == x \div p
               b == q % 2
               q1 == x \div pp
    <3>1. /\ k \in Nat /\ a \in 0 .. p - 1 /\ x = a + p * q
      <4>1. k \in Nat /\ k <= N
        BY <1>1
      <4>2. s[k] \in 0 .. 2^k - 1 /\ x = s[k] + 2^k * (x \div 2^k)
        BY <4>1
      <4> QED BY <4>1, <4>2
    <3>2. p \in Nat \ {0} /\ pp = 2 * p
      BY <3>1, TwoPositive, TwoNext
    <3>3. s[k + 1] = a + b * p
      <4>1. k + 1 \in 1 .. N /\ (k + 1) - 1 = k
        BY <1>1, <3>1
      <4>2. Decompose(x)[k + 1] = b
        BY <1>3, <4>1 DEF Decompose
      <4> QED BY <1>2, <4>1, <4>2
    <3>4. b \in 0 .. 1 /\ q1 \in Int /\ p * q = p * b + pp * q1
      <4> HIDE DEF p, pp
      <4> QED BY <3>2, DigitNext
    <3>5. s[k + 1] \in Int
      BY <1>1, <1>2
    <3>6. q \in Int
      BY <3>2, DivisionBounds
    <3> HIDE DEF p, pp, a, b, q, q1
    <3>7. a + b * p \in 0 .. pp - 1
      <4>1. b = 0 \/ b = 1
        BY <3>4
      <4> QED BY <3>1, <3>2, <4>1
    <3>8. x = (a + b * p) + pp * q1
      BY <3>1, <3>2, <3>4, <3>6
    <3> QED BY <3>3, <3>7, <3>8 DEF pp, q1
  <2>3. T \subseteq Nat
    OBVIOUS
  <2> HIDE DEF T
  <2>4. N \in T
    BY <1>1, <2>1, <2>2, <2>3, Induction
  <2> QED BY <1>1, <2>4 DEF T
<1>4. ASSUME x < 0 PROVE s[N] \in {0, 1}
  <2> DEFINE T == {k \in Nat : k + 1 <= N => s[k + 1] = s[1]}
  <2>1. 0 \in T
    OBVIOUS
  <2>2. ASSUME NEW k \in T PROVE k + 1 \in T
    <3> SUFFICES ASSUME (k + 1) + 1 <= N PROVE s[(k + 1) + 1] = s[1]
      OBVIOUS
    <3>1. k \in Nat /\ s[k + 1] = s[1]
      BY <1>1
    <3>2. k + 2 \in 1 .. N /\ (k + 2) - 1 = k + 1 /\ (k + 1) + 1 = k + 2 /\ k + 2 > 1
      BY <1>1, <3>1
    <3>3. Decompose(x)[k + 2] = 0
      BY <1>4, <3>2 DEF Decompose
    <3>4. s[k + 2] = s[k + 1] + Decompose(x)[k + 2] * 2^(k + 1)
      BY <1>2, <3>2
    <3>5. 2^(k + 1) \in Nat
      BY <3>1, TwoPositive
    <3>6. s[k + 1] \in Int
      BY <1>1, <1>2, <3>1, <3>2
    <3>7. s[k + 2] = s[k + 1]
      BY <3>3, <3>4, <3>5, <3>6
    <3> QED BY <3>1, <3>2, <3>7
  <2>3. T \subseteq Nat
    OBVIOUS
  <2> HIDE DEF T
  <2>4. N - 1 \in T
    <3>1. N - 1 \in Nat
      BY <1>1
    <3> QED BY <2>1, <2>2, <2>3, <3>1, Induction
  <2>5. s[N] = s[1]
    BY <1>1, <2>4 DEF T
  <2>6. s[1] = 0 + Decompose(x)[1] * 2^0
    <3>1. 1 \in 1 .. N /\ 1 - 1 = 0
      BY <1>1
    <3> QED BY <1>2, <3>1
  <2>7. Decompose(x)[1] \in {0, 1}
    BY <1>1, DigitType
  <2>8. s[1] \in {0, 1}
    BY <2>6, <2>7, TwoZero
  <2> QED BY <2>5, <2>8
<1> DEFINE p == 2^N
           q == x \div p
<1>5. x >= 0 => q >= 0 /\ (x < p => q = 0)
  <2>1. SUFFICES ASSUME x >= 0 PROVE q >= 0 /\ (x < p => q = 0)
    OBVIOUS
  <2>2. /\ p \in Nat \ {0} /\ q \in Int /\ x = p * q + (x % p) /\ x % p \in 0 .. p - 1
    <3>1. p \in Nat \ {0}
      BY <1>1
    <3> HIDE DEF p
    <3> QED BY <3>1, DivisionBounds
  <2> HIDE DEF p, q
  <2>3. ~(q <= -1)
    <3>1. SUFFICES ASSUME q <= -1 PROVE FALSE
      OBVIOUS
    <3>2. p * q <= -p
      BY <2>2, <3>1
    <3> QED BY <2>1, <2>2, <3>2
  <2>4. q >= 1 => x >= p
    <3>1. SUFFICES ASSUME q >= 1 PROVE x >= p
      OBVIOUS
    <3>2. p * q >= p
      BY <2>2, <3>1
    <3> QED BY <2>2, <3>2
  <2> QED BY <2>2, <2>3, <2>4
<1>6. q \in Int
  <2>1. p \in Nat \ {0}
    BY <1>1
  <2> HIDE DEF p
  <2> QED BY <2>1, DivisionBounds
<1>7. s[N] \in Int
  BY <1>1
<1>8. x >= 0 => s[N] \in 0 .. p - 1 /\ x = s[N] + p * q
  BY <1>3
<1>9. p \in Nat
  BY <1>1
<1> HIDE DEF p, q
<1>10. q >= 0 => p * q >= 0
  BY <1>6, <1>9
<1>11. q = 0 => p * q = 0
  BY <1>9
<1>12. p * q \in Int
  BY <1>6, <1>9
<1>13. x >= 0 => s[N] <= x /\ (x < p => s[N] = x)
  BY <1>5, <1>7, <1>8, <1>10, <1>11, <1>12
<1>14. InRange(x) => x >= 0 /\ x < p
  BY <1>9 DEF InRange, p
<1> QED BY <1>2, <1>4, <1>8, <1>13, <1>14 DEF p

\* A common factor comes out of a sum.
LEMMA SumTimes ==
  ASSUME NEW n \in Nat, NEW f, NEW f1, NEW c \in Int, Ints(f, n), Ints(f1, n),
         \A i \in 1 .. n : Cg(f[i], c * f1[i])
  PROVE  Cg(Sum(f, n), c * Sum(f1, n))
<1> DEFINE o == 0
<1>1. o \in Int
  OBVIOUS
<1>2. \A i \in 1 .. n : c * f1[i] + o * f1[i] + o * f1[i] + o * f1[i] = c * f1[i]
  <2> TAKE i \in 1 .. n
  <2>1. f1[i] \in Int
    BY DEF Ints
  <2>2. c * f1[i] \in Int
    BY <2>1
  <2> QED BY <2>1, <2>2
<1>3. Sum(f1, n) \in Int
  BY SumType
<1> DEFINE S == Sum(f1, n)
<1>4. c * S + o * S + o * S + o * S = c * S
  <2> HIDE DEF S
  <2>1. S \in Int
    BY <1>3 DEF S
  <2>2. c * S \in Int
    BY <2>1
  <2> QED BY <2>1, <2>2
<1> HIDE DEF o, S
<1>5. \A i \in 1 .. n : Cg(f[i], c * f1[i] + o * f1[i] + o * f1[i] + o * f1[i])
  BY <1>2
<1>6. Cg(Sum(f, n), c * Sum(f1, n) + o * Sum(f1, n) + o * Sum(f1, n) + o * Sum(f1, n))
  BY <1>1, <1>5, SumLinear
<1> QED BY <1>4, <1>6 DEF S

\* The digits of the witness, weighted.
BitTerms(w, z, m) == [i \in 1 .. N * m |-> VectorDecompose(w)[i] * Weight(z, i)]

\* Position k of block b.
LEMMA BlockIs ==
  ASSUME NEW b \in Nat \ {0}, NEW k \in 1 .. N
  PROVE  Block(N * (b - 1) + k) = b /\ Place(N * (b - 1) + k) = k - 1
<1> DEFINE c == b - 1
           i == N * c + k
<1>1. N \in Nat \ {0} /\ c \in Nat /\ N * c \in Nat
  BY NIsNat
<1>2. i \in Nat \ {0} /\ i - 1 = N * c + (k - 1) /\ k - 1 \in 0 .. N - 1 /\ i - 1 \in Int
  BY <1>1
<1> HIDE DEF c, i
<1>3. (i - 1) \div N = c
  BY <1>1, <1>2, DivisionUnique
<1>4. Block(i) = c + 1
  BY <1>3 DEF Block
<1>5. i = N * (Block(i) - 1) + Place(i) + 1 /\ Place(i) \in Int
  BY <1>1, <1>2, PlaceIs
<1>6. Block(i) - 1 = c
  BY <1>1, <1>4
<1>7. Place(i) = k - 1
  BY <1>1, <1>2, <1>5, <1>6
<1>8. Block(i) = b
  BY <1>4 DEF c
<1> QED BY <1>7, <1>8 DEF i, c

\* Its terms.
LEMMA BitTermsAreInts ==
  ASSUME NEW m \in {1, 2}, NEW w \in Vectors(m, Int), NEW z \in Int
  PROVE  /\ N * m \in Nat /\ Ints(BitTerms(w, z, m), N * m)
         /\ \A i \in 1 .. N * m : /\ VectorDecompose(w)[i] \in {0, 1} /\ Weight(z, i) \in Int
                                  /\ BitTerms(w, z, m)[i] = VectorDecompose(w)[i] * Weight(z, i)
<1>1. N * m \in Nat
  BY NIsNat
<1>2. VectorDecompose(w) \in Vectors(N * m, {0, 1})
  BY VectorDecomposeIs
<1>3. \A i \in 1 .. N * m : VectorDecompose(w)[i] \in {0, 1} /\ Weight(z, i) \in Int
  <2> TAKE i \in 1 .. N * m
  <2>1. i \in Nat \ {0}
    BY PositionIs
  <2> QED BY <1>2, <2>1, WeightType DEF Vectors
<1>4. \A i \in 1 .. N * m : VectorDecompose(w)[i] * Weight(z, i) \in Int
  BY <1>3
<1> QED BY <1>1, <1>3, <1>4 DEF BitTerms, Ints

\* A block of the sum is the value of its digits, weighted.
LEMMA BlockSumIs ==
  ASSUME NEW m \in {1, 2}, NEW w \in Vectors(m, Int), NEW z \in Int, NEW b \in 1 .. m,
         NEW r, \A k \in 1 .. N : r[k] = BitTerms(w, z, m)[N * (b - 1) + k]
  PROVE  /\ Ints(r, N) /\ Pow(z, b + 1) \in Int
         /\ Cg(Sum(r, N), Pow(z, b + 1) * Digits(w[b]))
<1> DEFINE c == Pow(z, b + 1)
           f == DigitTerms(w[b])
           x == w[b]
<1>1. N \in Nat /\ x \in Int
  BY NIsNat DEF Vectors
<1>2. c \in Int
  <2>1. b + 1 \in Nat
    OBVIOUS
  <2> QED BY <2>1, PowNext
<1>3. Ints(f, N) /\ Digits(x) \in Int /\ Cg(Sum(f, N), Digits(x))
  BY <1>1, DigitsAreASum
<1>4. ASSUME NEW k \in 1 .. N PROVE r[k] = c * f[k] /\ r[k] \in Int
  <2> DEFINE i == N * (b - 1) + k
  <2>1. i \in 1 .. N * m
    <3>1. b = 1 \/ (b = 2 /\ m = 2)
      OBVIOUS
    <3>2. CASE b = 1
      <4>1. i = k /\ (m = 1 \/ m = 2)
        BY <1>1, <3>2
      <4> QED BY <1>1, <4>1
    <3>3. CASE b = 2 /\ m = 2
      <4>1. i = N + k /\ N * m = N + N
        BY <1>1, <3>3
      <4> QED BY <1>1, <4>1
    <3> QED BY <3>1, <3>2, <3>3
  <2>2. Block(i) = b /\ Place(i) = k - 1
    <3>1. b \in Nat \ {0}
      OBVIOUS
    <3> QED BY <3>1, BlockIs
  <2>3. r[k] = BitTerms(w, z, m)[i]
    OBVIOUS
  <2> HIDE DEF i
  <2>4. r[k] = VectorDecompose(w)[i] * Weight(z, i) /\ r[k] \in Int
    BY <2>1, <2>3, BitTermsAreInts DEF Ints
  <2>5. VectorDecompose(w)[i] = Decompose(w[b])[k]
    <3>1. VectorDecompose(w)[i] = Decompose(w[Block(i)])[Place(i) + 1]
      BY <2>1, VectorDecomposeIs
    <3>2. Place(i) + 1 = k
      BY <1>1, <2>2
    <3> QED BY <2>2, <3>1, <3>2
  <2>6. Weight(z, i) = c * 2^(k - 1)
    BY <2>2 DEF Weight
  <2>7. f[k] = Decompose(w[b])[k] * 2^(k - 1)
    BY DEF DigitTerms
  <2> DEFINE d == Decompose(w[b])[k]
             p == 2^(k - 1)
  <2>8. d \in Int /\ p \in Int
    <3>1. d \in {0, 1}
      BY <1>1, DigitType
    <3>2. k - 1 \in Nat
      BY <1>1
    <3>3. p \in Nat
      BY <3>2, TwoPositive
    <3> QED BY <3>1, <3>3
  <2>9. r[k] = d * (c * p) /\ f[k] = d * p
    BY <2>4, <2>5, <2>6, <2>7
  <2> HIDE DEF d, p, c
  <2>10. d * (c * p) = c * (d * p)
    BY <1>2, <2>8
  <2> QED BY <2>4, <2>9, <2>10
<1> HIDE DEF c, f, x
<1>5. Ints(r, N)
  BY <1>4 DEF Ints
<1>6. \A k \in 1 .. N : Cg(r[k], c * f[k])
  <2> TAKE k \in 1 .. N
  <2>1. r[k] = c * f[k] /\ r[k] \in Int
    BY <1>4
  <2> QED BY <2>1, CgRefl
<1>7. Cg(Sum(r, N), c * Sum(f, N))
  BY <1>1, <1>2, <1>3, <1>5, <1>6, SumTimes
<1> DEFINE S == Sum(f, N)
           D == Digits(x)
           Q == Sum(r, N)
<1>8. S \in Int /\ D \in Int /\ Q \in Int /\ Cg(S, D) /\ Cg(Q, c * S)
  BY <1>1, <1>3, <1>5, <1>7, SumType
<1> HIDE DEF S, D, Q
<1>9. Cg(c * S, c * D) /\ c * S \in Int /\ c * D \in Int
  <2>1. Cg(c, c)
    BY <1>2, CgRefl
  <2>2. Cg(c * S, c * D)
    BY <1>2, <1>8, <2>1, CgMul
  <2>3. c * S \in Int /\ c * D \in Int
    BY <1>2, <1>8
  <2> QED BY <2>2, <2>3
<1>10. Cg(Q, c * D)
  BY <1>8, <1>9, CgTrans
<1> QED BY <1>2, <1>5, <1>10 DEF Q, D, c, x

\* The values of the digits of w.
DigitVector(w, m) == [j \in 1 .. m |-> Digits(w[j])]

\* They are integers.
LEMMA DigitVectorIs ==
  ASSUME NEW m \in Nat, NEW w \in Vectors(m, Int)
  PROVE  DigitVector(w, m) \in Vectors(m, Int) /\ \A j \in 1 .. m : DigitVector(w, m)[j] = Digits(w[j])
<1>1. \A j \in 1 .. m : Digits(w[j]) \in Int
  <2> TAKE j \in 1 .. m
  <2>1. w[j] \in Int
    BY DEF Vectors
  <2> QED BY <2>1, DigitsAreASum
<1> QED BY <1>1 DEF DigitVector, Vectors

\* A sum of one term and one of two.
LEMMA SumOfOne ==
  ASSUME NEW f, f[1] \in Int
  PROVE  Cg(Sum(f, 1), f[1]) /\ Sum(f, 1) \in Int
<1>1. Ints(f, 1)
  BY DEF Ints
<1>2. Sum(f, 0 + 1) = (Sum(f, 0) + f[0 + 1]) % Order
  BY <1>1, SumNext
<1>3. Sum(f, 1) = f[1] % Order
  BY <1>2, SumZero
<1> QED BY <1>3, CgMod

\* The sum of two elements.
LEMMA SumOfTwo ==
  ASSUME NEW f, f[1] \in Int, f[2] \in Int
  PROVE  Cg(Sum(f, 2), f[1] + f[2]) /\ Sum(f, 2) \in Int
<1>1. Ints(f, 2)
  BY DEF Ints
<1>2. Sum(f, 1 + 1) = (Sum(f, 1) + f[1 + 1]) % Order
  BY <1>1, SumNext
<1>3. Sum(f, 2) = (Sum(f, 1) + f[2]) % Order
  BY <1>2
<1> DEFINE S == Sum(f, 1)
           a == f[1]
           b == f[2]
           sb == S + b
           ab == a + b
<1>4. S \in Int /\ a \in Int /\ b \in Int /\ Cg(S, a)
  BY SumOfOne
<1> HIDE DEF S, a, b
<1>5. sb \in Int /\ ab \in Int /\ Cg(sb, ab)
  <2>1. sb \in Int /\ ab \in Int
    BY <1>4
  <2>2. Cg(S + b, a + b)
    BY <1>4, CgRefl, CgAdd
  <2> QED BY <2>1, <2>2
<1>6. Sum(f, 2) = sb % Order
  BY <1>3 DEF S, b
<1> HIDE DEF sb, ab
<1>7. Cg(Sum(f, 2), ab) /\ Sum(f, 2) \in Int
  BY <1>5, <1>6, CgMod, CgTrans
<1> QED BY <1>7 DEF ab, a, b

\* The weighted digits are the weighted values of the digits.
LEMMA WeightedDigits ==
  ASSUME NEW m \in {1, 2}, NEW w \in Vectors(m, Int), NEW z \in Int
  PROVE  Cg(Sum(BitTerms(w, z, m), N * m), Weighted(z, DigitVector(w, m), m))
<1> DEFINE F == BitTerms(w, z, m)
           D == DigitVector(w, m)
           G == [j \in 1 .. m |-> Pow(z, j + 1) * D[j]]
           r1 == [k \in 1 .. N |-> F[N * (1 - 1) + k]]
           r2 == [k \in 1 .. N |-> F[N * (2 - 1) + k]]
<1>1. /\ N \in Nat /\ m \in Nat /\ N * m \in Nat /\ Ints(F, N * m)
  <2>1. N \in Nat /\ m \in Nat
    BY NIsNat
  <2>2. N * m \in Nat /\ Ints(BitTerms(w, z, m), N * m)
    BY BitTermsAreInts
  <2> QED BY <2>1, <2>2
<1>2. D \in Vectors(m, Int) /\ \A j \in 1 .. m : D[j] = Digits(w[j])
  BY <1>1, DigitVectorIs
<1>3. Weighted(z, D, m) = Sum(G, m) /\ Ints(G, m) /\ \A j \in 1 .. m : G[j] = Pow(z, j + 1) * D[j]
  <2>1. Ints(G, m)
    BY <1>1, <1>2, WeightedIs
  <2>2. Weighted(z, D, m) = Sum(G, m)
    BY DEF Weighted
  <2> QED BY <2>1, <2>2
<1> HIDE DEF F, D, G
<1>4. Ints(r1, N) /\ Cg(Sum(r1, N), G[1]) /\ G[1] \in Int
  <2>1. \A k \in 1 .. N : r1[k] = F[N * (1 - 1) + k]
    OBVIOUS
  <2> HIDE DEF r1
  <2>2. 1 \in 1 .. m
    OBVIOUS
  <2>3. Ints(r1, N) /\ Cg(Sum(r1, N), Pow(z, 1 + 1) * Digits(w[1]))
    BY <2>1, <2>2, BlockSumIs DEF F
  <2>4. G[1] = Pow(z, 1 + 1) * Digits(w[1]) /\ G[1] \in Int
    BY <1>2, <1>3, <2>2 DEF Ints
  <2> QED BY <2>3, <2>4
<1>5. ASSUME m = 2 PROVE Ints(r2, N) /\ Cg(Sum(r2, N), G[2]) /\ G[2] \in Int
  <2>1. \A k \in 1 .. N : r2[k] = F[N * (2 - 1) + k]
    OBVIOUS
  <2> HIDE DEF r2
  <2>2. 2 \in 1 .. m
    BY <1>5
  <2>3. Ints(r2, N) /\ Cg(Sum(r2, N), Pow(z, 2 + 1) * Digits(w[2]))
    BY <2>1, <2>2, BlockSumIs DEF F
  <2>4. G[2] = Pow(z, 2 + 1) * Digits(w[2]) /\ G[2] \in Int
    BY <1>2, <1>3, <2>2 DEF Ints
  <2> QED BY <2>3, <2>4
<1>6. \A k \in 1 .. N : r1[k] = F[k]
  <2> TAKE k \in 1 .. N
  <2>1. N * (1 - 1) + k = k
    BY <1>1
  <2> QED BY <2>1
<1>7. \A k \in 1 .. N : r2[k] = F[N + k]
  <2> TAKE k \in 1 .. N
  <2>1. N * (2 - 1) + k = N + k
    BY <1>1
  <2> QED BY <2>1
<1> HIDE DEF r1, r2
<1>8. Ints(F, N) /\ Sum(F, N) = Sum(r1, N)
  <2>1. Ints(F, N)
    <3>1. \A k \in 1 .. N : F[k] \in Int
      BY <1>4, <1>6 DEF Ints
    <3> QED BY <3>1 DEF Ints
  <2>2. \A k \in 1 .. N : Cg(F[k], r1[k])
    <3> TAKE k \in 1 .. N
    <3>1. r1[k] \in Int /\ F[k] = r1[k]
      BY <1>4, <1>6 DEF Ints
    <3> QED BY <3>1, CgRefl
  <2> QED BY <1>1, <1>4, <2>1, <2>2, SumCongruent
<1>9. CASE m = 1
  <2>1. N * m = N
    BY <1>1, <1>9
  <2>2. Cg(Sum(G, 1), G[1]) /\ Sum(G, 1) \in Int
    BY <1>4, SumOfOne
  <2>3. Sum(F, N) \in Int /\ Cg(Sum(F, N), G[1])
    BY <1>1, <1>4, <1>8, SumType
  <2>4. Cg(Sum(F, N), Sum(G, 1))
    BY <1>4, <2>2, <2>3, CgSym, CgTrans
  <2> QED BY <1>3, <1>9, <2>1, <2>4 DEF F, D
<1>10. CASE m = 2
  <2>1. N * m = N + N
    BY <1>1, <1>10
  <2>2. Cg(Sum(G, 2), G[1] + G[2]) /\ Sum(G, 2) \in Int
    BY <1>4, <1>5, <1>10, SumOfTwo
  <2>3. Ints(F, N + N) /\ Cg(Sum(F, N + N), Sum(F, N) + Sum(r2, N))
    BY <1>1, <1>7, <2>1, SumSplit
  <2> DEFINE S1 == Sum(F, N)
             S2 == Sum(r2, N)
             S == Sum(F, N + N)
             a == G[1]
             b == G[2]
             ss == S1 + S2
             ab == a + b
  <2>4. /\ S1 \in Int /\ S2 \in Int /\ a \in Int /\ b \in Int /\ Cg(S1, a) /\ Cg(S2, b)
    BY <1>1, <1>4, <1>5, <1>8, <1>10, SumType
  <2>5. S \in Int
    <3>1. N + N \in Nat
      BY <1>1
    <3> QED BY <2>3, <3>1, SumType
  <2>6. Cg(S, ss) /\ Cg(Sum(G, 2), ab)
    BY <2>2, <2>3
  <2> HIDE DEF S1, S2, S, a, b
  <2>7. ss \in Int /\ ab \in Int /\ Cg(ss, ab)
    BY <2>4, CgAdd
  <2> HIDE DEF ss, ab
  <2>8. Cg(S, ab) /\ Cg(ab, Sum(G, 2))
    BY <2>2, <2>5, <2>6, <2>7, CgTrans, CgSym
  <2>9. Cg(S, Sum(G, 2))
    BY <2>2, <2>5, <2>7, <2>8, CgTrans
  <2> QED BY <1>3, <1>10, <2>1, <2>9 DEF S, F, D
<1> QED BY <1>9, <1>10

-----------------------------------------------------------------------------
(* The polynomial whose value at x is the inner product                    *)

\* The product of two linear polynomials.
LEMMA ProductExpands ==
  ASSUME NEW l \in Int, NEW r \in Int, NEW L \in Int, NEW S \in Int, NEW A \in Int, NEW B \in Int,
         NEW x \in Int, NEW e \in Int, e = 1, Cg(l, L + S * x), Cg(r, A + B * x)
  PROVE  Cg(l * r, e * (L * A) + x * (L * B) + x * (S * A) + (x * x) * (S * B))
<1> DEFINE p == L + S * x
           q == A + B * x
<1>1. p \in Int /\ q \in Int /\ Cg(l, p) /\ Cg(r, q)
  OBVIOUS
<1> HIDE DEF p, q
<1>2. Cg(l * r, p * q)
  BY <1>1, CgMul
<1>3. p * q = e * (L * A) + x * (L * B) + x * (S * A) + (x * x) * (S * B)
  BY DEF p, q
<1> QED BY <1>2, <1>3

\* The inner product of the vectors at x is the constant term and the committed
\* coefficients at x.
LEMMA InnerProductExpands ==
  ASSUME NEW m, NEW n \in Nat, NEW s \in Secrets(m, n), NEW y \in Int, NEW z \in Int, NEW x \in Int
  PROVE  LET S == Sum(Terms(LZero(s.aL, z), RZero(s.aR, y, z), n), n)
         IN  /\ S \in Int /\ Sum(Terms(Lx(s, z, x), Rx(s, y, z, x), n), n) \in Int
             /\ Cg(Sum(Terms(Lx(s, z, x), Rx(s, y, z, x), n), n),
                   S + t1(s, y, z) * x + t2(s, y) * (x * x))
<1> DEFINE l == Lx(s, z, x)
           r == Rx(s, y, z, x)
           L == LZero(s.aL, z)
           S == s.sL
           A == RZero(s.aR, y, z)
           B == ROne(s.sR, y)
           a1 == t1(s, y, z)
           a2 == t2(s, y)
           f == Terms(l, r, n)
           fLA == Terms(L, A, n)
           fLB == Terms(L, B, n)
           fSA == Terms(S, A, n)
           fSB == Terms(S, B, n)
           xx == x * x
           e == 1
<1>1. /\ s.aL \in Vectors(n, Int) /\ s.aR \in Vectors(n, Int)
      /\ s.sL \in Vectors(n, Int) /\ s.sR \in Vectors(n, Int)
  BY DEF Secrets
<1>2. /\ L \in Vectors(n, Int) /\ B \in Vectors(n, Int) /\ A \in Vectors(n, Int) /\ S \in Vectors(n, Int)
      /\ a1 \in Int /\ a2 \in Int /\ Cg(a1, Sum(fLB, n) + Sum(fSA, n)) /\ a2 = Sum(fSB, n)
  BY CoefficientsAre
<1>3. l \in Vectors(n, Int) /\ r \in Vectors(n, Int)
  BY LxIs, RxIs
<1>4. ASSUME NEW i \in 1 .. n PROVE Cg(l[i], L[i] + S[i] * x)
  <2> DEFINE c == s.aL[i] - z
             d == S[i] * x
             cd == c + d
             Ld == L[i] + d
  <2>1. /\ c \in Int /\ d \in Int /\ L[i] \in Int /\ l[i] \in Int
    <3>1. s.aL[i] \in Int /\ S[i] \in Int /\ L[i] \in Int /\ l[i] \in Int
      BY <1>1, <1>2, <1>3 DEF Vectors
    <3> QED BY <3>1
  <2>2. Cg(l[i], cd)
    BY LxIs
  <2>3. Cg(L[i], c)
    BY <1>1, LZeroIs
  <2> HIDE DEF c, d, L, l
  <2>4. Cg(c, L[i]) /\ Cg(d, d)
    BY <2>1, <2>3, CgSym, CgRefl
  <2>5. Cg(cd, Ld) /\ cd \in Int /\ Ld \in Int
    <3> DEFINE Li == L[i]
    <3>1. Li \in Int /\ Cg(c, Li)
      BY <2>1, <2>4
    <3> HIDE DEF Li
    <3>2. Cg(c + d, Li + d)
      BY <2>1, <2>4, <3>1, CgAdd
    <3>3. c + d \in Int /\ Li + d \in Int
      BY <2>1, <3>1
    <3> QED BY <3>2, <3>3 DEF Li
  <2> HIDE DEF cd, Ld
  <2>6. Cg(l[i], Ld)
    BY <2>1, <2>2, <2>5, CgTrans
  <2> QED BY <2>6 DEF Ld, d
<1>5. ASSUME NEW i \in 1 .. n PROVE Cg(r[i], A[i] + B[i] * x)
  <2> DEFINE c == Pow(y, i - 1) * (s.aR[i] + z) + Weight(z, i)
             k == Pow(y, i - 1) * s.sR[i]
             b == B[i]
             kx == k * x
             bx == b * x
             ckx == c + kx
             Abx == A[i] + bx
  <2>1. c \in Int /\ k \in Int /\ A[i] \in Int /\ b \in Int /\ r[i] \in Int
    <3>1. A[i] \in Int /\ b \in Int /\ r[i] \in Int /\ s.aR[i] \in Int /\ s.sR[i] \in Int
      BY <1>1, <1>2, <1>3 DEF Vectors
    <3>2. i - 1 \in Nat /\ i \in Nat \ {0}
      OBVIOUS
    <3>3. Pow(y, i - 1) \in Int /\ Weight(z, i) \in Int
      BY <3>2, PowNext, WeightType
    <3> HIDE DEF A, B, r
    <3> QED BY <3>1, <3>3
  <2>2. Cg(r[i], ckx)
    BY RxIs
  <2>3. Cg(A[i], c) /\ Cg(b, k)
    BY <1>1, RZeroIs, ROneIs
  <2> HIDE DEF c, k, A, b, r
  <2>4. Cg(c, A[i]) /\ Cg(k, b)
    BY <2>1, <2>3, CgSym
  <2>5. Cg(kx, bx) /\ kx \in Int /\ bx \in Int
    <3>1. kx \in Int /\ bx \in Int /\ Cg(x, x)
      BY <2>1, CgRefl
    <3>2. Cg(k * x, b * x)
      BY <2>1, <2>4, <3>1, CgMul
    <3> QED BY <3>1, <3>2
  <2> HIDE DEF kx, bx
  <2>6. Cg(ckx, Abx) /\ ckx \in Int /\ Abx \in Int
    <3> DEFINE Ai == A[i]
    <3>1. Ai \in Int /\ Cg(c, Ai)
      BY <2>1, <2>4
    <3> HIDE DEF Ai
    <3>2. Cg(c + kx, Ai + bx)
      BY <2>1, <2>5, <3>1, CgAdd
    <3>3. c + kx \in Int /\ Ai + bx \in Int
      BY <2>1, <2>5, <3>1
    <3> QED BY <3>2, <3>3 DEF Ai
  <2> HIDE DEF ckx, Abx
  <2>7. Cg(r[i], Abx)
    BY <2>1, <2>2, <2>6, CgTrans
  <2> QED BY <2>7 DEF Abx, bx, b
<1> HIDE DEF l, r, L, S, A, B, a1, a2
<1>6. /\ Ints(f, n) /\ \A i \in 1 .. n : f[i] = l[i] * r[i]
      /\ Ints(fLA, n) /\ \A i \in 1 .. n : fLA[i] = L[i] * A[i]
      /\ Ints(fLB, n) /\ \A i \in 1 .. n : fLB[i] = L[i] * B[i]
      /\ Ints(fSA, n) /\ \A i \in 1 .. n : fSA[i] = S[i] * A[i]
      /\ Ints(fSB, n) /\ \A i \in 1 .. n : fSB[i] = S[i] * B[i]
  BY <1>2, <1>3, TermsAreInts
<1> HIDE DEF f, fLA, fLB, fSA, fSB
<1>7. xx \in Int /\ e \in Int /\ e = 1
  OBVIOUS
<1> HIDE DEF e
<1>8. \A i \in 1 .. n : Cg(f[i], e * fLA[i] + x * fLB[i] + x * fSA[i] + xx * fSB[i])
  <2> TAKE i \in 1 .. n
  <2> DEFINE li == l[i]
             ri == r[i]
             Li == L[i]
             Si == S[i]
             Ai == A[i]
             Bi == B[i]
  <2>1. li \in Int /\ ri \in Int /\ Li \in Int /\ Si \in Int /\ Ai \in Int /\ Bi \in Int
    BY <1>2, <1>3 DEF Vectors
  <2>2. Cg(li, Li + Si * x) /\ Cg(ri, Ai + Bi * x)
    BY <1>4, <1>5
  <2>3. /\ f[i] = li * ri /\ fLA[i] = Li * Ai /\ fLB[i] = Li * Bi /\ fSA[i] = Si * Ai /\ fSB[i] = Si * Bi
    BY <1>6
  <2> HIDE DEF li, ri, Li, Si, Ai, Bi
  <2>4. Cg(li * ri, e * (Li * Ai) + x * (Li * Bi) + x * (Si * Ai) + (x * x) * (Si * Bi))
    BY <1>7, <2>1, <2>2, ProductExpands
  <2> QED BY <2>3, <2>4
<1> HIDE DEF xx
<1>9. Cg(Sum(f, n), e * Sum(fLA, n) + x * Sum(fLB, n) + x * Sum(fSA, n) + xx * Sum(fSB, n))
  BY <1>6, <1>7, <1>8, SumLinear
<1> DEFINE s0 == Sum(fLA, n)
           s1 == Sum(fLB, n)
           s2 == Sum(fSA, n)
           s3 == Sum(fSB, n)
           Q == Sum(f, n)
<1>10. s0 \in Int /\ s1 \in Int /\ s2 \in Int /\ s3 \in Int /\ Q \in Int
  BY <1>6, SumType
<1>11. Cg(a1, s1 + s2) /\ a2 = s3 /\ a1 \in Int /\ a2 \in Int
  BY <1>2
<1>12. Cg(Q, e * s0 + x * s1 + x * s2 + xx * s3)
  BY <1>9
<1> HIDE DEF s0, s1, s2, s3, Q
<1>13. PICK k1 \in Int : a1 = s1 + s2 + k1 * Order
  BY <1>11 DEF Cg
<1>14. PICK k2 \in Int : Q = e * s0 + x * s1 + x * s2 + xx * s3 + k2 * Order
  BY <1>12 DEF Cg
<1> DEFINE j == k2 - x * k1
<1>15. Q = s0 + a1 * x + a2 * xx + j * Order
  <2>1. Order \in Int
    BY OrderIsPrime
  <2>2. a1 * x = x * s1 + x * s2 + (x * k1) * Order
    BY <1>10, <1>13, <2>1
  <2>3. j * Order = k2 * Order - (x * k1) * Order
    BY <2>1
  <2>4. e * s0 = s0 /\ a2 * xx = xx * s3
    BY <1>7, <1>10, <1>11
  <2> HIDE DEF j
  <2> DEFINE o1 == (x * k1) * Order
             o2 == k2 * Order
             w1 == x * s1
             w2 == x * s2
             w3 == xx * s3
  <2>5. o1 \in Int /\ o2 \in Int /\ w1 \in Int /\ w2 \in Int /\ w3 \in Int
    BY <1>7, <1>10, <2>1
  <2>6. Q = s0 + w1 + w2 + w3 + o2 /\ a1 * x = w1 + w2 + o1 /\ j * Order = o2 - o1 /\ a2 * xx = w3
    BY <1>14, <2>2, <2>3, <2>4
  <2> HIDE DEF o1, o2, w1, w2, w3
  <2> QED BY <1>10, <2>5, <2>6
<1>16. j \in Int
  OBVIOUS
<1> HIDE DEF j
<1>17. Cg(Q, s0 + a1 * x + a2 * xx)
  BY <1>15, <1>16 DEF Cg
<1> QED BY <1>10, <1>17 DEF Q, s0, a1, a2, xx, f, fLA, l, r, L, A

\* One term of the constant coefficient, where a is a bit.
ConstantTerm(l, r, a, b, y, z, w) ==
    Cg(l, a - z) /\ Cg(b, a - 1) /\ Cg(r, y * (b + z) + w)

ConstantProduct(l, r, a, y, z, w) ==
    Cg(l * r, (z - z * z) * y - z * w + a * w)

\* A bit a times a - 1 is nothing: what is left of one term.
LEMMA ConstantTermIs ==
  ASSUME NEW l \in Int, NEW r \in Int, NEW a \in {0, 1}, NEW b \in Int, NEW y \in Int, NEW z \in Int,
         NEW w \in Int, ConstantTerm(l, r, a, b, y, z, w)
  PROVE  ConstantProduct(l, r, a, y, z, w)
<1> DEFINE p == a - z
           q == y * ((a - 1) + z) + w
           t == y * (b + z) + w
<1> USE DEF ConstantTerm
<1>1. p \in Int /\ q \in Int /\ t \in Int /\ Cg(l, p) /\ Cg(r, t) /\ Order \in Int
  BY OrderIsPrime
<1>2. PICK j \in Int : b = (a - 1) + j * Order
  BY DEF Cg
<1>3. Cg(t, q)
  <2> DEFINE u1 == (a - 1) + z
             jO == j * Order
  <2>1. b + z = u1 + jO /\ u1 \in Int /\ jO \in Int
    BY <1>1, <1>2
  <2>2. y * jO = (y * j) * Order /\ y * j \in Int
    BY <1>1
  <2> HIDE DEF u1, jO
  <2>3. y * (b + z) = y * u1 + y * jO
    BY <2>1
  <2>4. y * u1 \in Int /\ y * jO \in Int
    BY <2>1
  <2>5. t = (y * u1 + w) + (y * j) * Order
    BY <2>2, <2>3, <2>4
  <2>6. Cg(t, y * u1 + w)
    BY <2>2, <2>5 DEF Cg
  <2> QED BY <2>6 DEF u1
<1> HIDE DEF t
<1>4. Cg(r, q)
  BY <1>1, <1>3, CgTrans
<1> HIDE DEF p, q
<1>5. Cg(l * r, p * q)
  BY <1>1, <1>4, CgMul
<1>6. p * q = (z - z * z) * y - z * w + a * w
  <2>1. CASE a = 0
    BY <2>1 DEF p, q
  <2>2. CASE a = 1
    BY <2>2 DEF p, q
  <2> QED BY <2>1, <2>2
<1> QED BY <1>5, <1>6 DEF ConstantProduct

\* The constant coefficient is Delta and the weighted values of the digits.
LEMMA ConstantIs ==
  ASSUME NEW m \in {1, 2}, NEW w \in Vectors(m, Int), NEW s \in Secrets(m, N * m),
         s.aL = VectorDecompose(w), s.aR = ComputeAR(s.aL), NEW y \in Int, NEW z \in Int
  PROVE  LET n == N * m
             S == Sum(Terms(LZero(s.aL, z), RZero(s.aR, y, z), n), n)
         IN  S \in Int /\ Cg(S, Delta(n, y, z) + Weighted(z, DigitVector(w, m), m))
<1> DEFINE n == N * m
           L == LZero(s.aL, z)
           A == RZero(s.aR, y, z)
           f == Terms(L, A, n)
           fY == [i \in 1 .. n |-> Pow(y, i - 1)]
           fW == [i \in 1 .. n |-> z * Weight(z, i)]
           fB == BitTerms(w, z, m)
           e == 1
           o == 0
           k == -1
           zz == z - z * z
<1>1. /\ n \in Nat /\ Ints(fB, n)
      /\ \A i \in 1 .. n : /\ s.aL[i] \in {0, 1} /\ Weight(z, i) \in Int
                           /\ fB[i] = s.aL[i] * Weight(z, i)
  BY BitTermsAreInts
<1>2. s.aL \in Vectors(n, Int) /\ s.aR \in Vectors(n, Int)
  BY DEF Secrets
<1>3. \A i \in 1 .. n : i - 1 \in Nat
  OBVIOUS
<1>4. \A i \in 1 .. n : s.aR[i] \in Int /\ Cg(s.aR[i], s.aL[i] - 1)
  <2>1. s.aR = [i \in 1 .. n |-> (s.aL[i] - 1) % Order]
    BY <1>1, <1>2, VectorLen DEF ComputeAR
  <2> TAKE i \in 1 .. n
  <2>2. s.aL[i] - 1 \in Int
    BY <1>1
  <2>3. s.aR[i] = (s.aL[i] - 1) % Order
    BY <2>1
  <2> QED BY <2>2, <2>3, CgMod
<1>5. \A i \in 1 .. n : Pow(y, i - 1) \in Int
  BY <1>3, PowNext
<1> HIDE DEF n, fB
<1>6. L \in Vectors(n, Int) /\ \A i \in 1 .. n : Cg(L[i], s.aL[i] - z)
  BY <1>1, <1>2, LZeroIs
<1>7. A \in Vectors(n, Int) /\ \A i \in 1 .. n : Cg(A[i], Pow(y, i - 1) * (s.aR[i] + z) + Weight(z, i))
  BY <1>1, <1>2, RZeroIs
<1> HIDE DEF L, A
<1>8. Ints(f, n) /\ \A i \in 1 .. n : f[i] = L[i] * A[i]
  BY <1>1, <1>6, <1>7, TermsAreInts
<1>9. Ints(fY, n) /\ Ints(fW, n) /\ \A i \in 1 .. n : fY[i] = Pow(y, i - 1) /\ fW[i] = z * Weight(z, i)
  <2>1. \A i \in 1 .. n : z * Weight(z, i) \in Int
    BY <1>1
  <2> QED BY <1>5, <2>1 DEF Ints
<1>10. LET Py == Sum(fY, n)
           Wz == Sum(fW, n)
       IN  Py \in Int /\ Wz \in Int /\ Delta(n, y, z) \in Int /\ Cg(Delta(n, y, z), (z - z * z) * Py - Wz)
  BY <1>1, DeltaIs
<1> HIDE DEF f, fY, fW
<1>11. e \in Int /\ e = 1 /\ o \in Int /\ o = 0 /\ k \in Int /\ k = -1 /\ zz \in Int
  OBVIOUS
<1> HIDE DEF e, o, k
<1>12. \A i \in 1 .. n : Cg(f[i], zz * fY[i] + k * fW[i] + e * fB[i] + o * fB[i])
  <2> TAKE i \in 1 .. n
  <2> DEFINE li == L[i]
             ri == A[i]
             a == s.aL[i]
             b == s.aR[i]
             p == Pow(y, i - 1)
             c == Weight(z, i)
  <2>1. li \in Int /\ ri \in Int /\ a \in {0, 1} /\ b \in Int /\ p \in Int /\ c \in Int
    BY <1>1, <1>4, <1>5, <1>6, <1>7 DEF Vectors
  <2>2. ConstantTerm(li, ri, a, b, p, z, c)
    BY <1>4, <1>6, <1>7 DEF ConstantTerm
  <2>3. f[i] = li * ri /\ fY[i] = p /\ fW[i] = z * c /\ fB[i] = a * c
    BY <1>1, <1>8, <1>9
  <2> HIDE DEF li, ri, a, b, p, c
  <2>4. ConstantProduct(li, ri, a, p, z, c)
    BY <2>1, <2>2, ConstantTermIs
  <2> DEFINE zp == (z - z * z) * p
             zc == z * c
             ac == a * c
  <2>5. zp \in Int /\ zc \in Int /\ ac \in Int
    BY <2>1
  <2>6. Cg(li * ri, zp - zc + ac) /\ zz * p = zp
    BY <2>4 DEF ConstantProduct
  <2> HIDE DEF zp, zc, ac, zz
  <2>7. zp - zc + ac = zp + k * zc + e * ac + o * ac
    BY <1>11, <2>5
  <2> QED BY <2>3, <2>6, <2>7 DEF zc, ac
<1> HIDE DEF zz
<1>13. Cg(Sum(f, n), zz * Sum(fY, n) + k * Sum(fW, n) + e * Sum(fB, n) + o * Sum(fB, n))
  BY <1>1, <1>8, <1>9, <1>11, <1>12, SumLinear
<1> DEFINE S == Sum(f, n)
           sY == Sum(fY, n)
           sW == Sum(fW, n)
           sB == Sum(fB, n)
           D == Delta(n, y, z)
           H == Weighted(z, DigitVector(w, m), m)
<1>14. S \in Int /\ sY \in Int /\ sW \in Int /\ sB \in Int /\ D \in Int
  BY <1>1, <1>8, <1>9, <1>10, SumType
<1>15. H \in Int /\ Cg(sB, H)
  <2>1. m \in Nat
    OBVIOUS
  <2>2. DigitVector(w, m) \in Vectors(m, Int)
    BY <2>1, DigitVectorIs
  <2>3. H \in Int
    BY <2>1, <2>2, WeightedIs
  <2> QED BY <2>3, WeightedDigits DEF fB, n
<1>16. Cg(D, zz * sY - sW)
  BY <1>10 DEF zz
<1>17. Cg(S, zz * sY + k * sW + e * sB + o * sB)
  BY <1>13
<1> HIDE DEF S, sY, sW, sB, D, H
<1>18. PICK k1 \in Int : D = zz * sY - sW + k1 * Order
  BY <1>16 DEF Cg
<1>19. PICK k2 \in Int : S = zz * sY + k * sW + e * sB + o * sB + k2 * Order
  BY <1>17 DEF Cg
<1>20. PICK k3 \in Int : sB = H + k3 * Order
  BY <1>15 DEF Cg
<1> DEFINE j == k2 + k3 - k1
<1>21. S = D + H + j * Order
  <2> DEFINE o1 == k1 * Order
             o2 == k2 * Order
             o3 == k3 * Order
             zy == zz * sY
  <2>1. o1 \in Int /\ o2 \in Int /\ o3 \in Int /\ zy \in Int /\ Order \in Int
    BY <1>11, <1>14, OrderIsPrime
  <2>2. j * Order = o2 + o3 - o1
    BY <2>1
  <2>3. k * sW = -sW /\ e * sB = sB /\ o * sB = 0
    BY <1>11, <1>14
  <2> HIDE DEF o1, o2, o3, zy, j
  <2>4. D = zy - sW + o1 /\ S = zy - sW + sB + o2 /\ sB = H + o3
    <3>1. S = zy + k * sW + e * sB + o * sB + o2
      BY <1>19 DEF zy, o2
    <3>2. S = zy - sW + sB + o2
      BY <1>14, <2>1, <2>3, <3>1
    <3> QED BY <1>18, <1>20, <3>2 DEF zy, o1, o3
  <2> QED BY <1>14, <1>15, <2>1, <2>2, <2>4
<1>22. j \in Int
  OBVIOUS
<1> HIDE DEF j
<1>23. Cg(S, D + H)
  BY <1>21, <1>22 DEF Cg
<1> QED BY <1>14, <1>23 DEF S, D, H, f, L, A, n

-----------------------------------------------------------------------------
(* The verdict                                                             *)

\* Congruence is kept by differences.
LEMMA CgSubtract ==
  ASSUME NEW a \in Int, NEW b \in Int, NEW c \in Int, NEW d \in Int, Cg(a, b), Cg(c, d)
  PROVE  Cg(a - c, b - d)
<1>1. PICK p \in Int : a = b + p * Order
  BY DEF Cg
<1>2. PICK q \in Int : c = d + q * Order
  BY DEF Cg
<1>3. a - c = (b - d) + (p - q) * Order
  <2>1. (p - q) * Order = p * Order - q * Order
    BY OrderIsPrime
  <2>2. p * Order \in Int /\ q * Order \in Int
    BY OrderIsPrime
  <2> QED BY <1>1, <1>2, <2>1, <2>2
<1>4. p - q \in Int
  OBVIOUS
<1> QED BY <1>3, <1>4 DEF Cg

\* Congruent numbers are zero together.
LEMMA CgSame ==
  ASSUME NEW a \in Int, NEW b \in Int, Cg(a, b)
  PROVE  Cg(a, 0) <=> Cg(b, 0)
<1>1. 0 \in Int /\ Cg(b, a)
  BY CgSym
<1> QED BY <1>1, CgTrans

\* A summand is cancelled.
LEMMA CgCancel ==
  ASSUME NEW i \in Int, NEW t \in Int, NEW a \in Int, NEW b \in Int, Cg(i, t + b)
  PROVE  Cg(i, t + a) <=> Cg(a - b, 0)
<1>0. Order \in Int
  BY OrderIsPrime
<1>1. PICK p \in Int : i = t + b + p * Order
  BY DEF Cg
<1>2. ASSUME Cg(i, t + a) PROVE Cg(a - b, 0)
  <2>1. PICK q \in Int : i = t + a + q * Order
    BY <1>2 DEF Cg
  <2>2. p * Order \in Int /\ q * Order \in Int /\ (p - q) * Order = p * Order - q * Order
    BY <1>0
  <2>3. a - b = 0 + (p - q) * Order
    BY <1>1, <2>1, <2>2
  <2>4. p - q \in Int
    OBVIOUS
  <2> QED BY <2>3, <2>4 DEF Cg
<1>3. ASSUME Cg(a - b, 0) PROVE Cg(i, t + a)
  <2>1. PICK q \in Int : a - b = 0 + q * Order
    BY <1>3 DEF Cg
  <2>2. p * Order \in Int /\ q * Order \in Int /\ (p - q) * Order = p * Order - q * Order
    BY <1>0
  <2>3. i = t + a + (p - q) * Order
    BY <1>1, <2>1, <2>2
  <2>4. p - q \in Int
    OBVIOUS
  <2> QED BY <2>3, <2>4 DEF Cg
<1> QED BY <1>2, <1>3

\* What the digits miss of the witness, weighted.
Missed(z, w, m) == Weighted(z, w, m) - Weighted(z, DigitVector(w, m), m)

\* The single value, weighted.
LEMMA WeightedOne ==
  ASSUME NEW z \in Int, NEW w \in Vectors(1, Int)
  PROVE  Weighted(z, w, 1) \in Int /\ w[1] \in Int /\ Cg(Weighted(z, w, 1), w[1] * z * z)
<1> DEFINE f == [j \in 1 .. 1 |-> Pow(z, j + 1) * w[j]]
           p == Pow(z, 2)
           a == w[1]
<1>1. Pow(z, 0) = 1 /\ Pow(z, 0 + 1) = (z * Pow(z, 0)) % Order /\ Pow(z, 1 + 1) = (z * Pow(z, 1)) % Order
  BY PowZero, PowNext
<1>2. Pow(z, 1) = z % Order /\ p = (z * Pow(z, 1)) % Order
  BY <1>1
<1> DEFINE q == Pow(z, 1)
           zq == z * q
           zz == z * z
<1>3. q \in Int /\ Cg(q, z)
  BY <1>2, CgMod
<1>4. p = zq % Order
  BY <1>2
<1> HIDE DEF q, p
<1>5. zq \in Int /\ zz \in Int /\ Cg(zq, zz)
  <2>1. Cg(z * q, z * z)
    BY <1>3, CgRefl, CgMul
  <2>2. z * q \in Int /\ z * z \in Int
    BY <1>3
  <2> QED BY <2>1, <2>2
<1> HIDE DEF zq, zz
<1>6. p \in Int /\ Cg(p, zz)
  BY <1>4, <1>5, CgMod, CgTrans
<1>7. a \in Int
  BY DEF Vectors
<1>8. f[1] = p * a
  BY DEF p
<1>9. Weighted(z, w, 1) = Sum(f, 1)
  BY DEF Weighted
<1> HIDE DEF f, a
<1>10. p * a \in Int /\ zz * a \in Int /\ Cg(p * a, zz * a)
  <2>1. Cg(a, a)
    BY <1>7, CgRefl
  <2>2. Cg(p * a, zz * a)
    BY <1>5, <1>6, <1>7, <2>1, CgMul
  <2>3. p * a \in Int /\ zz * a \in Int
    BY <1>5, <1>6, <1>7
  <2> QED BY <2>2, <2>3
<1> DEFINE pa == p * a
           za == zz * a
<1>11. pa \in Int /\ za \in Int /\ Cg(pa, za) /\ f[1] = pa
  BY <1>8, <1>10
<1> HIDE DEF pa, za
<1>12. Cg(Sum(f, 1), pa) /\ Sum(f, 1) \in Int
  BY <1>11, SumOfOne
<1>13. Cg(Sum(f, 1), za)
  BY <1>11, <1>12, CgTrans
<1>14. za = a * z * z
  BY <1>7 DEF za, zz
<1> QED BY <1>7, <1>9, <1>12, <1>13, <1>14 DEF a

\* The verifier accepts exactly if what the digits miss of the witness,
\* weighted by powers of z, is nothing in the field.
LEMMA VerdictIs ==
  ASSUME Inv, phase \in {"made", "accepted", "rejected"}
  PROVE  /\ Missed(ch.z, v, Len(v)) \in Int
         /\ VerifyTHat /\ InnerProductVerifier <=> Cg(Missed(ch.z, v, Len(v)), 0)
<1> DEFINE m == Len(v)
           n == N * m
           z == ch.z
           y == ch.y
           x == ch.x
           D == Delta(n, y, z)
           Wv == Weighted(z, v, m)
           Wd == Weighted(z, DigitVector(v, m), m)
           a1 == t1(secret, y, z)
           a2 == t2(secret, y)
           th == proof.tHat
           ii == Sum(Terms(Lx(secret, z, x), Rx(secret, y, z, x), n), n)
           S == Sum(Terms(LZero(secret.aL, z), RZero(secret.aR, y, z), n), n)
           xx == x * x
           A1 == a1 * x
           A2 == a2 * xx
           T == D + A1 + A2
<1>1. phase \in Begun \ {"poly", "evaluate"} /\ phase \in Begun /\ phase \notin {"render", "refused"}
  BY DEF Begun
<1>2. /\ m \in {1, 2} /\ n \in Nat /\ secret \in Secrets(m, n)
      /\ y \in Int /\ z \in Int /\ x \in Int /\ th \in Int
      /\ th = THat(kind, v, secret, y, z, x)
  BY <1>1, AnsweredIs
<1>3. /\ v \in Vectors(m, Int) /\ m \in Nat /\ kind \in {"aggregate", "single"}
      /\ kind = "single" => m = 1
  BY <1>1, <1>2, WitnessIs DEF Inv, Call
<1>4. secret.aL = VectorDecompose(v) /\ secret.aR = ComputeAR(secret.aL)
  BY <1>1 DEF Inv, Committed
<1>5. S \in Int /\ Cg(S, D + Wd)
  BY <1>2, <1>3, <1>4, ConstantIs
<1>6. ii \in Int /\ Cg(ii, S + a1 * x + a2 * (x * x))
  BY <1>2, InnerProductExpands
<1>7. VerifyTHat <=> Cg(th, D + Wv + a1 * x + a2 * (x * x))
  BY VerifyTHatIs
<1>8. InnerProductVerifier <=> Cg(th - ii, 0)
  BY InnerProductVerifierIs DEF Excess
<1>9. D \in Int /\ a1 \in Int /\ a2 \in Int /\ Wv \in Int /\ Wd \in Int
  <2>1. D \in Int
    BY <1>2, DeltaIs
  <2>2. a1 \in Int /\ a2 \in Int
    BY <1>2, CoefficientsAre
  <2>3. DigitVector(v, m) \in Vectors(m, Int)
    BY <1>3, DigitVectorIs
  <2>4. Wv \in Int /\ Wd \in Int
    BY <1>2, <1>3, <2>3, WeightedIs
  <2> QED BY <2>1, <2>2, <2>4
<1>10. Missed(z, v, m) = Wv - Wd
  BY DEF Missed
<1>11. kind = "aggregate" => th = ii
  BY <1>2, THatIs
<1>12. kind = "single" => v[1] \in Int /\ Cg(Wv, v[1] * z * z)
                          /\ Cg(th, v[1] * z * z + D + a1 * x + a2 * x * x)
  <2>1. SUFFICES ASSUME kind = "single"
                 PROVE  v[1] \in Int /\ Cg(Wv, v[1] * z * z)
                          /\ Cg(th, v[1] * z * z + D + a1 * x + a2 * x * x)
    OBVIOUS
  <2>2. m = 1 /\ v \in Vectors(1, Int)
    BY <1>3, <2>1
  <2>3. v[1] \in Int /\ Cg(Weighted(z, v, 1), v[1] * z * z)
    BY <1>2, <2>2, WeightedOne
  <2>4. kind # "aggregate"
    BY <2>1
  <2>5. Cg(THat(kind, v, secret, y, z, x), v[1] * z * z + D + a1 * x + a2 * x * x)
    BY <1>2, <2>3, <2>4, THatIs
  <2> QED BY <1>2, <2>2, <2>3, <2>5
<1> HIDE DEF m, n, z, y, x, D, Wv, Wd, a1, a2, th, ii, S
<1>13. xx \in Int /\ A1 \in Int /\ A2 \in Int /\ T \in Int
  <2>1. xx \in Int
    BY <1>2
  <2> HIDE DEF xx
  <2>2. A1 \in Int /\ A2 \in Int
    BY <1>2, <1>9, <2>1
  <2> HIDE DEF A1, A2
  <2> QED BY <1>9, <2>1, <2>2
<1>14. a1 * x = A1 /\ a2 * (x * x) = A2 /\ a2 * x * x = A2
  <2>1. a2 * x * x = a2 * (x * x)
    BY <1>2, <1>9
  <2> QED BY <2>1
<1> HIDE DEF A1, A2, xx
<1>15. VerifyTHat <=> Cg(th, T + Wv)
  <2>1. D + Wv + A1 + A2 = T + Wv
    BY <1>9, <1>13
  <2> QED BY <1>7, <1>14, <2>1
<1>16. Cg(ii, T + Wd)
  <2> DEFINE s == S + A1 + A2
             DW == D + Wd
             dw == DW + A1 + A2
  <2>1. s \in Int /\ DW \in Int /\ dw \in Int
    BY <1>5, <1>9, <1>13
  <2>2. Cg(ii, s)
    BY <1>6, <1>14
  <2>3. Cg(S, DW)
    BY <1>5
  <2> HIDE DEF DW
  <2>4. Cg(S + A1, DW + A1) /\ S + A1 \in Int /\ DW + A1 \in Int
    <3>1. Cg(A1, A1)
      BY <1>13, CgRefl
    <3>2. Cg(S + A1, DW + A1)
      BY <1>5, <1>13, <2>1, <2>3, <3>1, CgAdd
    <3> QED BY <1>5, <1>13, <2>1, <3>2
  <2> DEFINE sa == S + A1
             da == DW + A1
  <2>5. Cg(sa + A2, da + A2)
    <3>1. Cg(A2, A2) /\ Cg(sa, da) /\ sa \in Int /\ da \in Int
      BY <1>13, <2>4, CgRefl
    <3> HIDE DEF sa, da
    <3> QED BY <1>13, <3>1, CgAdd
  <2>6. Cg(s, dw)
    BY <2>5
  <2>7. dw = T + Wd
    BY <1>9, <1>13 DEF DW
  <2> HIDE DEF s, dw
  <2>8. Cg(ii, dw)
    BY <1>6, <2>1, <2>2, <2>6, CgTrans
  <2> QED BY <2>7, <2>8
<1> HIDE DEF T
<1>17. CASE kind = "aggregate"
  <2>1. th = ii
    BY <1>11, <1>17
  <2>2. th - ii = 0
    BY <1>6, <2>1
  <2>3. InnerProductVerifier
    <3>1. Cg(0, 0)
      BY CgRefl
    <3> QED BY <1>8, <2>2, <3>1
  <2>4. Cg(ii, T + Wv) <=> Cg(Wv - Wd, 0)
    BY <1>6, <1>9, <1>13, <1>16, CgCancel
  <2> QED BY <1>9, <1>10, <1>15, <2>1, <2>3, <2>4 DEF m, z
<1>18. CASE kind = "single"
  <2> DEFINE q == v[1] * z * z
             tq == T + q
             tv == T + Wv
             td == T + Wd
  <2>1. q \in Int /\ Cg(Wv, q) /\ Cg(th, q + D + A1 + A2)
    <3>1. q \in Int
      BY <1>2, <1>12, <1>18
    <3> QED BY <1>12, <1>14, <1>18, <3>1
  <2> HIDE DEF q
  <2>2. q + D + A1 + A2 = tq
    BY <1>9, <1>13, <2>1 DEF T
  <2>3. Cg(th, tq) /\ tq \in Int /\ tv \in Int /\ td \in Int
    BY <1>9, <1>13, <2>1, <2>2
  <2>4. Cg(tq, tv)
    <3>1. Cg(T, T) /\ Cg(q, Wv)
      BY <1>9, <1>13, <2>1, CgRefl, CgSym
    <3> QED BY <1>9, <1>13, <2>1, <3>1, CgAdd
  <2>5. tv - td = Wv - Wd
    BY <1>9, <1>13
  <2>6. Cg(ii, td) /\ (VerifyTHat <=> Cg(th, tv))
    BY <1>15, <1>16
  <2> HIDE DEF tq, tv, td
  <2>7. Cg(th, tv)
    BY <1>2, <2>3, <2>4, CgTrans
  <2>8. Cg(th - ii, tv - td)
    BY <1>2, <1>6, <2>3, <2>6, <2>7, CgSubtract
  <2>9. Cg(th - ii, 0) <=> Cg(tv - td, 0)
    <3> DEFINE l == th - ii
               r == tv - td
    <3>1. l \in Int /\ r \in Int /\ Cg(l, r)
      BY <1>2, <1>6, <2>3, <2>8
    <3> HIDE DEF l, r
    <3>2. Cg(l, 0) <=> Cg(r, 0)
      BY <3>1, CgSame
    <3> QED BY <3>2 DEF l, r
  <2> QED BY <1>8, <1>9, <1>10, <2>5, <2>6, <2>7, <2>9 DEF m, z
<1> QED BY <1>3, <1>17, <1>18

-----------------------------------------------------------------------------
(* Truncation                                                              *)

\* Trunc cuts off less than a step, towards zero.
LEMMA TruncIs ==
  ASSUME NEW r \in Int, NEW pr, Step(pr) \in Nat \ {0}
  PROVE  /\ Trunc(r, pr) \in Int
         /\ r >= 0 => Trunc(r, pr) >= 0 /\ Step(pr) * Trunc(r, pr) <= r /\ r < Step(pr) * Trunc(r, pr) + Step(pr)
         /\ r < 0 => Trunc(r, pr) <= 0 /\ Step(pr) * Trunc(r, pr) - Step(pr) < r /\ r <= Step(pr) * Trunc(r, pr)
<1> DEFINE S == Step(pr)
<1>1. S \in Nat \ {0}
  OBVIOUS
<1>2. \A a \in Nat : a \div S \in Nat /\ S * (a \div S) <= a /\ a < S * (a \div S) + S
  <2> TAKE a \in Nat
  <2> DEFINE q == a \div S
  <2>1. q \in Int /\ a % S \in 0 .. S - 1 /\ a = S * q + (a % S)
    <3> HIDE DEF S
    <3> QED BY <1>1, DivisionBounds
  <2> HIDE DEF S, q
  <2>2. ~(q <= -1)
    <3>1. SUFFICES ASSUME q <= -1 PROVE FALSE
      OBVIOUS
    <3>2. S * q <= -S
      BY <1>1, <2>1, <3>1
    <3> QED BY <1>1, <2>1, <3>2
  <2>3. S * q \in Int
    BY <1>1, <2>1
  <2>4. q \in Nat /\ S * q <= a /\ a < S * q + S
    BY <1>1, <2>1, <2>2, <2>3
  <2> QED BY <2>4 DEF q
<1>3. CASE r >= 0
  <2>1. Trunc(r, pr) = r \div S
    BY <1>3 DEF Trunc
  <2> HIDE DEF S
  <2>2. r \div S \in Nat /\ S * (r \div S) <= r /\ r < S * (r \div S) + S
    BY <1>2, <1>3
  <2> QED BY <1>3, <2>1, <2>2 DEF S
<1>4. CASE r < 0
  <2> DEFINE q == (-r) \div S
  <2>1. Trunc(r, pr) = -q
    BY <1>4 DEF Trunc
  <2>2. q \in Nat /\ S * q <= -r /\ -r < S * q + S
    <3> HIDE DEF S
    <3>1. -r \in Nat
      BY <1>4
    <3> QED BY <1>2, <3>1
  <2> HIDE DEF S, q
  <2>3. S * (-q) = -(S * q) /\ S * q \in Int
    BY <1>1, <2>2
  <2>4. -q \in Int /\ -q <= 0 /\ S * (-q) - S < r /\ r <= S * (-q)
    BY <1>1, <2>2, <2>3
  <2> QED BY <1>4, <2>1, <2>4 DEF S
<1> QED BY <1>3, <1>4

\* Two numbers one multiple of a step apart.
LEMMA StepsApart ==
  ASSUME NEW a \in Int, NEW b \in Int, a <= b, NEW pr, Step(pr) \in Nat \ {0}
  PROVE  /\ Step(pr) \in Int /\ Step(pr) >= 1 /\ Step(pr) * a \in Int /\ Step(pr) * b \in Int
         /\ Step(pr) * a <= Step(pr) * b
         /\ a < b => Step(pr) * a + Step(pr) <= Step(pr) * b
<1> DEFINE S == Step(pr)
           d == b - a
<1>1. S \in Nat \ {0} /\ d \in Nat /\ b = a + d
  OBVIOUS
<1> HIDE DEF S, d
<1>2. S * b = S * a + S * d /\ S * a \in Int /\ S * d \in Int /\ S * b \in Int
  BY <1>1
<1>3. S * d >= 0
  BY <1>1
<1>4. d >= 1 => S * d >= S
  BY <1>1
<1>5. a < b => d >= 1
  BY <1>1
<1>6. S * a <= S * b
  BY <1>2, <1>3
<1>7. a < b => S * a + S <= S * b
  BY <1>1, <1>2, <1>4, <1>5
<1> QED BY <1>1, <1>2, <1>6, <1>7 DEF S

\* Truncation keeps the order.
LEMMA TruncMonotone ==
  ASSUME NEW a \in Int, NEW b \in Int, a <= b, NEW pr, Step(pr) \in Nat \ {0}
  PROVE  Trunc(a, pr) <= Trunc(b, pr)
<1> DEFINE p == Trunc(a, pr)
           q == Trunc(b, pr)
           S == Step(pr)
           Sp == S * p
           Sq == S * q
<1>1. p \in Int /\ q \in Int
  BY TruncIs
<1>2. /\ a >= 0 => p >= 0 /\ Sp <= a /\ a < Sp + S
      /\ a < 0 => p <= 0 /\ Sp - S < a /\ a <= Sp
      /\ b >= 0 => q >= 0 /\ Sq <= b /\ b < Sq + S
      /\ b < 0 => q <= 0 /\ Sq - S < b /\ b <= Sq
  BY TruncIs
<1> HIDE DEF p, q
<1>3. SUFFICES ASSUME q < p PROVE FALSE
  BY <1>1 DEF p, q
<1>4. S \in Int /\ S >= 1 /\ Sp \in Int /\ Sq \in Int /\ Sq + S <= Sp
  <2>1. q <= p
    BY <1>1, <1>3
  <2> QED BY <1>1, <1>3, <2>1, StepsApart
<1> HIDE DEF S, Sp, Sq
<1> QED BY <1>1, <1>2, <1>3, <1>4

\* What truncation may lose of the order.
LEMMA TruncLoses ==
  ASSUME NEW a \in Int, NEW b \in Int, NEW pr, Step(pr) \in Nat \ {0},
         Trunc(b, pr) <= Trunc(a, pr)
  PROVE  b < a + Lost(a, b, pr)
<1> DEFINE p == Trunc(a, pr)
           q == Trunc(b, pr)
           S == Step(pr)
           Sp == S * p
           Sq == S * q
<1>1. p \in Int /\ q \in Int /\ q <= p
  BY TruncIs
<1>2. /\ a >= 0 => p >= 0 /\ Sp <= a /\ a < Sp + S
      /\ a < 0 => p <= 0 /\ Sp - S < a /\ a <= Sp
      /\ b >= 0 => q >= 0 /\ Sq <= b /\ b < Sq + S
      /\ b < 0 => q <= 0 /\ Sq - S < b /\ b <= Sq
  BY TruncIs
<1> HIDE DEF p, q
<1>3. S \in Int /\ S >= 1 /\ Sp \in Int /\ Sq \in Int /\ Sq <= Sp
  BY <1>1, StepsApart
<1>4. p = 0 => Sp = 0
  BY <1>3
<1>5. q = 0 => Sq = 0
  BY <1>3
<1>6. Lost(a, b, pr) = IF a < 0 /\ 0 < b THEN 2 * S ELSE S
  BY DEF Lost
<1> HIDE DEF S, Sp, Sq
<1>7. CASE a >= 0 /\ b >= 0
  BY <1>1, <1>2, <1>3, <1>6, <1>7
<1>8. CASE a >= 0 /\ b < 0
  BY <1>3, <1>6, <1>8
<1>9. CASE a < 0 /\ b < 0
  BY <1>1, <1>2, <1>3, <1>6, <1>9
<1>10. CASE a < 0 /\ b >= 0
  <2>1. p = 0 /\ q = 0
    BY <1>1, <1>2, <1>10
  <2>2. b < S /\ -S < a
    BY <1>2, <1>3, <1>4, <1>5, <1>10, <2>1
  <2>3. CASE b = 0
    BY <1>3, <1>6, <2>2, <2>3
  <2>4. CASE b > 0
    BY <1>3, <1>6, <1>10, <2>2, <2>4
  <2> QED BY <1>10, <2>3, <2>4
<1> QED BY <1>7, <1>8, <1>9, <1>10

-----------------------------------------------------------------------------
(* Values in range are accepted                                            *)

\* A proof that is rejected is of a value out of range.
LEMMA RejectedIsOutOfRange ==
  ASSUME Inv, phase = "rejected"
  PROVE  Len(v) \in {1, 2} /\ \E j \in 1 .. Len(v) : ~InRange(v[j])
<1> DEFINE m == Len(v)
<1>1. m \in {1, 2} /\ v \in Vectors(m, Int)
  BY WitnessIs DEF Inv
<1>2. ~(VerifyTHat /\ InnerProductVerifier)
  BY DEF Inv, Closed
<1>3. Missed(ch.z, v, m) \in Int /\ (VerifyTHat /\ InnerProductVerifier <=> Cg(Missed(ch.z, v, m), 0))
  BY VerdictIs
<1> HIDE DEF m
<1>4. ASSUME \A j \in 1 .. m : InRange(v[j]) PROVE FALSE
  <2>1. \A j \in 1 .. m : v[j] \in Int /\ Digits(v[j]) = v[j]
    <3> TAKE j \in 1 .. m
    <3>1. v[j] \in Int
      BY <1>1 DEF Vectors
    <3> QED BY <1>4, <3>1, DigitsAre
  <2>2. DigitVector(v, m) = v
    BY <1>1, <2>1 DEF DigitVector, Vectors
  <2>3. Missed(ch.z, v, m) = Weighted(ch.z, v, m) - Weighted(ch.z, v, m)
    BY <2>2 DEF Missed
  <2>4. Weighted(ch.z, v, m) \in Int
    <3>1. phase \in Begun \ {"poly", "evaluate"} /\ m \in Nat
      BY <1>1 DEF Begun
    <3>2. ch.z \in Int
      BY <3>1, AnsweredIs
    <3> QED BY <1>1, <3>1, <3>2, WeightedIs
  <2>5. Missed(ch.z, v, m) = 0
    BY <2>3, <2>4
  <2>6. Cg(0, 0)
    BY CgRefl
  <2> QED BY <1>2, <1>3, <2>5, <2>6
<1> QED BY <1>1, <1>4 DEF m

\* The standard of the call, and the entry it was rendered from.
LEMMA RenderedIs ==
  ASSUME Inv, kind = "aggregate", phase \notin {"render", "refused"}
  PROVE  \E e \in Candidates :
            /\ Numbers(e) /\ reading \in Int
            /\ e.low < e.high /\ Len(v) = 2
            /\ v[1] = Scaled(reading, e.precision) - Scaled(e.low, e.precision)
            /\ v[2] = Scaled(e.high, e.precision) - Scaled(reading, e.precision)
<1>1. /\ file \in Files /\ reading \in Int
      /\ rs = StandardOf(file, 1) /\ rs # NoStandard /\ v = RawToMaterial(reading, rs)
  BY Inputs DEF Inv, Call
<1> DEFINE of == {i \in StandardCleaning(file) : file[i].type = 1}
<1>2. /\ DOMAIN file = 1 .. Len(file)
      /\ \A i \in 1 .. Len(file) : Numbers(file[i])
      /\ of # {}
  BY <1>1, StandardIs
<1>3. PICK i \in of : rs = [low |-> Scaled(file[i].low, file[i].precision),
                            high |-> Scaled(file[i].high, file[i].precision),
                            precision |-> file[i].precision]
  BY <1>1, <1>2, StandardIs
<1> DEFINE e == file[i]
<1>4. /\ i \in 1 .. Len(file) /\ ~ErrorStandard(e) /\ ~UnusableStandard(e) /\ e.type = 1
  BY <1>3 DEF StandardCleaning
<1>5. Numbers(e)
  BY <1>2, <1>4
<1>6. e.low < e.high /\ e.user = User
  BY <1>4, <1>5 DEF ErrorStandard, UnusableStandard, Numbers
<1>7. e \in Candidates
  <2>1. e \in {file[k] : k \in DOMAIN file}
    BY <1>2, <1>4
  <2> QED BY <1>4, <1>6, <2>1 DEF Candidates
<1>8. rs.low = Scaled(e.low, e.precision) /\ rs.high = Scaled(e.high, e.precision)
      /\ rs.precision = e.precision
  BY <1>3
<1> HIDE DEF e
<1>9. v = <<Scaled(reading, e.precision) - Scaled(e.low, e.precision),
            Scaled(e.high, e.precision) - Scaled(reading, e.precision)>>
  BY <1>1, <1>8 DEF RawToMaterial
<1>10. /\ Len(v) = 2
       /\ v[1] = Scaled(reading, e.precision) - Scaled(e.low, e.precision)
       /\ v[2] = Scaled(e.high, e.precision) - Scaled(reading, e.precision)
  BY <1>9
<1> QED BY <1>1, <1>5, <1>6, <1>7, <1>10

\* The first character of a name is that of the type; that of type 1 is no other's.
LEMMA SameNameSameType ==
  ASSUME NEW f \in Files, NEW i \in 1 .. Len(f), NEW j \in 1 .. Len(f),
         OmitID(f[i]) = OmitID(f[j]), f[i].type = 1
  PROVE  f[j].type = 1
<1>1. ASSUME NEW k \in 1 .. Len(f) PROVE Rune(f[k].type) = OmitID(f[k])[1]
  <2> DEFINE r == Rune(f[k].type)
             o == f[k].owner
             w == f[k].user
  <2>1. r \in Nat /\ o \in Seq(Nat) /\ w \in Seq(Nat)
    <3>1. f[k].type \in Int /\ f[k].owner \in Seq(Nat) /\ f[k].user \in Seq(Nat)
      BY Inputs
    <3>2. \A t \in Int : Rune(t) \in Nat
      BY DEF Rune
    <3> QED BY <3>1, <3>2
  <2>2. OmitID(f[k]) = <<r>> \o o \o w
    BY DEF OmitID
  <2> HIDE DEF r, o, w
  <2>3. (<<r>> \o o \o w)[1] = r
    BY <2>1
  <2> QED BY <2>2, <2>3 DEF r
<1>2. Rune(f[i].type) = Rune(f[j].type)
  BY <1>1
<1>3. f[j].type \in Int
  BY Inputs
<1>4. \A t \in Int : Rune(t) = Rune(1) => t = 1
  BY DEF Rune
<1> QED BY <1>2, <1>3, <1>4

\* A file with candidates but no standard: the last entry of a candidate's
\* name is malformed or another user's.
LEMMA RefusedIsDisplaced ==
  ASSUME Inv, phase = "refused", NEW e \in Candidates
  PROVE  Displaced(e)
<1>1. kind = "aggregate" /\ file \in Files /\ StandardOf(file, 1) = NoStandard
  BY DEF Inv, Call
<1> DEFINE of == {i \in StandardCleaning(file) : file[i].type = 1}
           n == Len(file)
<1>2. /\ n \in Nat /\ DOMAIN file = 1 .. n /\ of = {}
      /\ \A i \in 1 .. n : Numbers(file[i])
  BY <1>1, StandardIs
<1>3. PICK i \in 1 .. n : file[i] = e
  BY <1>2 DEF Candidates
<1>4. e.type = 1 /\ e.user = User /\ e.low < e.high
  BY DEF Candidates
<1> DEFINE same == {k \in 1 .. n : OmitID(file[k]) = OmitID(e)}
           T == {n - k : k \in same}
<1>5. i \in same /\ same \subseteq 1 .. n
  BY <1>3
<1> HIDE DEF same
<1>6. T \subseteq Nat /\ T # {}
  BY <1>2, <1>5
<1>7. PICK l \in T : \A t \in T : l <= t
  <2> HIDE DEF T
  <2> QED BY <1>6, Least
<1>8. PICK k \in same : l = n - k
  BY <1>7
<1>9. \A t \in same : t <= k
  <2> TAKE t \in same
  <2>1. n - t \in T
    OBVIOUS
  <2>2. l <= n - t
    BY <1>7, <2>1
  <2> QED BY <1>2, <1>5, <1>8, <2>2
<1>10. k \in 1 .. n /\ OmitID(file[k]) = OmitID(e)
  BY <1>5, <1>8 DEF same
<1>11. ~RepeatedElement(file, k)
  <2>1. SUFFICES ASSUME NEW j \in k + 1 .. n, OmitID(file[j]) = OmitID(file[k]) PROVE FALSE
    BY DEF RepeatedElement
  <2>2. j \in same
    BY <1>2, <1>10, <2>1 DEF same
  <2> QED BY <1>2, <1>9, <1>10, <2>2
<1>12. file[k].type = 1
  BY <1>1, <1>2, <1>3, <1>4, <1>10, SameNameSameType
<1>13. ErrorStandard(file[k]) \/ UnusableStandard(file[k])
  <2>1. SUFFICES ASSUME ~ErrorStandard(file[k]), ~UnusableStandard(file[k]) PROVE FALSE
    OBVIOUS
  <2>2. k \in of
    BY <1>10, <1>11, <1>12, <2>1 DEF StandardCleaning
  <2> QED BY <1>2, <2>2
<1>14. k # i
  <2>1. ~ErrorStandard(e) /\ ~UnusableStandard(e)
    BY <1>2, <1>3, <1>4 DEF ErrorStandard, UnusableStandard, Numbers
  <2> QED BY <1>3, <1>13, <2>1
<1>15. i < k
  BY <1>2, <1>3, <1>5, <1>9, <1>10, <1>14
<1>16. i \in DOMAIN file /\ k \in DOMAIN file
  BY <1>2, <1>3, <1>10
<1> QED BY <1>3, <1>10, <1>13, <1>15, <1>16 DEF Displaced

\* The invariant implies that readings in each candidate are accepted, ...
LEMMA RejectedIsRightly ==
  ASSUME Inv
  PROVE  InStandardIsAccepted
<1>0. kind \in {"aggregate", "single"}
  BY DEF Inv, Call
<1>1. phase = "refused" => \A e \in Candidates : Displaced(e)
  BY RefusedIsDisplaced
<1>2. ASSUME phase = "rejected", kind = "single" PROVE ~InRange(v[1])
  <2>1. Len(v) = 1
    BY <1>2, WitnessIs DEF Inv
  <2> QED BY <1>2, <2>1, RejectedIsOutOfRange
<1>3. ASSUME phase = "rejected", kind = "aggregate"
      PROVE  \E e \in Candidates :
                \/ reading \notin e.low .. e.high
                \/ Scaled(e.high, e.precision) - Scaled(e.low, e.precision) >= 2^N
  <2>1. PICK e \in Candidates :
            /\ Numbers(e) /\ reading \in Int
            /\ e.low < e.high /\ Len(v) = 2
            /\ v[1] = Scaled(reading, e.precision) - Scaled(e.low, e.precision)
            /\ v[2] = Scaled(e.high, e.precision) - Scaled(reading, e.precision)
    BY <1>3, RenderedIs
  <2>2. 2^N \in Nat /\ 2^N >= 1
    BY NIsNat, TwoPositive
  <2> DEFINE P == 2^N
             tl == Scaled(e.low, e.precision)
             th == Scaled(e.high, e.precision)
             tr == Scaled(reading, e.precision)
  <2>3. ASSUME reading \in e.low .. e.high, ~(th - tl >= P) PROVE FALSE
    <3>1. tl \in Int /\ th \in Int /\ tr \in Int /\ P \in Nat /\ P >= 1
      BY <2>1, <2>2, TruncType DEF Numbers
    <3>2. tl <= tr /\ tr <= th
      <4>1. e.low <= reading /\ reading <= e.high
        BY <2>1, <2>3 DEF Numbers
      <4>2. CASE e.precision < 0
        BY <4>2 DEF Scaled
      <4>3. CASE ~(e.precision < 0)
        <5>1. tl = Trunc(e.low, e.precision) /\ th = Trunc(e.high, e.precision)
              /\ tr = Trunc(reading, e.precision)
          BY <4>3 DEF Scaled
        <5>2. Step(e.precision) \in Nat \ {0}
          BY <2>1, <4>3 DEF Numbers
        <5>3. Trunc(e.low, e.precision) <= Trunc(reading, e.precision)
          BY <2>1, <4>1, <5>2, TruncMonotone DEF Numbers
        <5>4. Trunc(reading, e.precision) <= Trunc(e.high, e.precision)
          BY <2>1, <4>1, <5>2, TruncMonotone DEF Numbers
        <5> QED BY <5>1, <5>3, <5>4
      <4> QED BY <4>2, <4>3
    <3>3. v[1] \in 0 .. P - 1 /\ v[2] \in 0 .. P - 1
      <4>1. v[1] = tr - tl /\ v[2] = th - tr
        BY <2>1
      <4> HIDE DEF P, tl, th, tr
      <4> QED BY <2>3, <3>1, <3>2, <4>1
    <3>4. InRange(v[1]) /\ InRange(v[2])
      BY <3>3 DEF InRange
    <3>5. \A j \in 1 .. Len(v) : InRange(v[j])
      BY <2>1, <3>4
    <3> QED BY <1>3, <3>5, RejectedIsOutOfRange
  <2> QED BY <2>1, <2>3
<1> QED BY <1>0, <1>1, <1>2, <1>3 DEF InStandardIsAccepted

\* Whatever is drawn and whatever the challenges are: a reading in each
\* candidate standard gets a proof that the verifier accepts, unless a candidate is
\* wider than N bits tell apart, or each was displaced by an entry of no use whose
\* name reads the same.
THEOREM InStandardReadingsAreAccepted == Spec => []InStandardIsAccepted
BY Invariant, RejectedIsRightly, PTL

-----------------------------------------------------------------------------
(* What an accepted proof says                                             *)

\* A factor that has an inverse is cancelled.
LEMMA CancelFactor ==
  ASSUME NEW x \in Challenges, NEW a \in Int, Cg(x * a, 0)
  PROVE  Cg(a, 0)
<1> DEFINE i == ModInverse(x)
           p == i * x
           xa == x * a
<1>1. x \in Int
  BY OrderIsPrime DEF Challenges
<1>2. ~Cg(x, 0)
  <2>1. x \in Fp /\ 0 \in Fp /\ x # 0
    BY OrderIsPrime DEF Challenges, Fp
  <2> QED BY <2>1, CgUnique
<1>3. i \in Int /\ Cg(x * i, 1)
  <2>1. i \in 1 .. Order - 1 /\ Cg(x * i, 1)
    BY <1>1, <1>2, InverseOf
  <2> QED BY <2>1, OrderIsPrime
<1> HIDE DEF i
<1>4. p = x * i /\ p \in Int /\ xa \in Int
  BY <1>1, <1>3
<1>5. Cg(p, 1) /\ Cg(xa, 0)
  BY <1>3, <1>4
<1>6. p * a = i * xa
  BY <1>1, <1>3
<1> HIDE DEF p, xa
<1>7. Cg(p * a, 1 * a)
  <2>1. Cg(a, a) /\ 1 \in Int
    BY CgRefl
  <2> QED BY <1>4, <1>5, <2>1, CgMul
<1>8. Cg(i * xa, i * 0)
  <2>1. Cg(i, i) /\ 0 \in Int
    BY <1>3, CgRefl
  <2> QED BY <1>3, <1>4, <1>5, <2>1, CgMul
<1> DEFINE q == p * a
<1>9. q \in Int /\ Cg(q, a) /\ Cg(q, 0)
  <2>1. 1 * a = a /\ i * 0 = 0 /\ q \in Int
    BY <1>3, <1>4
  <2> QED BY <1>6, <1>7, <1>8, <2>1
<1> HIDE DEF q
<1>10. Cg(a, q) /\ 0 \in Int
  BY <1>9, CgSym
<1> QED BY <1>9, <1>10, CgTrans

\* What the digits miss, the powers of z from the first on.
Misses(w, m) == [j \in 1 .. m |-> w[j] - Digits(w[j])]
RootOf(z, w, m) == Sum([j \in 1 .. m |-> Pow(z, j) * Misses(w, m)[j]], m)

\* What the digits miss, weighted, is z times the value at z of a polynomial
\* whose coefficients are the misses.
LEMMA MissedIsRoot ==
  ASSUME NEW m \in Nat, NEW w \in Vectors(m, Int), NEW z \in Int
  PROVE  /\ \A j \in 1 .. m : Digits(w[j]) \in Int /\ w[j] \in Int /\ Pow(z, j) \in Int
                              /\ Misses(w, m)[j] = w[j] - Digits(w[j])
         /\ RootOf(z, w, m) \in Fp /\ RootOf(z, w, m) \in Int
         /\ Missed(z, w, m) \in Int /\ Cg(Missed(z, w, m), z * RootOf(z, w, m))
<1> DEFINE D == DigitVector(w, m)
           M == Misses(w, m)
           f == [j \in 1 .. m |-> Pow(z, j + 1) * w[j]]
           fM == [j \in 1 .. m |-> Pow(z, j) * M[j]]
           fD == [j \in 1 .. m |-> Pow(z, j + 1) * D[j]]
           e == 1
           o == 0
<1>1. D \in Vectors(m, Int) /\ \A j \in 1 .. m : D[j] = Digits(w[j])
  BY DigitVectorIs
<1>2. \A j \in 1 .. m : w[j] \in Int /\ D[j] \in Int /\ M[j] = w[j] - D[j] /\ M[j] \in Int
  <2> TAKE j \in 1 .. m
  <2>1. w[j] \in Int /\ D[j] \in Int
    BY <1>1 DEF Vectors
  <2>2. M[j] = w[j] - D[j]
    BY <1>1 DEF Misses
  <2> QED BY <2>1, <2>2
<1>3. \A j \in 1 .. m : Pow(z, j) \in Int /\ Pow(z, j + 1) = (z * Pow(z, j)) % Order
  <2> TAKE j \in 1 .. m
  <2>1. j \in Nat
    OBVIOUS
  <2> QED BY <2>1, PowNext
<1>4. /\ Ints(f, m) /\ Ints(fD, m) /\ Weighted(z, w, m) = Sum(f, m) /\ Weighted(z, D, m) = Sum(fD, m)
      /\ \A j \in 1 .. m : Pow(z, j + 1) \in Int
  <2>1. Ints(f, m) /\ \A j \in 1 .. m : Pow(z, j + 1) \in Int
    BY WeightedIs
  <2>2. Ints(fD, m)
    BY <1>1, WeightedIs
  <2>3. Weighted(z, w, m) = Sum(f, m) /\ Weighted(z, D, m) = Sum(fD, m)
    BY DEF Weighted
  <2> QED BY <2>1, <2>2, <2>3
<1>5. RootOf(z, w, m) = Sum(fM, m) /\ Missed(z, w, m) = Sum(f, m) - Sum(fD, m)
  BY <1>4 DEF RootOf, Missed
<1>6. /\ \A j \in 1 .. m : f[j] = Pow(z, j + 1) * w[j] /\ fD[j] = Pow(z, j + 1) * D[j]
      /\ \A j \in 1 .. m : fM[j] = Pow(z, j) * M[j]
  OBVIOUS
<1> HIDE DEF D, M, f, fM, fD
<1>7. Ints(fM, m)
  <2>1. \A j \in 1 .. m : Pow(z, j) * M[j] \in Int
    BY <1>2, <1>3
  <2> QED BY <1>6, <2>1 DEF Ints
<1>8. e \in Int /\ o \in Int /\ e = 1 /\ o = 0
  OBVIOUS
<1> HIDE DEF e, o
<1>9. \A j \in 1 .. m : Cg(f[j], z * fM[j] + e * fD[j] + o * fD[j] + o * fD[j])
  <2> TAKE j \in 1 .. m
  <2> DEFINE p == Pow(z, j)
             q == Pow(z, j + 1)
             a == w[j]
             d == D[j]
             c == M[j]
             zp == z * p
  <2>1. p \in Int /\ q \in Int /\ a \in Int /\ d \in Int /\ c \in Int /\ a = d + c /\ zp \in Int
    BY <1>2, <1>3, <1>4
  <2>2. q = zp % Order
    BY <1>3
  <2>3. f[j] = q * a /\ fM[j] = p * c /\ fD[j] = q * d
    BY <1>6
  <2> HIDE DEF p, q, a, d, c
  <2>4. Cg(q * c, zp * c)
    <3>1. Cg(q, zp) /\ Cg(c, c)
      BY <2>1, <2>2, CgMod, CgRefl
    <3> HIDE DEF zp
    <3> QED BY <2>1, <3>1, CgMul
  <2>5. zp * c = z * (p * c)
    BY <2>1
  <2> DEFINE qc == q * c
             qd == q * d
             zpc == z * (p * c)
             r1 == qc + qd
             r2 == zpc + qd
  <2>6. qc \in Int /\ qd \in Int /\ zpc \in Int /\ q * a = r1 /\ Cg(qc, zpc)
    BY <2>1, <2>4, <2>5
  <2> HIDE DEF qc, qd, zpc, zp
  <2>7. Cg(r1, r2)
    <3>1. Cg(qd, qd)
      BY <2>6, CgRefl
    <3> QED BY <2>6, <3>1, CgAdd
  <2>8. z * (p * c) + e * (q * d) + o * (q * d) + o * (q * d) = r2
    <3>1. e * qd = qd /\ o * qd = 0
      BY <1>8, <2>6
    <3>2. zpc + e * qd + o * qd + o * qd = zpc + qd
      BY <2>6, <3>1
    <3> QED BY <3>2 DEF zpc, qd
  <2> HIDE DEF r1, r2
  <2> QED BY <2>3, <2>6, <2>7, <2>8
<1>10. Cg(Sum(f, m), z * Sum(fM, m) + e * Sum(fD, m) + o * Sum(fD, m) + o * Sum(fD, m))
  BY <1>4, <1>7, <1>8, <1>9, SumLinear
<1> DEFINE s == Sum(f, m)
           sM == Sum(fM, m)
           sD == Sum(fD, m)
           zM == z * sM
<1>11. s \in Int /\ sM \in Int /\ sM \in Fp /\ sD \in Int /\ zM \in Int
  <2>1. s \in Int /\ sM \in Int /\ sM \in Fp /\ sD \in Int
    BY <1>4, <1>7, SumType
  <2> HIDE DEF s, sM, sD
  <2> QED BY <2>1
<1>12. Cg(s, zM + e * sD + o * sD + o * sD)
  BY <1>10
<1> HIDE DEF s, sM, sD, zM
<1>13. zM + e * sD + o * sD + o * sD = zM + sD
  BY <1>8, <1>11
<1>14. Cg(s - sD, zM)
  <2>1. PICK k \in Int : s = zM + sD + k * Order
    BY <1>12, <1>13 DEF Cg
  <2>2. k * Order \in Int
    BY OrderIsPrime
  <2>3. s - sD = zM + k * Order
    BY <1>11, <2>1, <2>2
  <2> QED BY <2>3 DEF Cg
<1>15. s - sD \in Int
  BY <1>11
<1>16. Missed(z, w, m) = s - sD /\ RootOf(z, w, m) = sM
  BY <1>5 DEF s, sD, sM
<1>17. Cg(Missed(z, w, m), z * RootOf(z, w, m))
  BY <1>14, <1>16 DEF zM
<1> QED BY <1>1, <1>2, <1>3, <1>11, <1>15, <1>16, <1>17 DEF D, M

\* An accepted proof: z is a root of what the digits miss of the witness.
LEMMA AcceptedIsRoot ==
  ASSUME Inv, phase = "accepted"
  PROVE  /\ Len(v) \in {1, 2} /\ v \in Vectors(Len(v), Int)
         /\ ch.z \in Challenges /\ ch.z \in Int /\ RootOf(ch.z, v, Len(v)) = 0
<1> DEFINE m == Len(v)
           z == ch.z
           r == RootOf(z, v, m)
<1>1. m \in {1, 2} /\ v \in Vectors(m, Int)
  BY WitnessIs DEF Inv
<1>2. z \in Challenges /\ z \in Int
  <2>1. phase \in Begun \ {"poly", "evaluate"}
    BY DEF Begun
  <2> QED BY <2>1, AnsweredIs
<1>3. Missed(z, v, m) \in Int /\ Cg(Missed(z, v, m), 0)
  <2>1. VerifyTHat /\ InnerProductVerifier
    BY DEF Inv, Closed
  <2> QED BY <2>1, VerdictIs
<1>4. r \in Fp /\ r \in Int /\ Cg(Missed(z, v, m), z * r)
  <2>1. m \in Nat
    BY <1>1
  <2> HIDE DEF m, z
  <2> QED BY <1>1, <1>2, <2>1, MissedIsRoot
<1> HIDE DEF r, m, z
<1> DEFINE zr == z * r
           M == Missed(z, v, m)
<1>5. zr \in Int /\ M \in Int /\ Cg(M, zr) /\ Cg(M, 0) /\ 0 \in Int
  BY <1>2, <1>3, <1>4
<1> HIDE DEF zr, M
<1>6. Cg(zr, 0)
  BY <1>5, CgSym, CgTrans
<1>7. Cg(z * r, 0)
  BY <1>6 DEF zr
<1>8. Cg(r, 0)
  BY <1>2, <1>4, <1>7, CancelFactor
<1>9. 0 \in Fp
  BY OrderIsPrime DEF Fp
<1>10. r = 0
  BY <1>4, <1>8, <1>9, CgUnique
<1> QED BY <1>1, <1>2, <1>10 DEF r, m, z

\* The single proof: no factor hides what the digits miss.
LEMMA AcceptedSingle ==
  ASSUME Inv, phase = "accepted", kind = "single"
  PROVE  InRange(v[1])
<1> DEFINE z == ch.z
           x == v[1]
           d == Digits(x)
           e == x - d
           p == Pow(z, 1)
           f == [j \in 1 .. 1 |-> Pow(z, j) * Misses(v, 1)[j]]
<1>1. Len(v) = 1
  BY WitnessIs DEF Inv
<1>2. /\ v \in Vectors(1, Int) /\ z \in Challenges /\ z \in Int /\ RootOf(z, v, 1) = 0
  BY <1>1, AcceptedIsRoot
<1>3. /\ d \in Int /\ x \in Int /\ p \in Int /\ Misses(v, 1)[1] = e
  BY <1>2, MissedIsRoot
<1>4. f[1] = p * e /\ Sum(f, 1) = 0
  <2>1. Sum(f, 1) = 0
    BY <1>2 DEF RootOf
  <2> QED BY <1>3, <2>1
<1>5. Cg(p, z)
  <2>1. Pow(z, 0 + 1) = (z * Pow(z, 0)) % Order /\ Pow(z, 0) = 1
    BY <1>2, PowNext, PowZero
  <2>2. p = z % Order
    BY <1>2, <2>1
  <2> QED BY <1>2, <2>2, CgMod
<1>6. x \in 2 - Order .. Order - 1
  <2>1. PICK w \in SingleValues : v = <<w>>
    BY DEF Inv, Call
  <2> QED BY <2>1, Inputs
<1>7. /\ x >= 0 => d \in 0 .. 2^N - 1 /\ d <= x
      /\ x < 0 => d \in {0, 1}
  BY <1>3, DigitsAre
<1> HIDE DEF z, x, d, f, p
<1>8. e \in Int
  BY <1>3
<1>9. Cg(e, 0)
  <2> HIDE DEF e
  <2> DEFINE pe == p * e
             ze == z * e
  <2>1. pe \in Int /\ ze \in Int /\ f[1] = pe
    BY <1>2, <1>3, <1>4, <1>8
  <2>2. Cg(ze, pe)
    <3>1. Cg(e, e) /\ Cg(z, p)
      BY <1>2, <1>3, <1>5, <1>8, CgRefl, CgSym
    <3> QED BY <1>2, <1>3, <1>8, <3>1, CgMul
  <2> HIDE DEF pe, ze
  <2>3. Cg(Sum(f, 1), pe)
    BY <2>1, SumOfOne
  <2>4. Cg(pe, 0)
    BY <1>4, <2>1, <2>3, CgSym
  <2>5. Cg(ze, 0)
    BY <2>1, <2>2, <2>4, CgTrans
  <2>6. Cg(z * e, 0)
    BY <2>5 DEF ze
  <2> QED BY <1>2, <1>8, <2>6, CancelFactor
<1>10. 2^N \in Nat /\ 2^N >= 1
  BY NIsNat, TwoPositive
<1>11. e \in 1 - Order .. Order - 1
  <2>1. Order \in Int
    BY OrderIsPrime
  <2>2. CASE x >= 0
    <3> DEFINE P == 2^N
    <3>1. d >= 0 /\ d <= x
      <4>1. P \in Nat
        BY <1>10
      <4> HIDE DEF P
      <4> QED BY <1>7, <2>2, <4>1 DEF P
    <3> QED BY <1>3, <1>6, <2>1, <2>2, <3>1
  <2>3. CASE x < 0
    <3>1. d = 0 \/ d = 1
      BY <1>7, <2>3
    <3> QED BY <1>3, <1>6, <2>1, <2>3, <3>1
  <2> QED BY <1>3, <2>2, <2>3
<1>12. e = 0
  <2> HIDE DEF e
  <2>1. PICK q \in Int : e = 0 + q * Order
    BY <1>9 DEF Cg
  <2>2. ~(q >= 1)
    <3>1. SUFFICES ASSUME q >= 1 PROVE FALSE
      OBVIOUS
    <3>2. q * Order >= Order
      BY <3>1, OrderIsPrime
    <3> QED BY <1>8, <1>11, <2>1, <3>2, OrderIsPrime
  <2>3. ~(q <= -1)
    <3>1. SUFFICES ASSUME q <= -1 PROVE FALSE
      OBVIOUS
    <3>2. q * Order <= -Order
      BY <3>1, OrderIsPrime
    <3> QED BY <1>8, <1>11, <2>1, <3>2, OrderIsPrime
  <2>4. q = 0
    BY <2>2, <2>3
  <2> QED BY <2>1, <2>4, OrderIsPrime
<1>13. x = d
  BY <1>3, <1>12
<1>14. ~(x < 0)
  <2>1. SUFFICES ASSUME x < 0 PROVE FALSE
    OBVIOUS
  <2>2. d = 0 \/ d = 1
    BY <1>7, <2>1
  <2> QED BY <1>13, <2>1, <2>2
<1>15. x >= 0
  BY <1>3, <1>14
<1> QED BY <1>7, <1>13, <1>15 DEF InRange, x

\* The aggregated proof: z hides what the digits miss, or both distances are
\* not negative.
LEMMA AcceptedAggregate ==
  ASSUME Inv, phase = "accepted", kind = "aggregate", ~ZHidesMiss
  PROVE  \E e \in Candidates : \/ e.precision < 0
                               \/ /\ e.low < reading + Lost(reading, e.low, e.precision)
                                  /\ reading < e.high + Lost(e.high, reading, e.precision)
<1> DEFINE z == ch.z
           m == Len(v)
           M == Misses(v, m)
<1>1. m = 2
  BY WitnessIs DEF Inv
<1>2. v \in Vectors(m, Int) /\ z \in Int /\ RootOf(z, v, m) = 0 /\ m \in Nat
  BY <1>1, AcceptedIsRoot
<1>3. Sum([j \in 1 .. m |-> Pow(z, j) * M[j]], m) = 0
  BY <1>2 DEF RootOf
<1>4. \A j \in 1 .. m : M[j] = 0
  BY <1>3 DEF ZHidesMiss, Misses
<1>5. \A j \in 1 .. m : v[j] \in Int /\ Digits(v[j]) \in Int /\ M[j] = v[j] - Digits(v[j])
  <2> HIDE DEF m, z
  <2> QED BY <1>2, MissedIsRoot
<1>6. \A j \in 1 .. m : v[j] \in Int /\ v[j] >= 0
  <2> TAKE j \in 1 .. m
  <2> DEFINE x == v[j]
             d == Digits(x)
  <2>1. x \in Int /\ d \in Int /\ x - d = 0
    BY <1>4, <1>5
  <2>2. x < 0 => d \in {0, 1}
    BY <2>1, DigitsAre
  <2> HIDE DEF x, d
  <2>3. x >= 0
    BY <2>1, <2>2
  <2> QED BY <2>1, <2>3 DEF x
<1>7. v[1] \in Int /\ v[1] >= 0 /\ v[2] \in Int /\ v[2] >= 0
  BY <1>1, <1>6
<1>8. PICK e \in Candidates :
            /\ Numbers(e) /\ reading \in Int
            /\ e.low < e.high /\ Len(v) = 2
            /\ v[1] = Scaled(reading, e.precision) - Scaled(e.low, e.precision)
            /\ v[2] = Scaled(e.high, e.precision) - Scaled(reading, e.precision)
  BY RenderedIs
<1>9. ASSUME ~(e.precision < 0)
      PROVE  /\ e.low < reading + Lost(reading, e.low, e.precision)
             /\ reading < e.high + Lost(e.high, reading, e.precision)
  <2> DEFINE p == e.precision
             tl == Trunc(e.low, p)
             th == Trunc(e.high, p)
             tr == Trunc(reading, p)
  <2>1. v[1] = tr - tl /\ v[2] = th - tr
    BY <1>8, <1>9 DEF Scaled
  <2>2. Step(p) \in Nat \ {0} /\ e.low \in Int /\ e.high \in Int /\ reading \in Int
    BY <1>8, <1>9 DEF Numbers
  <2>3. tr \in Int /\ tl \in Int /\ th \in Int
    BY <2>2, TruncIs
  <2>4. tl <= tr /\ tr <= th
    <3> HIDE DEF tl, th, tr
    <3> QED BY <1>7, <2>1, <2>3
  <2> HIDE DEF p
  <2>5. e.low < reading + Lost(reading, e.low, p)
    BY <2>2, <2>4, TruncLoses
  <2>6. reading < e.high + Lost(e.high, reading, p)
    BY <2>2, <2>4, TruncLoses
  <2> QED BY <2>5, <2>6 DEF p
<1> QED BY <1>8, <1>9

\* ... and that what is accepted is in the standard but for Trunc.
LEMMA AcceptedIsRightly ==
  ASSUME Inv
  PROVE  AcceptedIsInStandard
<1>1. kind \in {"aggregate", "single"}
  BY DEF Inv, Call
<1> QED BY <1>1, AcceptedSingle, AcceptedAggregate DEF AcceptedIsInStandard

\* Whatever was drawn: a proof the verifier accepts is of a single value of N
\* bits or of a reading that lies outside of some candidate standard by no more
\* than truncation loses, unless the challenge z is a root of what the digits
\* of the two distances miss.
THEOREM AcceptedReadingsAreInStandard == Spec => []AcceptedIsInStandard
BY Invariant, AcceptedIsRightly, PTL
=============================================================================
