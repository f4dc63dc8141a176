---------------------------- MODULE ValuesProofs ----------------------------
(***************************************************************************)
(* Proofs about Values for every width of the narrow type and of the       *)
(* register: whatever the instructions leave above a narrow integer, the   *)
(* low bits are those of the value the language gives it.  The operations  *)
(* are shown to take words that agree modulo Narrow to words that do; the  *)
(* loops over bits are followed by induction on their number.              *)
(***************************************************************************)
EXTENDS Values, NaturalsInduction, WellFoundedInduction, TLAPS

(* ---- induction ---------------------------------------------------------------- *)
(* Induction on a set of numbers that is closed downwards.                 *)
LEMMA Induction ==
  ASSUME NEW D \in SUBSET Nat, \A n \in D : n # 0 => n - 1 \in D,
         NEW A, \A n \in D : n = 0 \/ n - 1 \in A => n \in A
  PROVE  D \subseteq A
<1> DEFINE T == D \ A
           R == {x \in Nat \X Nat : x[1] < x[2]}
<1> SUFFICES ASSUME T # {} PROVE FALSE
  OBVIOUS
<1>1. IsWellFoundedOn(R, Nat)
  BY NatLessThanWellFounded DEF OpToRel
<1>2. \E m \in T : \A n \in T : ~(<<n, m>> \in R)
  BY <1>1, WFMin
<1>3. PICK m \in T : \A n \in T : ~(n < m)
  BY <1>2
<1>4. m # 0 /\ m - 1 \in D /\ m - 1 \notin T
  BY <1>3
<1> QED
  BY <1>3, <1>4

(* A function defined by recursion exists: the step is a function.         *)
Recursive(f, D, a, F) == f = [n \in D |-> IF n = 0 THEN a ELSE F[<<n, f[n - 1]>>]]

LEMMA RecursionOnNat ==
  ASSUME NEW S, NEW a \in S, NEW F \in [Nat \X S -> S]
  PROVE  \E f \in [Nat -> S] : Recursive(f, Nat, a, F)
<1> DEFINE Follows(n, g) == \A i \in 0..n : g[i] = IF i = 0 THEN a ELSE F[<<i, g[i - 1]>>]
           A == {n \in Nat : \E g \in [0..n -> S] : Follows(n, g)}
<1>1. \A n \in Nat : n = 0 \/ n - 1 \in A => n \in A
  <2> SUFFICES ASSUME NEW n \in Nat, n = 0 \/ n - 1 \in A PROVE n \in A
    OBVIOUS
  <2>1. CASE n = 0
    <3>1. [i \in 0..n |-> a] \in [0..n -> S] /\ Follows(n, [i \in 0..n |-> a])
      BY <2>1
    <3> QED
      BY <3>1
  <2>2. CASE n # 0
    <3>1. PICK g \in [0..(n - 1) -> S] : Follows(n - 1, g)
      BY <2>2
    <3>2. PICK h : h = [i \in 0..n |-> IF i = n THEN F[<<n, g[n - 1]>>] ELSE g[i]]
      OBVIOUS
    <3>3. n - 1 \in 0..(n - 1) /\ <<n, g[n - 1]>> \in Nat \X S
      BY <2>2
    <3>4. h \in [0..n -> S]
      BY <3>2, <3>3
    <3>5. ASSUME NEW i \in 0..n PROVE h[i] = IF i = 0 THEN a ELSE F[<<i, h[i - 1]>>]
      <4>1. CASE i = n
        <5>1. h[n] = F[<<n, g[n - 1]>>] /\ h[n - 1] = g[n - 1]
          BY <2>2, <3>2
        <5> QED
          BY <2>2, <4>1, <5>1
      <4>2. CASE i # n
        <5>1. i \in 0..(n - 1) /\ h[i] = g[i]
          BY <3>2, <4>2
        <5>2. i # 0 => h[i - 1] = g[i - 1]
          BY <3>2, <5>1
        <5> QED
          BY <3>1, <5>1, <5>2
      <4> QED
        BY <4>1, <4>2
    <3> QED
      BY <3>4, <3>5
  <2> QED
    BY <2>1, <2>2
<1>2. \A n \in Nat : n \in A
  <2>1. \A n \in Nat : n # 0 => n - 1 \in Nat
    OBVIOUS
  <2> HIDE DEF A
  <2> QED
    BY <1>1, <2>1, Induction
<1> DEFINE G(n) == CHOOSE g \in [0..n -> S] : Follows(n, g)
<1>3. \A n \in Nat : G(n) \in [0..n -> S] /\ Follows(n, G(n))
  BY <1>2
<1> HIDE DEF G
<1>4. \A n \in Nat : \A i \in 0..n : G(n)[i] = G(i)[i]
  <2> SUFFICES ASSUME NEW n \in Nat PROVE \A i \in 0..n : G(n)[i] = G(i)[i]
    OBVIOUS
  <2> DEFINE B == {i \in 0..n : \A k \in i..n : G(k)[i] = G(n)[i]}
  <2>1. \A i \in 0..n : i = 0 \/ i - 1 \in B => i \in B
    <3> SUFFICES ASSUME NEW i \in 0..n, i = 0 \/ i - 1 \in B, NEW k \in i..n PROVE G(k)[i] = G(n)[i]
      OBVIOUS
    <3>1. /\ G(k)[i] = IF i = 0 THEN a ELSE F[<<i, G(k)[i - 1]>>]
          /\ G(n)[i] = IF i = 0 THEN a ELSE F[<<i, G(n)[i - 1]>>]
      BY <1>3
    <3>2. i # 0 => G(k)[i - 1] = G(n)[i - 1]
      OBVIOUS
    <3> QED
      BY <3>1, <3>2
  <2>2. 0..n \subseteq B
    <3>1. 0..n \in SUBSET Nat /\ \A i \in 0..n : i # 0 => i - 1 \in 0..n
      OBVIOUS
    <3> HIDE DEF B
    <3> QED
      BY <2>1, <3>1, Induction
  <2> QED
    BY <2>2
<1>5. PICK f : f = [n \in Nat |-> G(n)[n]]
  OBVIOUS
<1>6. f \in [Nat -> S]
  BY <1>3, <1>5
<1>7. ASSUME NEW n \in Nat PROVE f[n] = IF n = 0 THEN a ELSE F[<<n, f[n - 1]>>]
  <2>1. G(n)[n] = IF n = 0 THEN a ELSE F[<<n, G(n)[n - 1]>>]
    BY <1>3
  <2>2. n # 0 => n - 1 \in Nat /\ n - 1 \in 0..n
    OBVIOUS
  <2>3. n # 0 => G(n)[n - 1] = G(n - 1)[n - 1]
    BY <1>4, <2>2
  <2>4. f[n] = G(n)[n] /\ (n # 0 => f[n - 1] = G(n - 1)[n - 1])
    BY <1>5, <2>2
  <2> QED
    BY <2>1, <2>3, <2>4
<1> QED
  BY <1>6, <1>7 DEF Recursive

(* The same for a first part of the numbers.                               *)
LEMMA Recursion ==
  ASSUME NEW D \in SUBSET Nat, \A n \in D : n # 0 => n - 1 \in D,
         NEW S, NEW a \in S, NEW F \in [Nat \X S -> S]
  PROVE  \E f \in [D -> S] : Recursive(f, D, a, F)
<1>1. PICK g \in [Nat -> S] : Recursive(g, Nat, a, F)
  BY RecursionOnNat
<1>2. \A n \in Nat : g[n] = IF n = 0 THEN a ELSE F[<<n, g[n - 1]>>]
  BY <1>1 DEF Recursive
<1>3. PICK f : f = [n \in D |-> g[n]]
  OBVIOUS
<1>4. f \in [D -> S]
  BY <1>3
<1>5. \A n \in D : f[n] = IF n = 0 THEN a ELSE F[<<n, f[n - 1]>>]
  BY <1>2, <1>3
<1> QED
  BY <1>4, <1>5 DEF Recursive

(* Powers of two.                                                          *)
LEMMA Pow2Is ==
  /\ Pow2 \in [Nat -> Nat \ {0}]
  /\ Pow2[0] = 1
  /\ \A n \in Nat : Pow2[n + 1] = 2 * Pow2[n]
<1> DEFINE S == Nat \ {0}
<1>1. PICK F : F = [p \in Nat \X S |-> 2 * p[2]]
  OBVIOUS
<1>2. F \in [Nat \X S -> S] /\ \A n \in Nat, k \in S : F[<<n, k>>] = 2 * k
  BY <1>1
<1>3. PICK f \in [Nat -> S] : Recursive(f, Nat, 1, F)
  <2> HIDE DEF S
  <2>1. 1 \in S
    BY DEF S
  <2> QED
    BY <1>2, <2>1, RecursionOnNat
<1>4. f = [n \in Nat |-> IF n = 0 THEN 1 ELSE 2 * f[n - 1]]
  BY <1>2, <1>3 DEF Recursive
<1>5. Pow2 = [n \in Nat |-> IF n = 0 THEN 1 ELSE 2 * Pow2[n - 1]]
  BY <1>4 DEF Pow2
<1>6. \A n \in Nat : n = 0 \/ Pow2[n - 1] \in S => Pow2[n] \in S
  BY <1>5
<1>7. \A n \in Nat : Pow2[n] \in S
  <2> DEFINE A == {n \in Nat : Pow2[n] \in S}
  <2>1. \A n \in Nat : n = 0 \/ n - 1 \in A => n \in A
    BY <1>6
  <2>2. Nat \in SUBSET Nat /\ \A n \in Nat : n # 0 => n - 1 \in Nat
    OBVIOUS
  <2> HIDE DEF A
  <2>3. Nat \subseteq A
    BY <2>1, <2>2, Induction
  <2> QED
    BY <2>3 DEF A
<1>8. Pow2 \in [Nat -> S]
  <2>1. Pow2 = [n \in Nat |-> Pow2[n]]
    BY <1>5
  <2> QED
    BY <1>7, <2>1
<1>9. ASSUME NEW n \in Nat PROVE Pow2[n + 1] = 2 * Pow2[n]
  BY <1>5, n + 1 \in Nat, (n + 1) - 1 = n, n + 1 # 0
<1> QED
  BY <1>5, <1>8, <1>9

LEMMA Pow2Sum ==
  ASSUME NEW a \in Nat, NEW b \in Nat
  PROVE  Pow2[a + b] = Pow2[a] * Pow2[b]
<1> DEFINE A == {n \in Nat : Pow2[a + n] = Pow2[a] * Pow2[n]}
<1>1. ASSUME NEW n \in Nat, n = 0 \/ n - 1 \in A PROVE n \in A
  <2>1. CASE n = 0
    BY <2>1, Pow2Is
  <2>2. CASE n # 0
    <3>1. n - 1 \in Nat /\ a + (n - 1) \in Nat /\ (a + (n - 1)) + 1 = a + n /\ (n - 1) + 1 = n
      BY <2>2
    <3>2. Pow2[a + n] = 2 * Pow2[a + (n - 1)] /\ Pow2[n] = 2 * Pow2[n - 1]
      BY <3>1, Pow2Is
    <3>3. Pow2[a + (n - 1)] = Pow2[a] * Pow2[n - 1]
      BY <1>1, <2>2
    <3>4. Pow2[a] \in Nat /\ Pow2[n - 1] \in Nat
      BY <3>1, Pow2Is
    <3> QED
      BY <3>2, <3>3, <3>4
  <2> QED
    BY <2>1, <2>2
<1>2. Nat \in SUBSET Nat /\ \A n \in Nat : n # 0 => n - 1 \in Nat
  OBVIOUS
<1> HIDE DEF A
<1>3. Nat \subseteq A
  BY <1>1, <1>2, Induction
<1> QED
  BY <1>3 DEF A

LEMMA Pow2Grows ==
  ASSUME NEW a \in Nat, NEW b \in Nat, a < b
  PROVE  \E k \in Nat \ {0} : Pow2[b] = 2 * Pow2[a] * k
<1>1. PICK c \in Nat : b = (a + 1) + c
  <2>1. b - (a + 1) \in Nat /\ b = (a + 1) + (b - (a + 1))
    OBVIOUS
  <2> QED
    BY <2>1
<1>2. Pow2[b] = Pow2[a + 1] * Pow2[c]
  BY <1>1, a + 1 \in Nat, Pow2Sum
<1>3. Pow2[a + 1] = 2 * Pow2[a] /\ Pow2[c] \in Nat \ {0}
  BY Pow2Is
<1> QED
  BY <1>2, <1>3

LEMMA Sizes ==
  /\ Narrow \in Nat /\ Word \in Nat /\ Narrow > 1 /\ Narrow < Word
  /\ \E k \in Nat \ {0} : Word = Narrow * (2 * k)
  /\ \E k \in Nat \ {0} : Narrow = 2 * k
<1>1. PICK k \in Nat \ {0} : Word = 2 * Narrow * k
  BY ValuesAssumption, Pow2Grows DEF Word, Narrow
<1>2. PICK j \in Nat \ {0} : Narrow = 2 * Pow2[0] * j
  BY ValuesAssumption, 0 < NarrowBits, Pow2Grows DEF Narrow
<1>3. Pow2[0] = 1 /\ Narrow \in Nat /\ Word \in Nat
  BY ValuesAssumption, Pow2Is DEF Narrow, Word
<1>4. Narrow = 2 * j
  BY <1>2, <1>3
<1>5. Word = Narrow * (2 * k) /\ Narrow < Word
  BY <1>1, <1>3, <1>4
<1> QED
  BY <1>3, <1>4, <1>5

-----------------------------------------------------------------------------
(* Numbers that differ by a multiple of m.                                 *)
Congruent(x, y, m) == \E k \in Int : x = y + m * k

LEMMA DivUnique ==
  ASSUME NEW x \in Int, NEW m \in Nat \ {0}, NEW q \in Int, NEW r \in 0..(m - 1), x = m * q + r
  PROVE  x % m = r /\ x \div m = q
OBVIOUS

LEMMA DivMod ==
  ASSUME NEW x \in Int, NEW m \in Nat \ {0}
  PROVE  /\ x % m \in 0..(m - 1) /\ x \div m \in Int
         /\ x = m * (x \div m) + (x % m)
OBVIOUS

LEMMA ModCongruent ==
  ASSUME NEW x \in Int, NEW m \in Nat \ {0}
  PROVE  Congruent(x, x % m, m) /\ Congruent(x % m, x, m)
<1>1. PICK q \in Int, r \in 0..(m - 1) : q = x \div m /\ r = x % m /\ x = m * q + r
  BY DivMod
<1>2. x = r + m * q /\ r = x + m * (-q) /\ -q \in Int
  BY <1>1
<1> QED
  BY <1>1, <1>2 DEF Congruent

LEMMA CongruentMod ==
  ASSUME NEW x \in Int, NEW y \in Int, NEW m \in Nat \ {0}
  PROVE  Congruent(x, y, m) <=> x % m = y % m
<1>1. PICK q \in Int, r \in 0..(m - 1) : r = y % m /\ y = m * q + r
  BY DivMod
<1>2. ASSUME Congruent(x, y, m) PROVE x % m = y % m
  <2>1. PICK k \in Int : x = y + m * k
    BY <1>2 DEF Congruent
  <2>2. x = m * (q + k) + r /\ q + k \in Int
    BY <1>1, <2>1
  <2>3. x % m = r
    BY <2>2, DivUnique
  <2> QED
    BY <1>1, <2>3
<1>3. ASSUME x % m = y % m PROVE Congruent(x, y, m)
  <2>1. PICK p \in Int : x = m * p + r
    <3>1. x = m * (x \div m) + (x % m) /\ x \div m \in Int
      BY DivMod
    <3> QED
      BY <1>1, <1>3, <3>1
  <2>2. x = y + m * (p - q) /\ p - q \in Int
    BY <1>1, <2>1
  <2> QED
    BY <2>2 DEF Congruent
<1> QED
  BY <1>2, <1>3

LEMMA CongruentSelf ==
  ASSUME NEW x \in Int, NEW m \in Nat \ {0}
  PROVE  Congruent(x, x, m)
BY CongruentMod

LEMMA CongruentArithmetic ==
  ASSUME NEW x \in Int, NEW y \in Int, NEW u \in Int, NEW v \in Int, NEW m \in Nat \ {0},
         Congruent(x, u, m), Congruent(y, v, m)
  PROVE  Congruent(x + y, u + v, m) /\ Congruent(x - y, u - v, m) /\ Congruent(x * y, u * v, m)
<1>1. PICK j \in Int : x = u + m * j
  BY DEF Congruent
<1>2. PICK k \in Int : y = v + m * k
  BY DEF Congruent
<1>3. x + y = (u + v) + m * (j + k) /\ j + k \in Int
  BY <1>1, <1>2
<1>4. x - y = (u - v) + m * (j - k) /\ j - k \in Int
  BY <1>1, <1>2
<1>5. x * y = u * v + m * (u * k + j * v + m * j * k)
  BY <1>1, <1>2
<1>6. u * k + j * v + m * j * k \in Int
  OBVIOUS
<1> QED
  BY <1>3, <1>4, <1>5, <1>6 DEF Congruent

(* A word wrapped to a register is what it was in its narrow part.         *)
LEMMA WrapCongruent ==
  ASSUME NEW x \in Int
  PROVE  Congruent(Wrap(x, Word), x, Narrow) /\ Wrap(x, Word) \in 0..(Word - 1)
<1>1. PICK k \in Nat \ {0} : Word = Narrow * (2 * k)
  BY Sizes
<1>2. Word \in Nat \ {0} /\ Narrow \in Nat \ {0}
  BY Sizes
<1>3. PICK q \in Int, r \in 0..(Word - 1) : r = x % Word /\ x = Word * q + r
  BY <1>2, DivMod
<1>4. r = x + Narrow * ((2 * k) * (-q)) /\ (2 * k) * (-q) \in Int
  <2>1. Word * q = Narrow * ((2 * k) * q)
    BY <1>1, <1>2
  <2> QED
    BY <1>2, <1>3, <2>1
<1> QED
  BY <1>3, <1>4 DEF Congruent, Wrap

-----------------------------------------------------------------------------
(* Bits.                                                                   *)
LEMMA BitType ==
  ASSUME NEW x \in Int, NEW i \in Nat
  PROVE  Bit(x, i) \in {0, 1}
<1>1. Pow2[i] \in Nat \ {0}
  BY Pow2Is
<1>2. x \div Pow2[i] \in Int
  BY <1>1, DivMod
<1>3. (x \div Pow2[i]) % 2 \in 0..(2 - 1)
  BY <1>2, DivMod
<1> QED
  BY <1>3 DEF Bit

(* The bits below n follow from the number modulo 2^n.                     *)
LEMMA LowBit ==
  ASSUME NEW x \in Int, NEW y \in Int, NEW n \in Nat, NEW i \in Nat, i < n, Congruent(x, y, Pow2[n])
  PROVE  Bit(x, i) = Bit(y, i)
<1>1. PICK k \in Int : x = y + Pow2[n] * k
  BY DEF Congruent
<1>2. PICK c \in Nat \ {0} : Pow2[n] = 2 * Pow2[i] * c
  BY Pow2Grows
<1>3. PICK P \in Nat \ {0} : P = Pow2[i]
  BY Pow2Is
<1>4. PICK q \in Int, r \in 0..(P - 1) : q = y \div P /\ y = P * q + r
  BY DivMod
<1>5. PICK h \in Int : h = c * k
  OBVIOUS
<1>6. x = P * (q + 2 * h) + r /\ q + 2 * h \in Int
  <2>1. Pow2[n] * k = P * (2 * h)
    BY <1>2, <1>3, <1>5
  <2>2. P * (q + 2 * h) = P * q + P * (2 * h)
    OBVIOUS
  <2>3. x = (P * q + r) + P * (2 * h)
    BY <1>1, <1>4, <2>1
  <2>4. P * q \in Int /\ P * (2 * h) \in Int
    OBVIOUS
  <2> QED
    BY <2>2, <2>3, <2>4
<1>7. x \div P = q + 2 * h
  BY <1>6, DivUnique
<1>8. Congruent(q + 2 * h, q, 2)
  BY DEF Congruent
<1>9. (q + 2 * h) % 2 = q % 2
  BY <1>8, q + 2 * h \in Int, CongruentMod
<1> QED
  BY <1>3, <1>4, <1>7, <1>9 DEF Bit

(* What bit i adds to the result of a bitwise operation.                   *)
BitResult(op, x, y, m, i) ==
  IF Pow2[i] < m /\ BitHolds(op, Bit(x, i), Bit(y, i)) THEN Pow2[i] ELSE 0

LowResults(low, op, x, y, m) ==
  /\ low \in [0..WordBits -> Nat] /\ low[0] = 0
  /\ \A n \in 1..WordBits : low[n] = low[n - 1] + BitResult(op, x, y, m, n - 1)
  /\ Bits(op, x, y, m) = low[WordBits]

LEMMA BitsIs ==
  ASSUME NEW op, NEW x \in Int, NEW y \in Int, NEW m \in Nat
  PROVE  \E low : LowResults(low, op, x, y, m)
<1> DEFINE D == 0..WordBits
           Term(i) == BitResult(op, x, y, m, i)
<1>1. \A i \in Nat : Term(i) \in Nat
  BY Pow2Is DEF BitResult
<1>2. PICK F : F = [p \in Nat \X Nat |-> IF p[1] = 0 THEN 0 ELSE p[2] + Term(p[1] - 1)]
  OBVIOUS
<1>3. /\ F \in [Nat \X Nat -> Nat]
      /\ \A n \in Nat \ {0}, k \in Nat : F[<<n, k>>] = k + Term(n - 1)
  <2> HIDE DEF Term
  <2>1. \A n \in Nat : n # 0 => Term(n - 1) \in Nat
    BY <1>1
  <2> QED
    BY <1>2, <2>1
<1>4. D \in SUBSET Nat /\ \A n \in D : n # 0 => n - 1 \in D
  BY ValuesAssumption
<1>5. PICK f \in [D -> Nat] : Recursive(f, D, 0, F)
  <2> HIDE DEF D
  <2> QED
    BY <1>3, <1>4, Recursion
<1> DEFINE Follows(g) == g = [n \in D |-> IF n = 0 THEN 0 ELSE g[n - 1] + Term(n - 1)]
<1>6. Follows(f)
  <2>1. \A n \in D : f[n] = IF n = 0 THEN 0 ELSE F[<<n, f[n - 1]>>]
    BY <1>5 DEF Recursive
  <2>2. \A n \in D : n # 0 => f[n - 1] \in Nat /\ n \in Nat \ {0}
    BY <1>4
  <2> HIDE DEF Term, D
  <2>3. \A n \in D : f[n] = IF n = 0 THEN 0 ELSE f[n - 1] + Term(n - 1)
    BY <1>3, <2>1, <2>2
  <2> QED
    BY <2>3
<1>7. PICK low : low = CHOOSE g : Follows(g)
  OBVIOUS
<1>8. Bits(op, x, y, m) = low[WordBits]
  BY <1>7 DEF Bits, BitResult
<1>9. Follows(low)
  <2> HIDE DEF Follows
  <2> QED
    BY <1>6, <1>7
<1> HIDE DEF Term
<1>10. \A n \in D : low[n] = IF n = 0 THEN 0 ELSE low[n - 1] + Term(n - 1)
  BY <1>9
<1>11. \A n \in D : low[n] \in Nat
  <2> DEFINE A == {n \in D : low[n] \in Nat}
  <2>1. \A n \in D : n = 0 \/ n - 1 \in A => n \in A
    <3> SUFFICES ASSUME NEW n \in D, n = 0 \/ n - 1 \in A PROVE low[n] \in Nat
      OBVIOUS
    <3>1. n # 0 => Term(n - 1) \in Nat
      BY <1>1
    <3> QED
      BY <1>10, <3>1
  <2> HIDE DEF A
  <2>2. D \subseteq A
    BY <1>4, <2>1, Induction
  <2> QED
    BY <2>2 DEF A
<1>12. low \in [0..WordBits -> Nat]
  <2>1. low = [n \in D |-> low[n]]
    BY <1>9
  <2> QED
    BY <1>11, <2>1
<1>13. low[0] = 0 /\ \A n \in 1..WordBits : low[n] = low[n - 1] + Term(n - 1)
  BY <1>10, ValuesAssumption
<1> QED
  BY <1>8, <1>12, <1>13 DEF LowResults, Term

(* Larger exponents give larger powers, and only they.                     *)
LEMMA Pow2Order ==
  ASSUME NEW a \in Nat, NEW b \in Nat
  PROVE  Pow2[a] < Pow2[b] <=> a < b
<1>1. Pow2[a] \in Nat \ {0} /\ Pow2[b] \in Nat \ {0}
  BY Pow2Is
<1>2. CASE a < b
  <2>1. PICK k \in Nat \ {0} : Pow2[b] = 2 * Pow2[a] * k
    BY <1>2, Pow2Grows
  <2>2. Pow2[b] > Pow2[a]
    BY <1>1, <2>1
  <2> QED
    BY <1>2, <2>2
<1>3. CASE b < a
  <2>1. PICK k \in Nat \ {0} : Pow2[a] = 2 * Pow2[b] * k
    BY <1>3, Pow2Grows
  <2>2. Pow2[a] > Pow2[b]
    BY <1>1, <2>1
  <2> QED
    BY <1>1, <1>3, <2>2
<1>4. CASE a = b
  BY <1>1, <1>4
<1> QED
  BY <1>2, <1>3, <1>4

(* The low n bits of a result of b bits are below 2^n, and below 2^b.      *)
LEMMA LowBound ==
  ASSUME NEW op, NEW x \in Int, NEW y \in Int, NEW b \in Nat, NEW low, LowResults(low, op, x, y, Pow2[b]),
         NEW n \in 0..WordBits
  PROVE  low[n] < Pow2[n] /\ low[n] < Pow2[b]
<1> DEFINE D == 0..WordBits
           A == {k \in D : low[k] < Pow2[k] /\ low[k] < Pow2[b]}
<1>1. ASSUME NEW k \in D, k = 0 \/ k - 1 \in A PROVE k \in A
  <2>1. CASE k = 0
    <3>1. low[0] = 0 /\ Pow2[0] > 0 /\ Pow2[b] > 0
      BY Pow2Is DEF LowResults
    <3> QED
      BY <2>1, <3>1
  <2>2. CASE k # 0
    <3>1. k - 1 \in Nat /\ k \in Nat /\ k \in 1..WordBits /\ (k - 1) + 1 = k /\ k - 1 \in D
      BY <2>2, ValuesAssumption
    <3>2. Pow2[k] = 2 * Pow2[k - 1] /\ Pow2[k - 1] \in Nat /\ Pow2[k] \in Nat /\ Pow2[b] \in Nat
      BY <3>1, Pow2Is
    <3>3. low[k - 1] < Pow2[k - 1] /\ low[k - 1] < Pow2[b]
      BY <1>1, <2>2
    <3>4. low[k] = low[k - 1] + BitResult(op, x, y, Pow2[b], k - 1) /\ low[k - 1] \in Nat /\ low[k] \in Nat
      BY <3>1 DEF LowResults
    <3>5. CASE Pow2[k - 1] < Pow2[b]
      <4>1. k - 1 < b
        BY <3>1, <3>5, Pow2Order
      <4>2. k < b \/ k = b
        BY <3>1, <4>1
      <4>3. Pow2[k] <= Pow2[b]
        BY <3>1, <3>2, <4>2, Pow2Order
      <4>4. BitResult(op, x, y, Pow2[b], k - 1) \in {0, Pow2[k - 1]}
        BY DEF BitResult
      <4> QED
        BY <3>2, <3>3, <3>4, <4>3, <4>4
    <3>6. CASE ~(Pow2[k - 1] < Pow2[b])
      <4>1. BitResult(op, x, y, Pow2[b], k - 1) = 0
        BY <3>6 DEF BitResult
      <4> QED
        BY <3>2, <3>3, <3>4, <4>1
    <3> QED
      BY <3>5, <3>6
  <2> QED
    BY <2>1, <2>2
<1>2. D \in SUBSET Nat /\ \A k \in D : k # 0 => k - 1 \in D
  BY ValuesAssumption
<1> HIDE DEF A
<1>3. D \subseteq A
  BY <1>1, <1>2, Induction
<1> QED
  BY <1>3 DEF A

LEMMA BitsBound ==
  ASSUME NEW op, NEW x \in Int, NEW y \in Int, NEW b \in Nat
  PROVE  Bits(op, x, y, Pow2[b]) \in 0..(Pow2[b] - 1)
<1>1. Pow2[b] \in Nat
  BY Pow2Is
<1>2. PICK low : LowResults(low, op, x, y, Pow2[b])
  BY <1>1, BitsIs
<1>3. WordBits \in 0..WordBits
  BY ValuesAssumption
<1>4. low[WordBits] < Pow2[b]
  BY <1>2, <1>3, LowBound
<1>5. Bits(op, x, y, Pow2[b]) = low[WordBits] /\ low[WordBits] \in Nat
  BY <1>2, <1>3 DEF LowResults
<1> QED
  BY <1>1, <1>4, <1>5

(* The low part of a bitwise result follows from the low parts.            *)
LEMMA BitsCongruent ==
  ASSUME NEW op \in {"and", "or", "xor"}, NEW x \in Int, NEW y \in Int, NEW u \in Int, NEW v \in Int,
         Congruent(x, u, Narrow), Congruent(y, v, Narrow)
  PROVE  Congruent(Bits(op, x, y, Word), Bits(op, u, v, Narrow), Narrow)
<1>1. Narrow \in Nat \ {0} /\ Word \in Nat /\ NarrowBits \in Nat /\ WordBits \in Nat
  BY Sizes, ValuesAssumption
<1>2. PICK wide : LowResults(wide, op, x, y, Word)
  BY <1>1, BitsIs
<1>3. PICK low : LowResults(low, op, u, v, Narrow)
  BY <1>1, BitsIs
<1> DEFINE D == 0..WordBits
           A == {n \in D : Congruent(wide[n], low[n], Narrow)}
<1>4. ASSUME NEW n \in 1..WordBits
      PROVE  Congruent(BitResult(op, x, y, Word, n - 1), BitResult(op, u, v, Narrow, n - 1), Narrow)
  <2>1. n - 1 \in Nat /\ n - 1 < WordBits
    BY <1>1
  <2>2. Pow2[n - 1] < Word
    BY <1>1, <2>1, Pow2Order DEF Word
  <2>3. CASE n - 1 < NarrowBits
    <3>1. Pow2[n - 1] < Narrow
      BY <1>1, <2>1, <2>3, Pow2Order DEF Narrow
    <3>2. Bit(x, n - 1) = Bit(u, n - 1) /\ Bit(y, n - 1) = Bit(v, n - 1)
      BY <1>1, <2>1, <2>3, LowBit DEF Narrow
    <3>3. BitResult(op, x, y, Word, n - 1) = BitResult(op, u, v, Narrow, n - 1)
      BY <2>2, <3>1, <3>2 DEF BitResult
    <3>4. BitResult(op, u, v, Narrow, n - 1) \in Int
      BY <2>1, Pow2Is DEF BitResult
    <3> QED
      BY <1>1, <3>3, <3>4, CongruentMod
  <2>4. CASE ~(n - 1 < NarrowBits)
    <3>1. ~(Pow2[n - 1] < Narrow)
      BY <1>1, <2>1, <2>4, Pow2Order DEF Narrow
    <3>2. BitResult(op, u, v, Narrow, n - 1) = 0
      BY <3>1 DEF BitResult
    <3>3. PICK k \in Nat : Pow2[n - 1] = Narrow * k
      <4>1. (n - 1) - NarrowBits \in Nat /\ NarrowBits + ((n - 1) - NarrowBits) = n - 1
        BY <1>1, <2>1, <2>4
      <4>2. Pow2[n - 1] = Narrow * Pow2[(n - 1) - NarrowBits]
        BY <1>1, <4>1, Pow2Sum DEF Narrow
      <4>3. Pow2[(n - 1) - NarrowBits] \in Nat
        BY <4>1, Pow2Is
      <4> QED
        BY <4>2, <4>3
    <3>4. BitResult(op, x, y, Word, n - 1) \in {0, Pow2[n - 1]}
      BY DEF BitResult
    <3>5. \E j \in Int : BitResult(op, x, y, Word, n - 1) = Narrow * j
      BY <1>1, <3>3, <3>4, 0 = Narrow * 0
    <3>6. PICK j \in Int : BitResult(op, x, y, Word, n - 1) = Narrow * j
      BY <3>5
    <3>7. BitResult(op, x, y, Word, n - 1) = 0 + Narrow * j
      BY <1>1, <3>6
    <3> QED
      BY <3>2, <3>7 DEF Congruent
  <2> QED
    BY <2>3, <2>4
<1>5. ASSUME NEW n \in D, n = 0 \/ n - 1 \in A PROVE n \in A
  <2>1. CASE n = 0
    <3>1. wide[0] = 0 /\ low[0] = 0
      BY <1>2, <1>3 DEF LowResults
    <3>2. Congruent(0, 0, Narrow)
      BY <1>1, CongruentMod
    <3> QED
      BY <2>1, <3>1, <3>2
  <2>2. CASE n # 0
    <3>1. n \in 1..WordBits /\ n - 1 \in D /\ n \in D /\ n - 1 \in Nat
      BY <1>1, <2>2
    <3>2. Congruent(wide[n - 1], low[n - 1], Narrow)
      BY <1>5, <2>2
    <3>3. /\ wide[n] = wide[n - 1] + BitResult(op, x, y, Word, n - 1)
          /\ low[n] = low[n - 1] + BitResult(op, u, v, Narrow, n - 1)
      BY <1>2, <1>3, <3>1 DEF LowResults
    <3>4. wide[n - 1] \in Int /\ low[n - 1] \in Int
      BY <1>2, <1>3, <3>1 DEF LowResults
    <3>5. BitResult(op, x, y, Word, n - 1) \in Int /\ BitResult(op, u, v, Narrow, n - 1) \in Int
      BY <3>1, Pow2Is DEF BitResult
    <3>6. Congruent(BitResult(op, x, y, Word, n - 1), BitResult(op, u, v, Narrow, n - 1), Narrow)
      BY <1>4, <3>1
    <3>7. Congruent(wide[n - 1] + BitResult(op, x, y, Word, n - 1),
                    low[n - 1] + BitResult(op, u, v, Narrow, n - 1), Narrow)
      BY <1>1, <3>2, <3>4, <3>5, <3>6, CongruentArithmetic
    <3> QED
      BY <3>1, <3>3, <3>7
  <2> QED
    BY <2>1, <2>2
<1>6. D \in SUBSET Nat /\ \A n \in D : n # 0 => n - 1 \in D
  BY <1>1
<1>7. D \subseteq A
  <2> HIDE DEF A
  <2> QED
    BY <1>5, <1>6, Induction
<1>8. Congruent(wide[WordBits], low[WordBits], Narrow)
  BY <1>1, <1>7
<1> QED
  BY <1>2, <1>3, <1>8 DEF LowResults

-----------------------------------------------------------------------------
(* Powers: squaring gives what multiplying gives.                          *)
Powers(Q, b) ==
  /\ Q \in [Nat -> 0..(Word - 1)] /\ Q[0] = 1
  /\ \A n \in Nat : Q[n + 1] = (Q[n] * b) % Word

LEMMA PowersExist ==
  ASSUME NEW b \in Nat
  PROVE  \E Q : Powers(Q, b)
<1> DEFINE S == 0..(Word - 1)
<1>1. Word \in Nat \ {0} /\ 1 \in S
  BY Sizes
<1>2. PICK F : F = [p \in Nat \X S |-> (p[2] * b) % Word]
  OBVIOUS
<1>3. \A n \in Nat, k \in S : F[<<n, k>>] = (k * b) % Word
  BY <1>2
<1>4. F \in [Nat \X S -> S]
  <2>1. \A k \in S : (k * b) % Word \in S
    BY <1>1, DivMod
  <2> QED
    BY <1>2, <2>1
<1>5. PICK f \in [Nat -> S] : Recursive(f, Nat, 1, F)
  <2> HIDE DEF S
  <2> QED
    BY <1>1, <1>4, RecursionOnNat
<1>6. \A n \in Nat : f[n] = IF n = 0 THEN 1 ELSE F[<<n, f[n - 1]>>]
  BY <1>5 DEF Recursive
<1>7. ASSUME NEW n \in Nat PROVE f[n + 1] = (f[n] * b) % Word
  <2>1. n + 1 \in Nat /\ n + 1 # 0 /\ (n + 1) - 1 = n /\ f[n] \in S
    BY <1>5
  <2>2. f[n + 1] = F[<<n + 1, f[n]>>]
    BY <1>6, <2>1
  <2> QED
    BY <1>3, <2>1, <2>2
<1>8. f[0] = 1
  BY <1>6
<1> QED
  BY <1>5, <1>7, <1>8 DEF Powers

(* A factor reduced to a word gives the same product.                      *)
LEMMA TimesMod ==
  ASSUME NEW x \in Nat, NEW y \in Nat
  PROVE  ((x % Word) * y) % Word = (x * y) % Word /\ (x * (y % Word)) % Word = (x * y) % Word
<1>1. Word \in Nat \ {0}
  BY Sizes
<1>2. PICK w \in Nat \ {0} : w = Word
  BY <1>1
<1>3. x \in Int /\ y \in Int
  OBVIOUS
<1>4. PICK u \in Int : u = x % w
  BY <1>3, DivMod
<1>5. PICK v \in Int : v = y % w
  BY <1>3, DivMod
<1>6. Congruent(u, x, w) /\ Congruent(v, y, w)
  BY <1>3, <1>4, <1>5, ModCongruent
<1>7. Congruent(x, x, w) /\ Congruent(y, y, w)
  BY <1>3, CongruentMod
<1>8. Congruent(u * y, x * y, w) /\ Congruent(x * v, x * y, w)
  BY <1>3, <1>6, <1>7, CongruentArithmetic
<1>9. u * y \in Int /\ x * v \in Int /\ x * y \in Int
  BY <1>3
<1>10. (u * y) % w = (x * y) % w /\ (x * v) % w = (x * y) % w
  BY <1>8, <1>9, CongruentMod
<1> QED
  BY <1>2, <1>4, <1>5, <1>10

LEMMA PowersAdd ==
  ASSUME NEW b \in Nat, NEW Q, Powers(Q, b), NEW i \in Nat, NEW j \in Nat
  PROVE  Q[i + j] = (Q[i] * Q[j]) % Word
<1>1. Word \in Nat \ {0}
  BY Sizes
<1> DEFINE A == {n \in Nat : Q[i + n] = (Q[i] * Q[n]) % Word}
<1>2. ASSUME NEW n \in Nat, n = 0 \/ n - 1 \in A PROVE n \in A
  <2>1. CASE n = 0
    <3>1. Q[i] \in 0..(Word - 1) /\ Q[0] = 1 /\ i + 0 = i
      BY DEF Powers
    <3>2. Q[i] = Word * 0 + Q[i] /\ Q[i] * 1 = Q[i]
      BY <1>1, <3>1
    <3>3. Q[i] % Word = Q[i]
      BY <1>1, <3>1, <3>2, DivUnique
    <3> QED
      BY <2>1, <3>1, <3>2, <3>3
  <2>2. CASE n # 0
    <3>1. PICK k \in Nat : n = k + 1 /\ Q[i + k] = (Q[i] * Q[k]) % Word
      <4>1. n - 1 \in Nat /\ n = (n - 1) + 1 /\ Q[i + (n - 1)] = (Q[i] * Q[n - 1]) % Word
        BY <1>2, <2>2
      <4> QED
        BY <4>1
    <3>2. Q[i] \in Nat /\ Q[k] \in Nat /\ i + k \in Nat /\ i + n = (i + k) + 1
      BY <1>1, <3>1 DEF Powers
    <3>3. Q[n] = (Q[k] * b) % Word /\ Q[i + n] = (Q[i + k] * b) % Word
      BY <3>1, <3>2 DEF Powers
    <3>4. PICK u \in Nat, v \in Nat : u = Q[i] * Q[k] /\ v = Q[k] * b
      BY <3>2
    <3>5. ((u % Word) * b) % Word = (u * b) % Word
      BY TimesMod
    <3>6. (Q[i] * (v % Word)) % Word = (Q[i] * v) % Word
      BY <3>2, TimesMod
    <3>7. u * b = Q[i] * v
      BY <3>2, <3>4
    <3> QED
      BY <3>1, <3>3, <3>4, <3>5, <3>6, <3>7
  <2> QED
    BY <2>1, <2>2
<1>3. Nat \in SUBSET Nat /\ \A n \in Nat : n # 0 => n - 1 \in Nat
  OBVIOUS
<1> HIDE DEF A
<1>4. Nat \subseteq A
  BY <1>2, <1>3, Induction
<1> QED
  BY <1>4 DEF A

LEMMA PowerIs ==
  ASSUME NEW b \in Nat, NEW e \in Nat, NEW Q, Powers(Q, b)
  PROVE  Power(b, e, Word) = Q[e]
<1> DEFINE D == 0..e
           Follows(g) == g = [i \in D |-> IF i = 0 THEN 1 ELSE (g[i - 1] * b) % Word]
<1>1. D \in SUBSET Nat /\ \A n \in D : n # 0 => n - 1 \in D
  OBVIOUS
<1>2. PICK q : q = [i \in D |-> Q[i]]
  OBVIOUS
<1>3. ASSUME NEW i \in D PROVE q[i] = IF i = 0 THEN 1 ELSE (q[i - 1] * b) % Word
  <2>1. i # 0 => i - 1 \in Nat /\ (i - 1) + 1 = i /\ i - 1 \in D
    OBVIOUS
  <2>2. i # 0 => Q[i] = (Q[i - 1] * b) % Word
    BY <2>1 DEF Powers
  <2>3. q[i] = Q[i] /\ (i # 0 => q[i - 1] = Q[i - 1]) /\ Q[0] = 1
    BY <1>2, <2>1 DEF Powers
  <2> QED
    BY <2>2, <2>3
<1>4. Follows(q)
  BY <1>2, <1>3
<1>5. PICK times : times = CHOOSE g : Follows(g)
  OBVIOUS
<1>6. Power(b, e, Word) = times[e]
  BY <1>5 DEF Power
<1>7. Follows(times)
  <2> HIDE DEF Follows
  <2> QED
    BY <1>4, <1>5
<1> DEFINE A == {i \in D : times[i] = q[i]}
<1>8. ASSUME NEW i \in D, i = 0 \/ i - 1 \in A PROVE i \in A
  <2>1. times[i] = IF i = 0 THEN 1 ELSE (times[i - 1] * b) % Word
    BY <1>7
  <2>2. i # 0 => times[i - 1] = q[i - 1]
    BY <1>8
  <2> QED
    BY <1>3, <2>1, <2>2
<1> HIDE DEF A, D
<1>9. D \subseteq A
  BY <1>1, <1>8, Induction
<1>10. e \in D
  BY DEF D
<1> QED
  BY <1>2, <1>6, <1>9, <1>10 DEF A

(* The rest after i + 1 bits.                                              *)
LEMMA NextBit ==
  ASSUME NEW e \in Nat, NEW i \in Nat
  PROVE  e % Pow2[i + 1] = (IF Bit(e, i) = 1 THEN (e % Pow2[i]) + Pow2[i] ELSE e % Pow2[i])
<1>1. PICK P \in Nat \ {0} : P = Pow2[i] /\ Pow2[i + 1] = 2 * P
  BY Pow2Is
<1>2. PICK q \in Int, r \in 0..(P - 1) : q = e \div P /\ r = e % P /\ e = P * q + r
  BY DivMod
<1>3. PICK h \in Int, c \in 0..1 : c = q % 2 /\ q = 2 * h + c
  <2>1. q % 2 \in 0..(2 - 1) /\ q \div 2 \in Int /\ q = 2 * (q \div 2) + (q % 2)
    BY DivMod
  <2> QED
    BY <2>1
<1>4. e = (2 * P) * h + (c * P + r)
  <2>1. P * q = (2 * P) * h + c * P
    BY <1>3
  <2>2. (2 * P) * h \in Int /\ c * P \in Int
    OBVIOUS
  <2> QED
    BY <1>2, <2>1, <2>2
<1>5. c * P + r \in 0..((2 * P) - 1)
  <2>1. c = 0 \/ c = 1
    OBVIOUS
  <2>2. CASE c = 0
    BY <2>2
  <2>3. CASE c = 1
    BY <2>3
  <2> QED
    BY <2>1, <2>2, <2>3
<1>6. e % (2 * P) = c * P + r
  <2>1. PICK m, x : m = 2 * P /\ x = c * P + r
    OBVIOUS
  <2>2. m \in Nat \ {0} /\ x \in 0..(m - 1) /\ e = m * h + x
    BY <1>4, <1>5, <2>1
  <2>3. e % m = x
    BY <2>2, DivUnique
  <2> QED
    BY <2>1, <2>3
<1>7. Bit(e, i) = c
  BY <1>1, <1>2, <1>3 DEF Bit
<1>8. CASE c = 0
  <2>1. e % (2 * P) = r
    BY <1>6, <1>8
  <2> QED
    BY <1>1, <1>2, <1>7, <1>8, <2>1
<1>9. CASE c = 1
  <2>1. e % (2 * P) = r + P
    BY <1>6, <1>9
  <2> QED
    BY <1>1, <1>2, <1>7, <1>9, <2>1
<1> QED
  BY <1>8, <1>9

(* ipow: squaring for each bit of the exponent computes the same word as   *)
(* multiplying as often as the exponent says, for every width.             *)
THEOREM IpowIsPower ==
  ASSUME NEW b \in 0..(Word - 1), NEW e \in 0..(Word - 1)
  PROVE  Ipow(b, e) = Power(b, e, Word) /\ Ipow(b, e) \in 0..(Word - 1)
<1>1. Word \in Nat \ {0} /\ b \in Nat /\ e \in Nat
  BY Sizes
<1>2. PICK Q : Powers(Q, b)
  BY <1>1, PowersExist
<1> DEFINE D == 0..WordBits
           Step(i, p) == <<IF Bit(e, i - 1) = 1 THEN (p[1] * p[2]) % Word ELSE p[1], (p[2] * p[2]) % Word>>
           Follows(g) == g = [i \in D |-> IF i = 0 THEN <<1, b>> ELSE Step(i, g[i - 1])]
           At(i) == <<Q[e % Pow2[i]], Q[Pow2[i]]>>
<1>3. D \in SUBSET Nat /\ \A n \in D : n # 0 => n - 1 \in D
  BY ValuesAssumption
<1>4. ASSUME NEW i \in Nat PROVE At(i + 1) = Step(i + 1, At(i))
  <2>1. PICK P \in Nat : P = Pow2[i] /\ Pow2[i + 1] = 2 * P /\ P # 0
    BY Pow2Is
  <2>2. PICK r \in Nat : r = e % P
    <3>1. e \in Int /\ P \in Nat \ {0}
      BY <1>1, <2>1
    <3>2. e % P \in 0..(P - 1)
      BY <3>1, DivMod
    <3> QED
      BY <3>2
  <2>3. Q[P + P] = (Q[P] * Q[P]) % Word /\ Q[r + P] = (Q[r] * Q[P]) % Word
    BY <1>1, <1>2, PowersAdd
  <2>4. e % Pow2[i + 1] = (IF Bit(e, i) = 1 THEN r + P ELSE r)
    BY <1>1, <2>1, <2>2, NextBit
  <2>5. Q[Pow2[i + 1]] = (Q[P] * Q[P]) % Word
    BY <2>1, <2>3, P + P = 2 * P
  <2>6. Q[e % Pow2[i + 1]] = (IF Bit(e, i) = 1 THEN (Q[r] * Q[P]) % Word ELSE Q[r])
    BY <2>3, <2>4
  <2>7. (i + 1) - 1 = i /\ At(i)[1] = Q[r] /\ At(i)[2] = Q[P]
    BY <2>1, <2>2
  <2> QED
    BY <2>5, <2>6, <2>7
<1>5. At(0) = <<1, b>>
  <2>1. Pow2[0] = 1 /\ e % 1 = 0
    BY <1>1, Pow2Is
  <2>2. Q[0] = 1 /\ Q[1] = (1 * b) % Word
    BY <1>2, 0 + 1 = 1 DEF Powers
  <2>3. b = Word * 0 + b /\ 1 * b = b
    BY <1>1
  <2>4. b % Word = b
    BY <1>1, <2>3, DivUnique
  <2> QED
    BY <2>1, <2>2, <2>3, <2>4
<1>6. PICK q : q = [i \in D |-> At(i)]
  OBVIOUS
<1>7. \A i \in D : q[i] = IF i = 0 THEN <<1, b>> ELSE Step(i, q[i - 1])
  <2> SUFFICES ASSUME NEW i \in D PROVE q[i] = IF i = 0 THEN <<1, b>> ELSE Step(i, q[i - 1])
    OBVIOUS
  <2>1. i # 0 => i - 1 \in Nat /\ (i - 1) + 1 = i /\ i - 1 \in D
    BY <1>3
  <2>2. i # 0 => At(i) = Step(i, At(i - 1))
    <3> HIDE DEF At, Step
    <3> QED
      BY <1>4, <2>1
  <2> HIDE DEF At, Step, D
  <2>3. q[i] = At(i) /\ (i # 0 => q[i - 1] = At(i - 1))
    BY <1>6, <2>1
  <2> QED
    BY <1>5, <2>2, <2>3
<1>8. Follows(q)
  <2> HIDE DEF At, Step, D
  <2> QED
    BY <1>6, <1>7
<1>9. PICK loop : loop = CHOOSE g : Follows(g)
  OBVIOUS
<1>10. Ipow(b, e) = loop[WordBits][1]
  BY <1>9 DEF Ipow
<1>11. Follows(loop)
  <2> HIDE DEF Follows
  <2> QED
    BY <1>8, <1>9
<1> DEFINE A == {i \in D : loop[i] = q[i]}
<1>12. ASSUME NEW i \in D, i = 0 \/ i - 1 \in A PROVE i \in A
  <2> HIDE DEF Step
  <2>1. loop[i] = IF i = 0 THEN <<1, b>> ELSE Step(i, loop[i - 1])
    BY <1>11
  <2>2. i # 0 => loop[i - 1] = q[i - 1]
    BY <1>12
  <2> QED
    BY <1>7, <2>1, <2>2
<1>13. D \subseteq A
  <2> HIDE DEF A, D
  <2> QED
    BY <1>3, <1>12, Induction
<1>14. WordBits \in D
  BY ValuesAssumption
<1>15. loop[WordBits] = At(WordBits)
  BY <1>6, <1>13, <1>14
<1>16. e % Word = e
  BY <1>1, e = Word * 0 + e, DivUnique
<1>17. Ipow(b, e) = Q[e]
  BY <1>10, <1>15, <1>16 DEF Word
<1>18. Power(b, e, Word) = Q[e]
  BY <1>1, <1>2, PowerIs
<1> QED
  BY <1>1, <1>2, <1>17, <1>18 DEF Powers

-----------------------------------------------------------------------------
(* A register and the value it stands for.                                 *)
Kinds == {"narrow", "word"}
Stands(w, x, t) == w \in 0..(Word - 1) /\ w % Modulus(t) = x

LEMMA ModulusIs ==
  ASSUME NEW t \in Kinds
  PROVE  /\ Modulus(t) \in Nat \ {0} /\ Modulus(t) <= Word
         /\ \E c \in Nat \ {0} : Word = Modulus(t) * c
<1>1. CASE t = "narrow"
  <2>1. PICK k \in Nat \ {0} : Word = Narrow * (2 * k)
    BY Sizes
  <2>2. 2 * k \in Nat \ {0} /\ Modulus(t) = Narrow /\ Narrow \in Nat \ {0} /\ Narrow <= Word
    BY <1>1, Sizes DEF Modulus
  <2> QED
    BY <2>1, <2>2
<1>2. CASE t = "word"
  <2>1. Modulus(t) = Word /\ Word \in Nat \ {0} /\ Word = Word * 1
    BY <1>2, Sizes DEF Modulus
  <2> QED
    BY <2>1
<1> QED
  BY <1>1, <1>2 DEF Kinds

LEMMA SmallMod ==
  ASSUME NEW m \in Nat \ {0}, NEW x \in 0..(m - 1)
  PROVE  x % m = x
<1>1. x = m * 0 + x /\ x \in Int
  OBVIOUS
<1> QED
  BY <1>1, DivUnique

LEMMA StandsFor ==
  ASSUME NEW t \in Kinds, NEW w, NEW x, Stands(w, x, t)
  PROVE  /\ w \in Int /\ x \in Int /\ w \in 0..(Word - 1)
         /\ x \in 0..(Modulus(t) - 1) /\ x \in 0..(Word - 1)
         /\ Congruent(w, x, Modulus(t))
         /\ t = "word" => w = x
<1>1. Modulus(t) \in Nat \ {0} /\ Modulus(t) <= Word /\ Word \in Nat \ {0}
  BY ModulusIs, Sizes
<1>2. w \in 0..(Word - 1) /\ w \in Int /\ x = w % Modulus(t)
  BY <1>1 DEF Stands
<1>3. x \in 0..(Modulus(t) - 1) /\ Congruent(w, x, Modulus(t))
  BY <1>1, <1>2, DivMod, ModCongruent
<1>4. x \in 0..(Word - 1) /\ x \in Int
  BY <1>1, <1>3
<1>5. t = "word" => w % Modulus(t) = w
  BY <1>1, <1>2, SmallMod DEF Modulus
<1> QED
  BY <1>2, <1>3, <1>4, <1>5

(* A register that is wrapped stands for the value that is.                *)
LEMMA WrapStands ==
  ASSUME NEW t \in Kinds, NEW a \in Int, NEW b \in Int, Congruent(a, b, Modulus(t))
  PROVE  Stands(Wrap(a, Word), Wrap(b, Modulus(t)), t)
<1>1. Narrow \in Nat \ {0} /\ Word \in Nat \ {0}
  BY Sizes
<1>2. Wrap(a, Word) \in 0..(Word - 1) /\ Congruent(Wrap(a, Word), a, Narrow)
  BY WrapCongruent
<1>3. Wrap(a, Word) \in Int
  BY <1>1, <1>2
<1>4. CASE t = "narrow"
  <2>1. Wrap(a, Word) % Narrow = a % Narrow
    BY <1>1, <1>2, <1>3, CongruentMod
  <2>2. a % Narrow = b % Narrow
    BY <1>1, <1>4, CongruentMod DEF Modulus
  <2> QED
    BY <1>2, <1>4, <2>1, <2>2 DEF Stands, Modulus, Wrap
<1>5. CASE t = "word"
  <2>1. a % Word = b % Word
    BY <1>1, <1>5, CongruentMod DEF Modulus
  <2>2. Wrap(a, Word) % Word = Wrap(a, Word)
    BY <1>1, <1>2, SmallMod
  <2> QED
    BY <1>2, <1>5, <2>1, <2>2 DEF Stands, Modulus, Wrap
<1> QED
  BY <1>4, <1>5 DEF Kinds

(* A value in its range stands for itself.                                 *)
LEMMA ValueStands ==
  ASSUME NEW t \in Kinds, NEW x \in 0..(Modulus(t) - 1)
  PROVE  Stands(x, x, t)
<1>1. Modulus(t) \in Nat \ {0} /\ Modulus(t) <= Word /\ Word \in Nat
  BY ModulusIs, Sizes
<1>2. x % Modulus(t) = x /\ x \in 0..(Word - 1)
  BY <1>1, SmallMod
<1> QED
  BY <1>2 DEF Stands

(* ---- the operations ---------------------------------------------------- *)
LEMMA ConstStands ==
  ASSUME NEW t \in Kinds, NEW x \in 0..(Modulus(t) - 1), NEW r \in 0..(Word - 1), t = "narrow",
         NEW w \in {x, Sext(x, Narrow), r - (r % Narrow) + x}
  PROVE  Stands(w, x, t)
<1>1. Narrow \in Nat \ {0} /\ Word \in Nat \ {0} /\ Modulus(t) = Narrow /\ x \in Int /\ r \in Int
  BY Sizes DEF Modulus
<1>2. CASE w = x
  BY <1>2, ValueStands
<1>3. CASE w = Sext(x, Narrow)
  <2>1. x % Narrow = x
    BY <1>1, SmallMod
  <2>2. Signed(x, Narrow) = x \/ Signed(x, Narrow) = x + Narrow * (-1)
    BY <1>1 DEF Signed
  <2>3. Signed(x, Narrow) \in Int
    BY <1>1, <2>2
  <2>4. Congruent(Signed(x, Narrow), x, Narrow)
    <3>1. \E k \in {0, -1} : Signed(x, Narrow) = x + Narrow * k
      BY <1>1, <2>2
    <3> QED
      BY <3>1 DEF Congruent
  <2>5. Stands(Wrap(Signed(x, Narrow), Word), Wrap(x, Narrow), t)
    BY <1>1, <2>3, <2>4, WrapStands
  <2> QED
    BY <1>3, <2>1, <2>5 DEF Sext, Wrap
<1>4. CASE w = r - (r % Narrow) + x
  <2>1. PICK q \in Int, s \in 0..(Narrow - 1) : q = r \div Narrow /\ s = r % Narrow /\ r = Narrow * q + s
    <3>1. /\ r % Narrow \in 0..(Narrow - 1) /\ r \div Narrow \in Int
          /\ r = Narrow * (r \div Narrow) + (r % Narrow)
      BY <1>1, DivMod
    <3> QED
      BY <3>1
  <2>2. w = Narrow * q + x
    BY <1>1, <1>4, <2>1
  <2>3. w % Narrow = x
    <3>1. w \in Int
      BY <1>1, <2>2
    <3> QED
      BY <1>1, <2>2, <3>1, DivUnique
  <2>4. w \in 0..(Word - 1)
    <3>1. PICK c \in Nat \ {0} : Word = Narrow * c
      BY <1>1, ModulusIs
    <3>2. q >= 0 /\ q < c
      BY <1>1, <2>1, <3>1
    <3>3. Narrow * q >= 0 /\ Narrow * q + Narrow <= Narrow * c
      <4>1. Narrow * q + Narrow = Narrow * (q + 1) /\ q + 1 <= c
        BY <1>1, <3>2
      <4> QED
        BY <1>1, <3>2, <4>1
    <3> QED
      BY <1>1, <2>2, <3>1, <3>3
  <2> QED
    BY <1>1, <2>3, <2>4 DEF Stands
<1> QED
  BY <1>2, <1>3, <1>4

LEMMA AddStands ==
  ASSUME NEW t \in Kinds, NEW w, NEW x, Stands(w, x, t), NEW i \in Int
  PROVE  Stands(Wrap(w + i, Word), Wrap(x + i, Modulus(t)), t)
<1>1. w \in Int /\ x \in Int /\ Congruent(w, x, Modulus(t)) /\ Modulus(t) \in Nat \ {0}
  BY StandsFor, ModulusIs
<1>2. Congruent(i, i, Modulus(t))
  BY <1>1, CongruentSelf
<1>3. Congruent(w + i, x + i, Modulus(t)) /\ w + i \in Int /\ x + i \in Int
  BY <1>1, <1>2, CongruentArithmetic
<1> QED
  BY <1>3, WrapStands

LEMMA NegStands ==
  ASSUME NEW t \in Kinds, NEW w, NEW x, Stands(w, x, t)
  PROVE  Stands(Wrap(-w, Word), Wrap(-x, Modulus(t)), t)
<1>1. w \in Int /\ x \in Int /\ Congruent(w, x, Modulus(t)) /\ Modulus(t) \in Nat \ {0}
  BY StandsFor, ModulusIs
<1>2. Congruent(0 - w, 0 - x, Modulus(t)) /\ 0 - w = -w /\ 0 - x = -x /\ -w \in Int /\ -x \in Int
  BY <1>1, CongruentMod, CongruentArithmetic
<1>3. Congruent(-w, -x, Modulus(t))
  BY <1>2
<1> QED
  BY <1>2, <1>3, WrapStands

LEMMA NotStands ==
  ASSUME NEW t \in Kinds, NEW w, NEW x, Stands(w, x, t)
  PROVE  Stands(Word - 1 - w, Modulus(t) - 1 - x, t)
<1>1. PICK m \in Nat \ {0} : m = Modulus(t)
  BY ModulusIs
<1>2. PICK c \in Nat \ {0} : Word = m * c
  BY <1>1, ModulusIs
<1>3. w \in 0..(Word - 1) /\ x \in 0..(m - 1) /\ Congruent(w, x, m)
  BY <1>1, StandsFor
<1>4. PICK k \in Int : w = x + m * k
  BY <1>3 DEF Congruent
<1>5. Word - 1 - w \in 0..(Word - 1) /\ Word - 1 - w \in Int
  BY <1>3, Sizes
<1>6. Word - 1 - w = m * ((c - 1) - k) + (m - 1 - x)
  <2>1. m * ((c - 1) - k) = m * c - m - m * k
    OBVIOUS
  <2>2. m * c \in Int /\ m * k \in Int /\ x \in Int
    BY <1>3
  <2> QED
    BY <1>2, <1>4, <2>1, <2>2
<1>7. m - 1 - x \in 0..(m - 1) /\ (c - 1) - k \in Int
  BY <1>3
<1>8. (Word - 1 - w) % m = m - 1 - x
  BY <1>5, <1>6, <1>7, DivUnique
<1> QED
  BY <1>1, <1>5, <1>8 DEF Stands

(* Operations whose low bits follow from low bits.                         *)
LEMMA LowOpStands ==
  ASSUME NEW t \in Kinds, NEW w, NEW x, Stands(w, x, t), NEW u, NEW y, Stands(u, y, t), NEW op \in LowOps
  PROVE  Stands(Instruction(op, w, u), Result(op, x, y, Modulus(t)), t)
<1>1. /\ w \in Int /\ x \in Int /\ Congruent(w, x, Modulus(t)) /\ Modulus(t) \in Nat \ {0}
      /\ u \in Int /\ y \in Int /\ Congruent(u, y, Modulus(t))
  BY StandsFor, ModulusIs
<1>2. /\ Congruent(w + u, x + y, Modulus(t)) /\ Congruent(w - u, x - y, Modulus(t))
      /\ Congruent(w * u, x * y, Modulus(t))
  BY <1>1, CongruentArithmetic
<1>3. w + u \in Int /\ w - u \in Int /\ w * u \in Int /\ x + y \in Int /\ x - y \in Int /\ x * y \in Int
  BY <1>1
<1>4. /\ Stands(Wrap(w + u, Word), Wrap(x + y, Modulus(t)), t)
      /\ Stands(Wrap(w - u, Word), Wrap(x - y, Modulus(t)), t)
      /\ Stands(Wrap(w * u, Word), Wrap(x * y, Modulus(t)), t)
  BY <1>2, <1>3, WrapStands
<1>5. CASE op = "add"
  BY <1>4, <1>5 DEF Instruction, Result
<1>6. CASE op = "sub"
  BY <1>4, <1>6 DEF Instruction, Result
<1>7. CASE op \in {"mul", "imul"}
  BY <1>4, <1>7 DEF Instruction, Result
<1>8. CASE op \in {"and", "or", "xor"}
  <2>1. Instruction(op, w, u) = Bits(op, w, u, Word) /\ Result(op, x, y, Modulus(t)) = Bits(op, x, y, Modulus(t))
    BY <1>8 DEF Instruction, Result
  <2>2. Bits(op, w, u, Word) \in 0..(Word - 1)
    BY <1>1, ValuesAssumption, BitsBound DEF Word
  <2>3. CASE t = "word"
    <3>1. w = x /\ u = y /\ Modulus(t) = Word
      BY <2>3, StandsFor DEF Modulus
    <3> QED
      BY <2>1, <2>2, <2>3, <3>1, ValueStands
  <2>4. CASE t = "narrow"
    <3>1. Modulus(t) = Narrow /\ Narrow \in Nat \ {0} /\ Word \in Nat
      BY <2>4, Sizes DEF Modulus
    <3>2. Congruent(Bits(op, w, u, Word), Bits(op, x, y, Narrow), Narrow)
      BY <1>1, <1>8, <3>1, BitsCongruent
    <3>3. Bits(op, x, y, Narrow) \in 0..(Narrow - 1)
      BY <1>1, ValuesAssumption, BitsBound DEF Narrow
    <3>4. Bits(op, w, u, Word) % Narrow = Bits(op, x, y, Narrow) % Narrow
      BY <2>2, <3>1, <3>2, <3>3, CongruentMod
    <3>5. Bits(op, x, y, Narrow) % Narrow = Bits(op, x, y, Narrow)
      BY <3>1, <3>3, SmallMod
    <3> QED
      BY <2>1, <2>2, <3>1, <3>4, <3>5 DEF Stands
  <2> QED
    BY <2>3, <2>4 DEF Kinds
<1> QED
  BY <1>5, <1>6, <1>7, <1>8 DEF LowOps

LEMMA ShiftStands ==
  ASSUME NEW t \in Kinds, NEW w, NEW x, Stands(w, x, t), NEW u, NEW y, Stands(u, y, t),
         Defined("lsl", x, y, Modulus(t))
  PROVE  Stands(Instruction("lsl", w, u), Result("lsl", x, y, Modulus(t)), t)
<1>1. /\ w \in Int /\ x \in Int /\ Congruent(w, x, Modulus(t)) /\ Modulus(t) \in Nat \ {0}
      /\ u \in Int /\ y \in Nat
  BY StandsFor, ModulusIs
<1>2. y < WordBits
  BY DEF Defined
<1>3. u % Narrow = y
  <2>1. CASE t = "narrow"
    BY <2>1 DEF Stands, Modulus
  <2>2. CASE t = "word"
    <3>1. u = y
      BY <2>2, StandsFor
    <3>2. Narrow \in Nat \ {0} /\ y \in 0..(Narrow - 1)
      BY <1>1, <1>2, ValuesAssumption, Sizes
    <3> QED
      BY <3>1, <3>2, SmallMod
  <2> QED
    BY <2>1, <2>2 DEF Kinds
<1>4. PICK p \in Nat : p = Pow2[y]
  BY <1>1, Pow2Is
<1>5. Congruent(p, p, Modulus(t))
  BY <1>1, CongruentSelf
<1>6. Congruent(w * p, x * p, Modulus(t)) /\ w * p \in Int /\ x * p \in Int
  BY <1>1, <1>5, CongruentArithmetic
<1>7. Stands(Wrap(w * p, Word), Wrap(x * p, Modulus(t)), t)
  BY <1>6, WrapStands
<1> QED
  BY <1>3, <1>4, <1>7 DEF Instruction, Result

LEMMA DivLess ==
  ASSUME NEW x \in Nat, NEW m \in Nat \ {0}
  PROVE  x \div m \in 0..x
<1>1. PICK q \in Int, r \in 0..(m - 1) : q = x \div m /\ x = m * q + r
  BY x \in Int, DivMod
<1>2. q >= 0
  BY <1>1
<1>3. m * q >= q
  BY <1>2
<1> QED
  BY <1>1, <1>2, <1>3

(* Words: the machine's operation is the language's, in range.             *)
LEMMA QuotientType ==
  ASSUME NEW x \in Int, NEW y \in Int \ {0}
  PROVE  Quotient(x, y) \in Int
<1>1. PICK p \in Int, q \in Nat \ {0} : p = (IF x < 0 THEN -x ELSE x) /\ q = (IF y < 0 THEN -y ELSE y)
  OBVIOUS
<1>2. p \div q \in Int
  BY DivMod
<1> QED
  BY <1>1, <1>2 DEF Quotient

LEMMA WholeOpStands ==
  ASSUME NEW x \in 0..(Word - 1), NEW y \in 0..(Word - 1), NEW op \in WholeOps,
         Defined(op, x, y, Word), op \in Divisions => y # 0
  PROVE  Stands(Instruction(op, x, y), Result(op, x, y, Word), "word")
<1>1. x \in Nat /\ y \in Nat /\ Word \in Nat \ {0} /\ Modulus("word") = Word /\ "word" \in Kinds
  BY Sizes DEF Modulus, Kinds
<1> SUFFICES Instruction(op, x, y) = Result(op, x, y, Word) /\ Result(op, x, y, Word) \in 0..(Word - 1)
  BY <1>1, ValueStands
<1>2. CASE op = "lsr"
  <2>1. y < WordBits
    BY <1>2 DEF Defined
  <2>2. Narrow \in Nat \ {0} /\ y \in 0..(Narrow - 1)
    BY <1>1, <2>1, ValuesAssumption, Sizes
  <2>3. y % Narrow = y
    BY <2>2, SmallMod
  <2>4. PICK p \in Nat \ {0} : p = Pow2[y]
    BY <1>1, Pow2Is
  <2>5. x \div p \in 0..x
    BY <1>1, DivLess
  <2> QED
    BY <1>1, <1>2, <2>3, <2>4, <2>5 DEF Instruction, Result
<1>3. CASE op = "pow"
  <2>1. Ipow(x, y) = Power(x, y, Word) /\ Ipow(x, y) \in 0..(Word - 1)
    BY IpowIsPower
  <2> QED
    BY <1>3, <2>1 DEF Instruction, Result
<1>4. CASE op = "div"
  <2>1. y \in Nat \ {0}
    BY <1>1, <1>4 DEF Divisions
  <2>2. x \div y \in 0..x
    BY <1>1, <2>1, DivLess
  <2> QED
    BY <1>1, <1>4, <2>2 DEF Instruction, Result
<1>5. CASE op = "mod"
  <2>1. y \in Nat \ {0}
    BY <1>1, <1>5 DEF Divisions
  <2>2. x % y \in 0..(y - 1)
    BY <1>1, <2>1, DivMod
  <2> QED
    BY <1>1, <1>5, <2>2 DEF Instruction, Result
<1>6. CASE op \in {"idiv", "imod"}
  <2>1. y # 0
    BY <1>6 DEF Divisions
  <2>2. Signed(x, Word) \in Int /\ Signed(y, Word) \in Int \ {0}
    BY <1>1, <2>1 DEF Signed
  <2>3. PICK q \in Int : q = Quotient(Signed(x, Word), Signed(y, Word))
    BY <2>2, QuotientType
  <2>4. Signed(x, Word) - Signed(y, Word) * q \in Int
    BY <2>2
  <2>5. Wrap(q, Word) \in 0..(Word - 1) /\ Wrap(Signed(x, Word) - Signed(y, Word) * q, Word) \in 0..(Word - 1)
    BY <2>4, WrapCongruent
  <2> QED
    BY <1>6, <2>3, <2>5 DEF Instruction, Result
<1> QED
  BY <1>2, <1>3, <1>4, <1>5, <1>6 DEF WholeOps, Divisions

(* ---- extensions and comparisons ---------------------------------------- *)
LEMMA SignedWrap ==
  ASSUME NEW s \in Int, -Word <= 2 * s, 2 * s < Word
  PROVE  Signed(Wrap(s, Word), Word) = s
<1>1. Word \in Nat \ {0}
  BY Sizes
<1>2. CASE s >= 0
  <2>1. s \in 0..(Word - 1)
    BY <1>1, <1>2
  <2>2. s % Word = s
    BY <1>1, <2>1, SmallMod
  <2> QED
    BY <1>1, <2>2 DEF Signed, Wrap
<1>3. CASE s < 0
  <2>1. s + Word \in 0..(Word - 1) /\ s = Word * (-1) + (s + Word)
    BY <1>1, <1>3
  <2>2. s % Word = s + Word
    BY <1>1, <2>1, DivUnique
  <2> QED
    BY <1>1, <1>3, <2>2 DEF Signed, Wrap
<1> QED
  BY <1>2, <1>3

(* A narrow register extended by its sign, and by zeros.                   *)
LEMMA SextStands ==
  ASSUME NEW w, NEW x, Stands(w, x, "narrow")
  PROVE  /\ Stands(Sext(w, Narrow), x, "narrow") /\ Sext(w, Narrow) = Sext(x, Narrow)
         /\ Signed(Sext(w, Narrow), Word) = Signed(x, Narrow)
<1>1. Narrow \in Nat \ {0} /\ Word \in Nat \ {0} /\ Modulus("narrow") = Narrow /\ "narrow" \in Kinds
  BY Sizes DEF Modulus, Kinds
<1>2. x \in 0..(Narrow - 1) /\ x \in Int /\ w % Narrow = x /\ x \in 0..(Word - 1)
  BY <1>1, StandsFor DEF Stands
<1>3. x % Narrow = x
  BY <1>1, <1>2, SmallMod
<1>4. Sext(w, Narrow) = Sext(x, Narrow) /\ Sext(x, Narrow) = Wrap(Signed(x, Narrow), Word)
  BY <1>2, <1>3 DEF Sext
<1>5. Stands(Sext(x, Narrow), x, "narrow")
  BY <1>1, <1>2, 0 \in 0..(Word - 1), ConstStands
<1>6. PICK k \in Nat \ {0} : Word = Narrow * (2 * k)
  BY Sizes
<1>7. 2 * Narrow <= Word
  BY <1>1, <1>6
<1>8. Signed(x, Narrow) \in Int /\ -Word <= 2 * Signed(x, Narrow) /\ 2 * Signed(x, Narrow) < Word
  BY <1>1, <1>2, <1>7 DEF Signed
<1> QED
  BY <1>4, <1>5, <1>8, SignedWrap

LEMMA ZextStands ==
  ASSUME NEW w, NEW x, Stands(w, x, "narrow")
  PROVE  Stands(Zext(w, Narrow), x, "narrow") /\ Zext(w, Narrow) = x
<1>1. Modulus("narrow") = Narrow /\ "narrow" \in Kinds
  BY DEF Modulus, Kinds
<1>2. x \in 0..(Modulus("narrow") - 1) /\ Zext(w, Narrow) = x
  BY <1>1, StandsFor DEF Stands, Zext
<1> QED
  BY <1>1, <1>2, ValueStands

(* UCMP: the signed comparison of words, turned round when exactly one of  *)
(* them has its top bit set.                                               *)
LEMMA TopBit ==
  ASSUME NEW x \in 0..(Word - 1)
  PROVE  Bit(x, WordBits - 1) = (IF 2 * x >= Word THEN 1 ELSE 0)
<1>1. WordBits - 1 \in Nat /\ (WordBits - 1) + 1 = WordBits
  BY ValuesAssumption
<1>2. PICK h \in Nat \ {0} : h = Pow2[WordBits - 1] /\ Word = 2 * h
  BY <1>1, Pow2Is DEF Word
<1>3. CASE x < h
  <2>1. x = h * 0 + x /\ x \in 0..(h - 1) /\ x \in Int
    BY <1>2, <1>3
  <2>2. x \div h = 0
    BY <2>1, DivUnique
  <2> QED
    BY <1>2, <1>3, <2>1, <2>2 DEF Bit
<1>4. CASE x >= h
  <2>1. x = h * 1 + (x - h) /\ x - h \in 0..(h - 1) /\ x \in Int
    BY <1>2, <1>4
  <2>2. x \div h = 1
    BY <2>1, DivUnique
  <2> QED
    BY <1>2, <1>4, <2>1, <2>2 DEF Bit
<1> QED
  BY <1>2, <1>3, <1>4

LEMMA UnsignedAnswer ==
  ASSUME NEW op \in {"lt", "le", "gt", "ge"}, NEW x \in 0..(Word - 1), NEW y \in 0..(Word - 1)
  PROVE  (IF Bit(x, WordBits - 1) # Bit(y, WordBits - 1)
          THEN 1 - Flag(Holds(op, Signed(x, Word), Signed(y, Word)))
          ELSE Flag(Holds(op, Signed(x, Word), Signed(y, Word)))) = Flag(Holds(op, x, y))
<1>1. Word \in Nat
  BY Sizes
<1>2. /\ Bit(x, WordBits - 1) = (IF 2 * x >= Word THEN 1 ELSE 0)
      /\ Bit(y, WordBits - 1) = (IF 2 * y >= Word THEN 1 ELSE 0)
  BY TopBit
<1>3. CASE op = "lt"
  BY <1>1, <1>2, <1>3 DEF Flag, Holds, Signed
<1>4. CASE op = "le"
  BY <1>1, <1>2, <1>4 DEF Flag, Holds, Signed
<1>5. CASE op = "gt"
  BY <1>1, <1>2, <1>5 DEF Flag, Holds, Signed
<1>6. CASE op = "ge"
  BY <1>1, <1>2, <1>6 DEF Flag, Holds, Signed
<1> QED
  BY <1>3, <1>4, <1>5, <1>6

(* ---- memory ------------------------------------------------------------ *)
LEMMA PlaceIs ==
  ASSUME NEW i \in Fields
  PROVE  Place(i) \in Nat \ {0} /\ \E c \in Nat \ {0} : Word = (Place(i) * Narrow) * c
<1>1. PICK a \in Nat \ {0} : a = NarrowBits
  BY ValuesAssumption
<1>2. PICK q \in Int, r \in 0..(a - 1) : q = WordBits \div a /\ WordBits = a * q + r
  <2>1. WordBits \in Int
    BY ValuesAssumption
  <2> QED
    BY <2>1, DivMod
<1>3. i \in Nat /\ i + 1 <= q
  BY <1>1, <1>2 DEF Fields
<1>4. a * (i + 1) <= WordBits
  <2>1. PICK d \in Nat : q = (i + 1) + d
    <3>1. q - (i + 1) \in Nat /\ q = (i + 1) + (q - (i + 1))
      BY <1>2, <1>3
    <3> QED
      BY <3>1
  <2>2. a * q = a * (i + 1) + a * d /\ a * d >= 0 /\ a * (i + 1) \in Int /\ a * d \in Int
    BY <1>3, <2>1
  <2> QED
    BY <1>2, <2>2, ValuesAssumption
<1>5. PICK p \in Nat : p = a * i /\ a * (i + 1) = p + a
  BY <1>3
<1>6. PICK d \in Nat : WordBits = (p + a) + d
  <2>1. WordBits - (p + a) \in Nat /\ WordBits = (p + a) + (WordBits - (p + a))
    BY <1>4, <1>5, ValuesAssumption
  <2> QED
    BY <2>1
<1>7. Pow2[(p + a) + d] = Pow2[p + a] * Pow2[d] /\ Pow2[p + a] = Pow2[p] * Pow2[a]
  BY p + a \in Nat, Pow2Sum
<1>8. Pow2[p] \in Nat \ {0} /\ Pow2[d] \in Nat \ {0}
  BY Pow2Is
<1>9. Place(i) = Pow2[p] /\ Narrow = Pow2[a] /\ Word = Pow2[(p + a) + d]
  BY <1>1, <1>5, <1>6 DEF Place, Narrow, Word
<1> QED
  BY <1>7, <1>8, <1>9

LEMMA FieldIs ==
  ASSUME NEW w \in Nat, NEW i \in Fields
  PROVE  Field(w, i) \in 0..(Narrow - 1)
<1>1. PICK p \in Nat \ {0} : p = Place(i)
  BY PlaceIs
<1>2. w \div p \in Int
  BY w \in Int, DivMod
<1>3. Narrow \in Nat \ {0}
  BY Sizes
<1>4. (w \div p) % Narrow \in 0..(Narrow - 1)
  BY <1>2, <1>3, DivMod
<1> QED
  BY <1>1, <1>4 DEF Field

LEMMA PutFieldIs ==
  ASSUME NEW w \in 0..(Word - 1), NEW i \in Fields, NEW x \in 0..(Narrow - 1)
  PROVE  PutField(w, i, x) \in 0..(Word - 1)
<1>1. PICK p \in Nat \ {0} : p = Place(i)
  BY PlaceIs
<1>2. PICK n \in Nat \ {0} : n = Narrow
  BY Sizes
<1>3. PICK c \in Nat \ {0} : Word = (p * n) * c
  BY <1>1, <1>2, PlaceIs
<1>4. w \in Int /\ w >= 0 /\ w < Word /\ Word \in Nat
  BY Sizes
<1>5. PICK q \in Int, r \in 0..(p - 1) : q = w \div p /\ w = p * q + r
  BY <1>4, DivMod
<1>6. PICK h \in Int, f \in 0..(n - 1) : f = q % n /\ q = n * h + f
  BY DivMod
<1>7. PutField(w, i, x) = w - f * p + x * p
  BY <1>1, <1>2, <1>5, <1>6 DEF PutField, Field
<1>8. PICK m \in Nat \ {0} : m = p * n
  OBVIOUS
<1>9. w = m * h + f * p + r
  <2>1. p * q = p * (n * h) + p * f /\ p * (n * h) = m * h
    BY <1>6, <1>8
  <2> QED
    BY <1>5, <2>1
<1>10. f * p >= 0 /\ f * p + r < m /\ x * p >= 0 /\ x * p + r < m /\ f * p \in Int /\ x * p \in Int
  <2>1. \A k \in 0..(n - 1) : k * p >= 0 /\ k * p + p <= m /\ k * p \in Int
    <3> SUFFICES ASSUME NEW k \in 0..(n - 1) PROVE k * p >= 0 /\ k * p + p <= m /\ k * p \in Int
      OBVIOUS
    <3>1. PICK d \in Nat : n = (k + 1) + d
      <4>1. n - (k + 1) \in Nat /\ n = (k + 1) + (n - (k + 1))
        OBVIOUS
      <4> QED
        BY <4>1
    <3>2. m = (k * p + p) + d * p /\ d * p >= 0 /\ k * p >= 0 /\ k * p \in Int /\ d * p \in Int
      BY <1>8, <3>1
    <3> QED
      BY <3>2
  <2>2. x \in 0..(n - 1)
    BY <1>2
  <2> QED
    BY <2>1, <2>2
<1>11. m * h \in Int /\ m * c \in Int /\ Word = m * c
  BY <1>3, <1>8
<1>12. h >= 0 /\ h < c
  <2>1. m * h + m > 0
    BY <1>4, <1>9, <1>10, <1>11
  <2>2. m * h < m * c
    BY <1>4, <1>9, <1>10, <1>11
  <2>3. m * (h + 1) > 0 /\ m * (c - h) > 0
    BY <2>1, <2>2
  <2>4. h + 1 > 0 /\ c - h > 0
    BY <2>3
  <2> QED
    BY <2>4
<1>13. m * h >= 0 /\ m * h + m <= m * c
  <2>1. PICK d \in Nat : c = (h + 1) + d
    <3>1. c - (h + 1) \in Nat /\ c = (h + 1) + (c - (h + 1))
      BY <1>12
    <3> QED
      BY <3>1
  <2>2. m * c = (m * h + m) + m * d /\ m * d >= 0 /\ m * h >= 0 /\ m * d \in Int
    BY <1>12, <2>1
  <2> QED
    BY <1>11, <2>2
<1>14. PutField(w, i, x) = m * h + x * p + r
  BY <1>4, <1>7, <1>9, <1>10, <1>11
<1> QED
  BY <1>10, <1>11, <1>13, <1>14

-----------------------------------------------------------------------------
(* The invariant: registers and memory are words, the values are in the    *)
(* ranges of their types, and Represents; this is inductive because each   *)
(* operation is given operands that stand for its values and nothing else  *)
(* is known of the bits above.                                             *)
Words == /\ reg \in [Vars -> 0..(Word - 1)] /\ typ \in [Vars -> Kinds] /\ val \in [Vars -> 0..(Word - 1)]
         /\ truth \in BOOLEAN /\ obj \in 0..(Word - 1)

IInv == Words /\ Represents /\ mode \in {"run", "panic"}

LEMMA InvStands ==
  ASSUME IInv, NEW v \in Vars
  PROVE  Stands(reg[v], val[v], typ[v]) /\ typ[v] \in Kinds
BY DEF IInv, Words, Represents, Stands

(* What is assigned a value it stands for keeps the invariant.             *)
LEMMA SetKeeps ==
  ASSUME IInv, NEW d \in Vars, NEW t \in Kinds, NEW x, NEW w, Stands(w, x, t), Set(d, t, x, w)
  PROVE  IInv'
<1>1. w \in 0..(Word - 1) /\ x \in 0..(Word - 1) /\ w % Modulus(t) = x
  BY StandsFor DEF Stands
<1>2. Words'
  BY <1>1 DEF Set, IInv, Words
<1>3. ASSUME NEW v \in Vars PROVE reg'[v] % Modulus(typ'[v]) = val'[v]
  <2>1. CASE v = d
    <3>1. reg'[v] = w /\ typ'[v] = t /\ val'[v] = x
      BY <2>1 DEF Set, IInv, Words
    <3> QED
      BY <1>1, <3>1
  <2>2. CASE v # d
    <3>1. reg'[v] = reg[v] /\ typ'[v] = typ[v] /\ val'[v] = val[v]
      BY <2>2 DEF Set, IInv, Words
    <3> QED
      BY <3>1 DEF IInv, Represents
  <2> QED
    BY <2>1, <2>2
<1>4. Represents'
  <2>1. cond' = Flag(truth') /\ obj' = held'
    BY DEF Set, IInv, Represents
  <2> QED
    BY <1>3, <2>1 DEF Represents
<1> QED
  BY <1>2, <1>4 DEF Set, IInv

(* A test that answers what is meant, on registers that still stand for    *)
(* their values.                                                           *)
LEMMA TestKeeps ==
  ASSUME IInv, NEW regs, regs \in [Vars -> 0..(Word - 1)],
         \A v \in Vars : Stands(regs[v], val[v], typ[v]),
         NEW meant \in BOOLEAN, NEW c, c = Flag(meant), Test(regs, c, meant)
  PROVE  IInv'
<1>1. Words'
  BY DEF Test, IInv, Words
<1>2. Represents'
  BY DEF Test, Represents, IInv, Stands
<1> QED
  BY <1>1, <1>2 DEF Test, IInv

LEMMA WriteKeeps ==
  ASSUME IInv, NEW w \in 0..(Word - 1), Write(w, w)
  PROVE  IInv'
BY DEF Write, IInv, Words, Represents

LEMMA PanicKeeps ==
  ASSUME IInv, mode' = "panic", UNCHANGED <<reg, cond, obj, values>>
  PROVE  IInv'
BY DEF IInv, Words, Represents, values

(* ---- one lemma for each action ----------------------------------------- *)
LEMMA ConstKeeps ==
  ASSUME IInv, NEW d \in Vars, NEW t \in Kinds, NEW x \in 0..(Modulus(t) - 1), Const(d, t, x)
  PROVE  IInv'
<1>1. CASE t = "word"
  BY <1>1, ValueStands, SetKeeps DEF Const
<1>2. CASE t # "word"
  <2>1. PICK w \in {x, Sext(x, Narrow), reg[d] - (reg[d] % Narrow) + x} : Set(d, t, x, w)
    BY <1>2 DEF Const
  <2>2. reg[d] \in 0..(Word - 1) /\ t = "narrow"
    BY <1>2 DEF IInv, Words, Kinds
  <2>3. Stands(w, x, t)
    BY <2>2, ConstStands
  <2> QED
    BY <2>1, <2>3, SetKeeps
<1> QED
  BY <1>1, <1>2

LEMMA MovKeeps ==
  ASSUME IInv, NEW d \in Vars, NEW s \in Vars, Mov(d, s)
  PROVE  IInv'
BY InvStands, SetKeeps DEF Mov

LEMMA AddI16Keeps ==
  ASSUME IInv, NEW d \in Vars, NEW s \in Vars, NEW i \in {-1, 1}, AddI16(d, s, i)
  PROVE  IInv'
<1>1. typ[s] \in Kinds /\ Stands(reg[s], val[s], typ[s]) /\ i \in Int
  BY InvStands
<1>2. Stands(Wrap(reg[s] + i, Word), Wrap(val[s] + i, Modulus(typ[s])), typ[s])
  BY <1>1, AddStands
<1> QED
  BY <1>1, <1>2, SetKeeps DEF AddI16

LEMMA NotKeeps ==
  ASSUME IInv, NEW d \in Vars, NEW s \in Vars, Not(d, s)
  PROVE  IInv'
BY InvStands, NotStands, SetKeeps DEF Not

LEMMA NegKeeps ==
  ASSUME IInv, NEW d \in Vars, NEW s \in Vars, Neg(d, s)
  PROVE  IInv'
BY InvStands, NegStands, SetKeeps DEF Neg

LEMMA BinaryKeeps ==
  ASSUME IInv, ~RawNarrow, NEW d \in Vars, NEW x \in Vars, NEW y \in Vars,
         NEW op \in LowOps \cup WholeOps \cup {"lsl"}, Binary(op, d, x, y)
  PROVE  IInv'
<1> DEFINE m == Modulus(typ[x])
           sets == Set(d, typ[x], Result(op, val[x], val[y], m), Instruction(op, reg[x], reg[y]))
<1>1. /\ typ[x] \in Kinds /\ Stands(reg[x], val[x], typ[x]) /\ Stands(reg[y], val[y], typ[x])
      /\ Defined(op, val[x], val[y], m) /\ (op \in WholeOps => typ[x] = "word")
  BY InvStands DEF Binary
<1>2. op \in WholeOps => reg[x] = val[x] /\ reg[y] = val[y]
  BY <1>1, StandsFor
<1>3. Guarded(op, reg[y], val[y], /\ op \in {"idiv", "imod"} => Defined(op, reg[x], reg[y], Word)
                                  /\ sets)
  BY DEF Binary
<1>4. op \in Divisions => op \in WholeOps
  BY DEF WholeOps
<1>5. op \notin {"unwrap"}
  BY DEF LowOps, WholeOps, Divisions
<1>6. Panics(op, reg[y]) = (op \in Divisions \cup {"unwrap"} /\ val[y] = 0)
  BY <1>2, <1>4, <1>5 DEF Panics
<1>7. CASE Panics(op, reg[y])
  BY <1>3, <1>6, <1>7, PanicKeeps DEF Guarded
<1>8. CASE ~Panics(op, reg[y])
  <2>1. sets
    BY <1>3, <1>6, <1>8 DEF Guarded
  <2>2. op \in Divisions => val[y] # 0
    BY <1>6, <1>8
  <2>3. Stands(Instruction(op, reg[x], reg[y]), Result(op, val[x], val[y], m), typ[x])
    <3>1. CASE op \in LowOps
      BY <1>1, <3>1, LowOpStands
    <3>2. CASE op = "lsl"
      BY <1>1, <3>2, ShiftStands
    <3>3. CASE op \in WholeOps
      <4>1. typ[x] = "word" /\ m = Word /\ reg[x] = val[x] /\ reg[y] = val[y]
        BY <1>1, <1>2, <3>3 DEF Modulus
      <4>2. val[x] \in 0..(Word - 1) /\ val[y] \in 0..(Word - 1)
        BY DEF IInv, Words
      <4>3. Stands(Instruction(op, val[x], val[y]), Result(op, val[x], val[y], Word), "word")
        BY <1>1, <2>2, <3>3, <4>1, <4>2, WholeOpStands
      <4> QED
        BY <4>1, <4>3
    <3> QED
      BY <3>1, <3>2, <3>3
  <2> QED
    BY <1>1, <2>1, <2>3, SetKeeps
<1> QED
  BY <1>7, <1>8

LEMMA UnwrapNZKeeps ==
  ASSUME IInv, NEW d \in Vars, NEW s \in Vars, UnwrapNZ(d, s)
  PROVE  IInv'
<1>1. Stands(reg[s], val[s], "word") /\ "word" \in Kinds
  BY InvStands DEF UnwrapNZ, Kinds
<1>2. reg[s] = val[s]
  BY <1>1, StandsFor
<1>3. Guarded("unwrap", reg[s], val[s], Set(d, "word", val[s], reg[s]))
  BY DEF UnwrapNZ
<1>4. Panics("unwrap", reg[s]) = ("unwrap" \in Divisions \cup {"unwrap"} /\ val[s] = 0)
  BY <1>2 DEF Panics
<1>5. CASE Panics("unwrap", reg[s])
  BY <1>3, <1>4, <1>5, PanicKeeps DEF Guarded
<1>6. CASE ~Panics("unwrap", reg[s])
  <2>1. Set(d, "word", val[s], reg[s])
    BY <1>3, <1>4, <1>6 DEF Guarded
  <2> QED
    BY <1>1, <2>1, SetKeeps
<1> QED
  BY <1>5, <1>6

(* Floats: an f32 operation reads the half of the register that is the     *)
(* value, and what it computes fits the register.                          *)
LEMMA FloatStands ==
  ASSUME NEW t \in Kinds, NEW op \in FloatOps, NEW x \in 0..(Word - 1), NEW y \in 0..(Word - 1)
  PROVE  Stands(FloatOp(op, x, y, Modulus(t)), FloatOp(op, x, y, Modulus(t)), t)
<1>1. Modulus(t) \in {Narrow, Word}
  BY DEF Modulus
<1>2. FloatOp(op, x, y, Modulus(t)) \in 0..(Modulus(t) - 1)
  BY <1>1, ValuesAssumption
<1> QED
  BY <1>2, ValueStands

LEMMA LowIs ==
  ASSUME IInv, NEW v \in Vars
  PROVE  /\ typ[v] = "narrow" => Low(v) = val[v]
         /\ typ[v] = "word" => reg[v] = val[v]
         /\ val[v] \in 0..(Word - 1) /\ typ[v] \in Kinds
<1>1. Stands(reg[v], val[v], typ[v]) /\ typ[v] \in Kinds
  BY InvStands
<1>2. typ[v] = "word" => reg[v] = val[v]
  BY <1>1, StandsFor
<1>3. typ[v] = "narrow" => Low(v) = val[v]
  BY <1>1 DEF Stands, Modulus, Low
<1> QED
  BY <1>1, <1>2, <1>3 DEF IInv, Words

LEMMA FloatBinaryKeeps ==
  ASSUME IInv, NEW d \in Vars, NEW x \in Vars, NEW y \in Vars,
         NEW op \in {"fadd", "fsub", "fmul", "fdiv", "fmod"}, FloatBinary(op, d, x, y)
  PROVE  IInv'
<1>1. typ[x] = typ[y] /\ op \in FloatOps
  BY DEF FloatBinary, FloatOps
<1>2. /\ typ[x] = "narrow" => Low(x) = val[x] /\ Low(y) = val[y]
      /\ typ[x] # "narrow" => reg[x] = val[x] /\ reg[y] = val[y]
      /\ val[x] \in 0..(Word - 1) /\ val[y] \in 0..(Word - 1) /\ typ[x] \in Kinds
  BY <1>1, LowIs DEF Kinds
<1>3. (IF typ[x] = "narrow" THEN F32Result(op, x, y) ELSE F64Result(op, x, y))
      = FloatOp(op, val[x], val[y], Modulus(typ[x]))
  BY <1>2 DEF F32Result, F64Result, Modulus
<1>4. Stands(FloatOp(op, val[x], val[y], Modulus(typ[x])), FloatOp(op, val[x], val[y], Modulus(typ[x])), typ[x])
  BY <1>1, <1>2, FloatStands
<1>5. Set(d, typ[x], FloatOp(op, val[x], val[y], Modulus(typ[x])), FloatOp(op, val[x], val[y], Modulus(typ[x])))
  BY <1>3 DEF FloatBinary
<1> QED
  BY <1>2, <1>4, <1>5, SetKeeps

LEMMA FloatUnaryKeeps ==
  ASSUME IInv, NEW d \in Vars, NEW s \in Vars, NEW op \in {"fneg", "fabs"}, FloatUnary(op, d, s)
  PROVE  IInv'
<1>1. op \in FloatOps
  BY DEF FloatOps
<1>2. /\ typ[s] = "narrow" => Low(s) = val[s]
      /\ typ[s] # "narrow" => reg[s] = val[s]
      /\ val[s] \in 0..(Word - 1) /\ typ[s] \in Kinds
  BY LowIs DEF Kinds
<1>3. (IF typ[s] = "narrow" THEN F32Result(op, s, s) ELSE F64Result(op, s, s))
      = FloatOp(op, val[s], val[s], Modulus(typ[s]))
  BY <1>2 DEF F32Result, F64Result, Modulus
<1>4. Stands(FloatOp(op, val[s], val[s], Modulus(typ[s])), FloatOp(op, val[s], val[s], Modulus(typ[s])), typ[s])
  BY <1>1, <1>2, FloatStands
<1>5. Set(d, typ[s], FloatOp(op, val[s], val[s], Modulus(typ[s])), FloatOp(op, val[s], val[s], Modulus(typ[s])))
  BY <1>3 DEF FloatUnary
<1> QED
  BY <1>2, <1>4, <1>5, SetKeeps

LEMMA IntToFloatKeeps ==
  ASSUME IInv, NEW d \in Vars, NEW s \in Vars, NEW t \in Kinds, IntToFloat(d, t, s)
  PROVE  IInv'
<1>1. reg[s] = val[s] /\ val[s] \in 0..(Word - 1) /\ 0 \in 0..(Word - 1)
  BY LowIs, Sizes DEF IntToFloat
<1>2. Stands(FloatOp("i2f", val[s], 0, Modulus(t)), FloatOp("i2f", val[s], 0, Modulus(t)), t)
  BY <1>1, FloatStands DEF FloatOps
<1>3. Set(d, t, FloatOp("i2f", val[s], 0, Modulus(t)), FloatOp("i2f", val[s], 0, Modulus(t)))
  BY <1>1 DEF IntToFloat
<1> QED
  BY <1>2, <1>3, SetKeeps

LEMMA FloatToIntKeeps ==
  ASSUME IInv, NEW d \in Vars, NEW s \in Vars, FloatToInt(d, s)
  PROVE  IInv'
<1>1. (IF typ[s] = "narrow" THEN Low(s) ELSE reg[s]) = val[s] /\ val[s] \in 0..(Word - 1) /\ 0 \in 0..(Word - 1)
  BY LowIs, Sizes DEF Kinds
<1>2. Modulus("word") = Word /\ "word" \in Kinds /\ "f2i" \in FloatOps
  BY DEF Modulus, Kinds, FloatOps
<1>3. Stands(FloatOp("f2i", val[s], 0, Word), FloatOp("f2i", val[s], 0, Word), "word")
  BY <1>1, <1>2, FloatStands
<1>4. Set(d, "word", FloatOp("f2i", val[s], 0, Word), FloatOp("f2i", val[s], 0, Word))
  BY <1>1 DEF FloatToInt
<1> QED
  BY <1>2, <1>3, <1>4, SetKeeps

LEMMA WidenKeeps ==
  ASSUME IInv, NEW d \in Vars, NEW s \in Vars, NEW signed \in BOOLEAN, Widen(d, s, signed)
  PROVE  IInv'
<1>1. Stands(reg[s], val[s], "narrow")
  BY InvStands DEF Widen
<1>2. Modulus("word") = Word /\ "word" \in Kinds
  BY DEF Modulus, Kinds
<1>3. CASE signed
  <2>1. Sext(reg[s], Narrow) = Sext(val[s], Narrow) /\ Sext(reg[s], Narrow) \in 0..(Word - 1)
    BY <1>1, SextStands DEF Stands
  <2>2. Stands(Sext(val[s], Narrow), Sext(val[s], Narrow), "word")
    BY <1>2, <2>1, ValueStands
  <2>3. Set(d, "word", Sext(val[s], Narrow), Sext(val[s], Narrow))
    BY <1>3, <2>1 DEF Widen
  <2> QED
    BY <1>2, <2>2, <2>3, SetKeeps
<1>4. CASE ~signed
  <2>1. Zext(reg[s], Narrow) = val[s] /\ val[s] \in 0..(Word - 1)
    BY <1>1, ZextStands DEF IInv, Words
  <2>2. Stands(val[s], val[s], "word")
    BY <1>2, <2>1, ValueStands
  <2>3. Set(d, "word", val[s], val[s])
    BY <1>4, <2>1 DEF Widen
  <2> QED
    BY <1>2, <2>2, <2>3, SetKeeps
<1> QED
  BY <1>3, <1>4

LEMMA TruncateKeeps ==
  ASSUME IInv, NEW d \in Vars, NEW s \in Vars, Truncate(d, s)
  PROVE  IInv'
<1>1. reg[s] = val[s] /\ reg[s] \in 0..(Word - 1)
  BY LowIs DEF Truncate, IInv, Words
<1>2. Stands(reg[s], val[s] % Narrow, "narrow") /\ "narrow" \in Kinds
  BY <1>1 DEF Stands, Modulus, Kinds
<1> QED
  BY <1>2, SetKeeps DEF Truncate

(* ---- comparisons -------------------------------------------------------- *)
LEMMA ExtendedStands ==
  ASSUME IInv, NEW x \in Vars, NEW y \in Vars, NEW signed \in BOOLEAN
  PROVE  LET regs == Extended(x, y, signed) IN
         /\ regs \in [Vars -> 0..(Word - 1)]
         /\ \A v \in Vars : Stands(regs[v], val[v], typ[v])
         /\ \A v \in {x, y} : IF signed THEN Signed(regs[v], Word) = Signed(val[v], Modulus(typ[v]))
                                        ELSE regs[v] = val[v]
<1> DEFINE regs == Extended(x, y, signed)
<1>1. ASSUME NEW v \in Vars
      PROVE  /\ Stands(regs[v], val[v], typ[v])
             /\ v \in {x, y} => IF signed THEN Signed(regs[v], Word) = Signed(val[v], Modulus(typ[v]))
                                          ELSE regs[v] = val[v]
  <2>1. Stands(reg[v], val[v], typ[v]) /\ typ[v] \in Kinds
    BY InvStands
  <2>2. CASE v \in {x, y} /\ typ[v] = "narrow"
    <3>1. regs[v] = IF signed THEN Sext(reg[v], Narrow) ELSE Zext(reg[v], Narrow)
      BY <2>2 DEF Extended
    <3>2. Modulus(typ[v]) = Narrow /\ Stands(reg[v], val[v], "narrow")
      BY <2>1, <2>2 DEF Modulus
    <3> QED
      BY <2>2, <3>1, <3>2, SextStands, ZextStands
  <2>3. CASE ~(v \in {x, y} /\ typ[v] = "narrow")
    <3>1. regs[v] = reg[v]
      BY <2>3 DEF Extended
    <3>2. v \in {x, y} => typ[v] = "word" /\ regs[v] = val[v] /\ Modulus(typ[v]) = Word
      BY <2>1, <2>3, <3>1, StandsFor DEF Kinds, Modulus
    <3> QED
      BY <2>1, <3>1, <3>2
  <2> QED
    BY <2>2, <2>3
<1>2. regs = [v \in Vars |-> regs[v]]
  BY DEF Extended
<1> HIDE DEF regs
<1>3. regs \in [Vars -> 0..(Word - 1)]
  BY <1>1, <1>2 DEF Stands
<1> QED
  BY <1>1, <1>3 DEF regs

LEMMA HoldsType ==
  ASSUME NEW op \in {"lt", "le", "gt", "ge"}, NEW x \in Int, NEW y \in Int
  PROVE  Holds(op, x, y) \in BOOLEAN
<1>1. (x < y) \in BOOLEAN /\ (x <= y) \in BOOLEAN /\ (x > y) \in BOOLEAN /\ (x >= y) \in BOOLEAN
  OBVIOUS
<1>2. CASE op = "lt"
  BY <1>1, <1>2 DEF Holds
<1>3. CASE op = "le"
  BY <1>1, <1>3 DEF Holds
<1>4. CASE op = "gt"
  BY <1>1, <1>4 DEF Holds
<1>5. CASE op = "ge"
  BY <1>1, <1>5 DEF Holds
<1> QED
  BY <1>2, <1>3, <1>4, <1>5

LEMMA CompareKeeps ==
  ASSUME IInv, NEW x \in Vars, NEW y \in Vars, NEW op \in {"lt", "le", "gt", "ge"}, Compare(op, x, y)
  PROVE  IInv'
<1> DEFINE regs == Extended(x, y, TRUE)
           meant == Holds(op, Signed(val[x], Modulus(typ[x])), Signed(val[y], Modulus(typ[x])))
<1>1. typ[x] = typ[y]
  BY DEF Compare
<1>2. /\ regs \in [Vars -> 0..(Word - 1)] /\ \A v \in Vars : Stands(regs[v], val[v], typ[v])
      /\ Signed(regs[x], Word) = Signed(val[x], Modulus(typ[x]))
      /\ Signed(regs[y], Word) = Signed(val[y], Modulus(typ[x]))
  BY <1>1, ExtendedStands
<1>3. meant \in BOOLEAN
  <2>1. /\ val[x] \in Int /\ val[y] \in Int
        /\ Modulus(typ[x]) \in Int
    BY Sizes DEF IInv, Words, Modulus
  <2>2. Signed(val[x], Modulus(typ[x])) \in Int /\ Signed(val[y], Modulus(typ[x])) \in Int
    BY <2>1 DEF Signed
  <2> QED
    BY <2>2, HoldsType
<1>4. Test(regs, Flag(meant), meant)
  BY <1>2 DEF Compare
<1> HIDE DEF regs, meant
<1> QED
  BY <1>2, <1>3, <1>4, TestKeeps

LEMMA CompareUnsignedKeeps ==
  ASSUME IInv, NEW x \in Vars, NEW y \in Vars, NEW op \in {"lt", "le", "gt", "ge"}, CompareUnsigned(op, x, y)
  PROVE  IInv'
<1> DEFINE regs == Extended(x, y, FALSE)
           meant == Holds(op, val[x], val[y])
<1>1. /\ regs \in [Vars -> 0..(Word - 1)] /\ \A v \in Vars : Stands(regs[v], val[v], typ[v])
      /\ regs[x] = val[x] /\ regs[y] = val[y]
  BY ExtendedStands
<1>2. val[x] \in 0..(Word - 1) /\ val[y] \in 0..(Word - 1) /\ val[x] \in Int /\ val[y] \in Int
  BY Sizes DEF IInv, Words
<1>3. meant \in BOOLEAN
  BY <1>2, HoldsType
<1>4. (IF Bit(val[x], WordBits - 1) # Bit(val[y], WordBits - 1)
       THEN 1 - Flag(Holds(op, Signed(val[x], Word), Signed(val[y], Word)))
       ELSE Flag(Holds(op, Signed(val[x], Word), Signed(val[y], Word)))) = Flag(meant)
  BY <1>2, UnsignedAnswer
<1>5. Test(regs, Flag(meant), meant)
  BY <1>1, <1>4 DEF CompareUnsigned
<1> HIDE DEF regs, meant
<1> QED
  BY <1>1, <1>3, <1>5, TestKeeps

LEMMA EqualKeeps ==
  ASSUME IInv, NEW x \in Vars, NEW y \in Vars, Equal(x, y)
  PROVE  IInv'
<1> DEFINE regs == Extended(x, y, FALSE)
           meant == val[x] = val[y]
<1>1. CASE typ[x] = "narrow" /\ Test(reg, Flag(Low(x) = Low(y)), meant)
  <2>1. Low(x) = val[x] /\ Low(y) = val[y]
    BY <1>1, LowIs DEF Equal
  <2>2. Test(reg, Flag(meant), meant)
    BY <1>1, <2>1
  <2>3. reg \in [Vars -> 0..(Word - 1)] /\ \A v \in Vars : Stands(reg[v], val[v], typ[v])
    BY InvStands DEF IInv, Words
  <2>4. meant \in BOOLEAN
    OBVIOUS
  <2> HIDE DEF meant
  <2> QED
    BY <2>2, <2>3, <2>4, TestKeeps
<1>2. CASE Test(regs, Flag(regs[x] = regs[y]), meant)
  <2>1. /\ regs \in [Vars -> 0..(Word - 1)] /\ \A v \in Vars : Stands(regs[v], val[v], typ[v])
        /\ regs[x] = val[x] /\ regs[y] = val[y]
    BY ExtendedStands
  <2>2. Test(regs, Flag(meant), meant)
    BY <1>2, <2>1
  <2>3. meant \in BOOLEAN
    OBVIOUS
  <2> HIDE DEF regs, meant
  <2> QED
    BY <2>1, <2>2, <2>3, TestKeeps
<1> QED
  BY <1>1, <1>2 DEF Equal

(* A test of registers that stay as they are.                              *)
LEMMA PlainTestKeeps ==
  ASSUME IInv, NEW meant \in BOOLEAN, NEW c, c = Flag(meant), Test(reg, c, meant)
  PROVE  IInv'
<1>1. reg \in [Vars -> 0..(Word - 1)] /\ \A v \in Vars : Stands(reg[v], val[v], typ[v])
  BY InvStands DEF IInv, Words
<1> QED
  BY <1>1, TestKeeps

LEMMA FloatCompareKeeps ==
  ASSUME IInv, NEW x \in Vars, NEW y \in Vars, NEW op \in {"feq", "flt", "fgt", "fle", "fge"},
         FloatCompare(op, x, y)
  PROVE  IInv'
<1> DEFINE meant == FloatHolds(op, val[x], val[y], Modulus(typ[x]))
<1>1. typ[x] = typ[y]
  BY DEF FloatCompare
<1>2. /\ typ[x] = "narrow" => Low(x) = val[x] /\ Low(y) = val[y]
      /\ typ[x] # "narrow" => reg[x] = val[x] /\ reg[y] = val[y]
      /\ val[x] \in 0..(Word - 1) /\ val[y] \in 0..(Word - 1) /\ typ[x] \in Kinds
  BY <1>1, LowIs DEF Kinds
<1>3. (IF typ[x] = "narrow" THEN F32Holds(op, x, y) ELSE F64Holds(op, x, y)) = meant
  BY <1>2 DEF F32Holds, F64Holds, Modulus
<1>4. Modulus(typ[x]) \in {Narrow, Word}
  BY DEF Modulus
<1>5. meant \in BOOLEAN
  BY <1>2, <1>4, ValuesAssumption
<1>6. Test(reg, Flag(meant), meant)
  BY <1>3 DEF FloatCompare
<1> HIDE DEF meant
<1> QED
  BY <1>5, <1>6, PlainTestKeeps

LEMMA BoolKeeps ==
  ASSUME IInv, True \/ False \/ Lnot
  PROVE  IInv'
<1>1. CASE True
  BY <1>1, 1 = Flag(TRUE), PlainTestKeeps DEF True, Flag
<1>2. CASE False
  BY <1>2, 0 = Flag(FALSE), PlainTestKeeps DEF False, Flag
<1>3. CASE Lnot
  <2>1. truth \in BOOLEAN /\ cond = Flag(truth)
    BY DEF IInv, Words, Represents
  <2>2. (cond = 0) <=> ~truth
    BY <2>1 DEF Flag
  <2>3. Flag(cond = 0) = Flag(~truth) /\ (~truth) \in BOOLEAN
    BY <2>2 DEF Flag
  <2> QED
    BY <1>3, <2>3, PlainTestKeeps DEF Lnot
<1> QED
  BY <1>1, <1>2, <1>3

LEMMA IsZeroKeeps ==
  ASSUME IInv, NEW x \in Vars, IsZero(x)
  PROVE  IInv'
<1>1. reg[x] = val[x] /\ (val[x] = 0) \in BOOLEAN
  BY LowIs DEF IsZero
<1>2. Test(reg, Flag(val[x] = 0), val[x] = 0)
  BY <1>1 DEF IsZero
<1> QED
  BY <1>1, <1>2, PlainTestKeeps

(* ---- memory ------------------------------------------------------------ *)
LEMMA LoadKeeps ==
  ASSUME IInv, NEW d \in Vars, Load(d) \/ \E i \in Fields : LoadField(d, i)
  PROVE  IInv'
<1>1. obj = held /\ obj \in 0..(Word - 1) /\ Modulus("word") = Word /\ Modulus("narrow") = Narrow
      /\ "word" \in Kinds /\ "narrow" \in Kinds
  BY DEF IInv, Words, Represents, Modulus, Kinds
<1>2. CASE Load(d)
  <2>1. Stands(obj, held, "word")
    BY <1>1, ValueStands
  <2> QED
    BY <1>1, <1>2, <2>1, SetKeeps DEF Load
<1>3. CASE \E i \in Fields : LoadField(d, i)
  <2>1. PICK i \in Fields : LoadField(d, i)
    BY <1>3
  <2>2. Field(obj, i) \in 0..(Narrow - 1)
    BY <1>1, Sizes, FieldIs
  <2>3. Stands(Field(obj, i), Field(held, i), "narrow")
    BY <1>1, <2>2, ValueStands
  <2> QED
    BY <1>1, <2>1, <2>3, SetKeeps DEF LoadField
<1> QED
  BY <1>2, <1>3

LEMMA StoreKeeps ==
  ASSUME IInv, NEW s \in Vars, Store(s) \/ (\E i \in Fields : StoreField(i, s))
  PROVE  IInv'
<1>1. obj = held /\ obj \in 0..(Word - 1) /\ reg[s] \in 0..(Word - 1)
  BY DEF IInv, Words, Represents
<1>2. CASE Store(s)
  <2>1. reg[s] = val[s] /\ Write(reg[s], val[s])
    BY <1>2, LowIs DEF Store
  <2> QED
    BY <1>1, <2>1, WriteKeeps
<1>3. CASE \E i \in Fields : StoreField(i, s)
  <2>1. PICK i \in Fields : StoreField(i, s)
    BY <1>3
  <2>2. reg[s] % Narrow = val[s] /\ val[s] \in 0..(Narrow - 1)
    <3>1. typ[s] = "narrow" /\ Modulus("narrow") = Narrow /\ Stands(reg[s], val[s], "narrow") /\ "narrow" \in Kinds
      BY <2>1, InvStands DEF StoreField, Modulus, Kinds
    <3> QED
      BY <3>1, StandsFor DEF Stands
  <2>3. PutField(obj, i, val[s]) \in 0..(Word - 1)
    BY <1>1, <2>2, PutFieldIs
  <2>4. Write(PutField(obj, i, val[s]), PutField(obj, i, val[s]))
    BY <1>1, <2>1, <2>2 DEF StoreField
  <2> QED
    BY <2>3, <2>4, WriteKeeps
<1> QED
  BY <1>2, <1>3

-----------------------------------------------------------------------------
(* Every state of the program satisfies IInv, provided narrow operands are *)
(* widened before the instructions that read the whole register (~         *)
(* RawNarrow): the instructions of vm.c, in any sequence.                  *)
THEOREM Invariant == ~RawNarrow => (Spec => []IInv)
<1> SUFFICES ASSUME ~RawNarrow PROVE Spec => []IInv
  OBVIOUS
<1>1. Init => IInv
  <2> SUFFICES ASSUME Init PROVE IInv
    OBVIOUS
  <2>1. Word \in Nat \ {0} /\ 0 \in 0..(Word - 1)
    BY Sizes
  <2>2. 0 % Word = 0
    BY <2>1, SmallMod
  <2>3. Words
    BY <2>1 DEF Init, Words, Kinds
  <2>4. Represents
    BY <2>2 DEF Init, Represents, Modulus, Flag
  <2> QED
    BY <2>3, <2>4 DEF Init, IInv
<1>2. IInv /\ [Next]_vars => IInv'
  <2> SUFFICES ASSUME IInv, [Next]_vars PROVE IInv'
    OBVIOUS
  <2>1. CASE UNCHANGED vars
    BY <2>1 DEF vars, values, IInv, Words, Represents
  <2>2. CASE \E d \in Vars : \E t \in {"narrow", "word"} : \E x \in 0..(Modulus(t) - 1) : Const(d, t, x)
    BY <2>2, ConstKeeps DEF Kinds
  <2>3. CASE \E d, s \in Vars : \/ Mov(d, s) \/ Not(d, s) \/ Neg(d, s) \/ Truncate(d, s)
                                \/ UnwrapNZ(d, s) \/ FloatToInt(d, s)
                                \/ \E i \in {-1, 1} : AddI16(d, s, i)
                                \/ \E t \in {"narrow", "word"} : IntToFloat(d, t, s)
                                \/ \E op \in {"fneg", "fabs"} : FloatUnary(op, d, s)
                                \/ \E signed \in BOOLEAN : Widen(d, s, signed)
    BY <2>3, MovKeeps, NotKeeps, NegKeeps, TruncateKeeps, UnwrapNZKeeps, FloatToIntKeeps, AddI16Keeps,
       IntToFloatKeeps, FloatUnaryKeeps, WidenKeeps DEF Kinds
  <2>4. CASE \E d, x, y \in Vars : \E op \in LowOps \cup WholeOps \cup {"lsl"} : Binary(op, d, x, y)
    BY <2>4, BinaryKeeps
  <2>5. CASE \E d, x, y \in Vars : \E op \in {"fadd", "fsub", "fmul", "fdiv", "fmod"} : FloatBinary(op, d, x, y)
    BY <2>5, FloatBinaryKeeps
  <2>6. CASE \E x, y \in Vars :
               \/ Equal(x, y)
               \/ \E op \in {"lt", "le", "gt", "ge"} : Compare(op, x, y) \/ CompareUnsigned(op, x, y)
               \/ \E op \in {"feq", "flt", "fgt", "fle", "fge"} : FloatCompare(op, x, y)
    BY <2>6, EqualKeeps, CompareKeeps, CompareUnsignedKeeps, FloatCompareKeeps
  <2>7. CASE \E x \in Vars : IsZero(x) \/ Load(x) \/ Store(x) \/ \E i \in Fields : LoadField(x, i) \/ StoreField(i, x)
    BY <2>7, IsZeroKeeps, LoadKeeps, StoreKeeps
  <2>8. CASE True \/ False \/ Lnot
    BY <2>8, BoolKeeps
  <2>9. CASE Memsetz
    <3>1. 0 \in 0..(Word - 1)
      BY Sizes
    <3> QED
      BY <2>9, <3>1, WriteKeeps DEF Memsetz
  <2> QED
    BY <2>1, <2>2, <2>3, <2>4, <2>5, <2>6, <2>7, <2>8, <2>9 DEF Next
<1> QED
  BY <1>1, <1>2, PTL DEF Spec

(* Represents for every width: each register holds the value of its        *)
(* variable in its low bytes, after any sequence of instructions.          *)
THEOREM RegistersRepresent == ~RawNarrow => (Spec => []Represents)
<1>1. IInv => Represents
  BY DEF IInv
<1> QED
  BY <1>1, Invariant, PTL

(* PanicsAsMeant for every width: the machine panics where the program     *)
(* divides by zero or unwraps a none, and nowhere else.                    *)
THEOREM PanicsAreMeant == ~RawNarrow => (Spec => []PanicsAsMeant)
<1>1. IInv => PanicsAsMeant
  BY DEF IInv, PanicsAsMeant
<1> QED
  BY <1>1, Invariant, PTL
=============================================================================
