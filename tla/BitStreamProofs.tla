-------------------------- MODULE BitStreamProofs ---------------------------
(***************************************************************************)
(* What the bit streams of bitstream.hh promise to every codec that uses   *)
(* them as StreamSpec says, for words of any width.                        *)
(***************************************************************************)
EXTENDS BitStream, FiniteSetTheorems, TLAPS

-----------------------------------------------------------------------------
(* A set of natural numbers that has 0 and every successor has them all: a *)
(* least one missing would have a predecessor.  The numbers below those    *)
(* missing are finite sets, well-founded by strict inclusion.              *)
Under(n) == 0 .. n - 1

LEMMA UnderIsFinite ==
  ASSUME NEW n \in Nat
  PROVE  Under(n) \in FiniteSubsetsOf(Nat)
<1>1. 0 \in Int /\ n - 1 \in Int
  OBVIOUS
<1>2. IsFiniteSet(0 .. n - 1)
  BY <1>1, FS_Interval
<1>3. 0 .. n - 1 \subseteq Nat
  OBVIOUS
<1>4. QED
  BY <1>2, <1>3 DEF Under, FiniteSubsetsOf

LEMMA LeastMissing ==
  ASSUME NEW S \in SUBSET Nat, S # {}
  PROVE  \E x \in S : \A y \in S : x <= y
<1> DEFINE Intervals == {Under(n) : n \in S}
           R == StrictSubsetOrdering(Nat)
<1>1. Intervals \subseteq FiniteSubsetsOf(Nat) /\ Intervals # {}
  BY UnderIsFinite
<1>2. \E a \in Intervals : \A b \in Intervals : ~(<<b, a>> \in R)
  <2> HIDE DEF Intervals, R
  <2>1. IsWellFoundedOn(R, FiniteSubsetsOf(Nat))
    BY FS_StrictSubsetOrderingWellFounded DEF R
  <2>2. QED
    BY <1>1, <2>1, WFMin
<1>3. PICK x \in S : \A n \in S : ~(<<Under(n), Under(x)>> \in R)
  BY <1>2
<1>4. ASSUME NEW n \in S, ~(x <= n) PROVE FALSE
  <2>1. n \in Nat /\ x \in Nat /\ n < x
    BY <1>4
  <2>2. Under(n) \subseteq Under(x) /\ n \in Under(x) /\ n \notin Under(n)
    BY <2>1 DEF Under
  <2>3. Under(n) \in SUBSET Nat /\ Under(x) \in SUBSET Nat
    BY <2>1 DEF Under
  <2>4. <<Under(n), Under(x)>> \in R
    BY <2>2, <2>3 DEF StrictSubsetOrdering
  <2>5. QED
    BY <1>3, <2>4
<1>5. QED
  BY <1>4

LEMMA Induction ==
  ASSUME NEW S \in SUBSET Nat, 0 \in S, \A n \in S : n + 1 \in S
  PROVE  Nat \subseteq S
<1>1. SUFFICES ASSUME Nat \ S # {} PROVE FALSE
  OBVIOUS
<1>2. PICK x \in Nat \ S : \A y \in Nat \ S : x <= y
  BY <1>1, LeastMissing
<1>3. x - 1 \in Nat /\ ~(x <= x - 1)
  BY <1>2
<1>4. x - 1 \in S
  BY <1>2, <1>3
<1>5. (x - 1) + 1 \in S
  BY <1>4
<1>6. QED
  BY <1>2, <1>5

-----------------------------------------------------------------------------
(* Powers of two: tables of them up to n exist and agree, so the recursive *)
(* function does.                                                          *)
Table(n, g) ==
  /\ g \in [0 .. n -> Nat]
  /\ g[0] = 1
  /\ \A k \in 0 .. n - 1 : g[k + 1] = 2 * g[k]

LEMMA TablesExist == \A n \in Nat : \E g : Table(n, g)
<1> DEFINE S == {n \in Nat : \E g : Table(n, g)}
<1>1. 0 \in S
  <2>1. Table(0, [k \in 0 .. 0 |-> 1])
    BY DEF Table
  <2>2. QED
    BY <2>1
<1>2. ASSUME NEW n \in S PROVE n + 1 \in S
  <2>1. PICK g : Table(n, g)
    BY <1>2
  <2>2. n \in Nat
    OBVIOUS
  <2> DEFINE h == [k \in 0 .. n + 1 |-> IF k = n + 1 THEN 2 * g[n] ELSE g[k]]
  <2>3. h \in [0 .. n + 1 -> Nat]
    BY <2>1, <2>2 DEF Table
  <2>4. h[0] = 1
    BY <2>1, <2>2 DEF Table
  <2>5. ASSUME NEW k \in 0 .. n PROVE h[k + 1] = 2 * h[k]
    <3>1. CASE k = n
      BY <2>2, <3>1
    <3>2. CASE k # n
      <4>1. k \in 0 .. n - 1 /\ k \in 0 .. n + 1 /\ k + 1 \in 0 .. n + 1 /\ k + 1 # n + 1 /\ k # n + 1
        BY <2>2, <3>2
      <4>2. h[k + 1] = g[k + 1] /\ h[k] = g[k]
        BY <4>1
      <4>3. g[k + 1] = 2 * g[k]
        BY <2>1, <4>1 DEF Table
      <4>4. QED
        BY <4>2, <4>3
    <3>3. QED
      BY <3>1, <3>2
  <2>6. Table(n + 1, h)
    <3> HIDE DEF h
    <3>1. (n + 1) - 1 = n
      BY <2>2
    <3>2. \A k \in 0 .. (n + 1) - 1 : h[k + 1] = 2 * h[k]
      BY <2>5, <3>1
    <3>3. QED
      BY <2>3, <2>4, <3>2 DEF Table
  <2>7. QED
    BY <2>2, <2>6
<1>3. Nat \subseteq S
  <2> HIDE DEF S
  <2>1. S \in SUBSET Nat
    BY DEF S
  <2>2. QED
    BY <1>1, <1>2, <2>1, Induction
<1>4. QED
  BY <1>3

LEMMA TablesAgree ==
  ASSUME NEW n \in Nat, NEW g, Table(n, g), NEW m \in Nat, NEW h, Table(m, h)
  PROVE  \A k \in Nat : k <= n /\ k <= m => g[k] = h[k]
<1> DEFINE S == {k \in Nat : k <= n /\ k <= m => g[k] = h[k]}
<1>1. 0 \in S
  BY DEF Table
<1>2. ASSUME NEW k \in S PROVE k + 1 \in S
  <2>1. SUFFICES ASSUME k + 1 <= n, k + 1 <= m PROVE g[k + 1] = h[k + 1]
    OBVIOUS
  <2>2. k \in 0 .. n - 1 /\ k \in 0 .. m - 1
    BY <2>1
  <2>3. g[k + 1] = 2 * g[k] /\ h[k + 1] = 2 * h[k]
    BY <2>2 DEF Table
  <2>4. g[k] = h[k]
    BY <2>1
  <2>5. QED
    BY <2>3, <2>4
<1>3. Nat \subseteq S
  <2> HIDE DEF S
  <2>1. S \in SUBSET Nat
    BY DEF S
  <2>2. QED
    BY <1>1, <1>2, <2>1, Induction
<1>4. QED
  BY <1>3

Recursion(f) == f = [n \in Nat |-> IF n = 0 THEN 1 ELSE 2 * f[n - 1]]

LEMMA PowersExist == \E f : Recursion(f) /\ f \in [Nat -> Nat]
<1> DEFINE table(n) == CHOOSE g : Table(n, g)
           f == [n \in Nat |-> table(n)[n]]
<1>1. \A n \in Nat : Table(n, table(n))
  BY TablesExist
<1> HIDE DEF table
<1>2. ASSUME NEW n \in Nat PROVE f[n] \in Nat
  BY <1>1, n \in 0 .. n DEF Table
<1>3. ASSUME NEW n \in Nat PROVE f[n] = IF n = 0 THEN 1 ELSE 2 * f[n - 1]
  <2>1. CASE n = 0
    BY <2>1, <1>1 DEF Table
  <2>2. CASE n # 0
    <3>1. n - 1 \in Nat /\ n - 1 \in 0 .. n - 1 /\ (n - 1) + 1 = n
      BY <2>2
    <3>2. table(n)[n] = 2 * table(n)[n - 1]
      BY <1>1, <3>1 DEF Table
    <3>3. Table(n, table(n)) /\ Table(n - 1, table(n - 1))
      BY <1>1, <3>1
    <3>4. n - 1 <= n /\ n - 1 <= n - 1
      OBVIOUS
    <3>5. table(n)[n - 1] = table(n - 1)[n - 1]
      BY <3>1, <3>3, <3>4, TablesAgree
    <3>6. QED
      BY <2>2, <3>1, <3>2, <3>5
  <2>3. QED
    BY <2>1, <2>2
<1>4. f = [n \in Nat |-> IF n = 0 THEN 1 ELSE 2 * f[n - 1]]
  <2> HIDE DEF f
  <2>1. f = [n \in Nat |-> f[n]]
    BY DEF f
  <2>2. QED
    BY <1>3, <2>1
<1>5. f \in [Nat -> Nat]
  BY <1>2
<1> HIDE DEF f
<1>6. Recursion(f)
  BY <1>4 DEF Recursion
<1>7. QED
  BY <1>5, <1>6


LEMMA PowersRecur == Pow(0) = 1 /\ \A n \in Nat : Pow(n + 1) = 2 * Pow(n)
<1>1. pow2 = CHOOSE f : Recursion(f)
  BY DEF pow2, Recursion
<1>2. Recursion(pow2)
  BY <1>1, PowersExist
<1>3. ASSUME NEW n \in Nat PROVE pow2[n] = IF n = 0 THEN 1 ELSE 2 * pow2[n - 1]
  <2>1. pow2 = [m \in Nat |-> IF m = 0 THEN 1 ELSE 2 * pow2[m - 1]]
    BY <1>2 DEF Recursion
  <2> DEFINE f == pow2
  <2>2. f = [m \in Nat |-> IF m = 0 THEN 1 ELSE 2 * f[m - 1]]
    BY <2>1
  <2> HIDE DEF f
  <2>3. f[n] = IF n = 0 THEN 1 ELSE 2 * f[n - 1]
    BY <2>2
  <2>4. QED
    BY <2>3 DEF f
<1>4. Pow(0) = 1
  BY <1>3, 0 \in Nat DEF Pow
<1>5. ASSUME NEW n \in Nat PROVE Pow(n + 1) = 2 * Pow(n)
  <2>1. n + 1 \in Nat /\ n + 1 # 0 /\ (n + 1) - 1 = n
    OBVIOUS
  <2>2. QED
    BY <1>3, <2>1 DEF Pow
<1>6. QED
  BY <1>4, <1>5

LEMMA PowersAreNumbers == \A n \in Nat : Pow(n) \in Nat \ {0}
<1> DEFINE S == {n \in Nat : Pow(n) \in Nat \ {0}}
<1>1. 0 \in S
  BY PowersRecur
<1>2. ASSUME NEW n \in S PROVE n + 1 \in S
  <2>1. n \in Nat /\ Pow(n) \in Nat \ {0}
    OBVIOUS
  <2>2. Pow(n + 1) = 2 * Pow(n)
    BY <2>1, PowersRecur
  <2>3. QED
    BY <2>1, <2>2
<1>3. Nat \subseteq S
  <2> HIDE DEF S
  <2>1. S \in SUBSET Nat
    BY DEF S
  <2>2. QED
    BY <1>1, <1>2, <2>1, Induction
<1>4. QED
  BY <1>3

LEMMA PowersMultiply ==
  ASSUME NEW a \in Nat, NEW b \in Nat
  PROVE  Pow(a + b) = Pow(a) * Pow(b)
<1> DEFINE S == {n \in Nat : Pow(a + n) = Pow(a) * Pow(n)}
<1>1. 0 \in S
  <2>1. a + 0 = a /\ Pow(0) = 1 /\ Pow(a) \in Nat
    BY PowersRecur, PowersAreNumbers
  <2>2. Pow(a + 0) = Pow(a)
    BY <2>1
  <2>3. Pow(a) * 1 = Pow(a)
    BY <2>1
  <2>4. QED
    BY <2>1, <2>2, <2>3
<1>2. ASSUME NEW n \in S PROVE n + 1 \in S
  <2>1. n \in Nat /\ Pow(a + n) = Pow(a) * Pow(n)
    OBVIOUS
  <2>2. PICK x \in Nat : x = Pow(a)
    BY PowersAreNumbers
  <2>3. PICK y \in Nat : y = Pow(n)
    BY <2>1, PowersAreNumbers
  <2>4. Pow(n + 1) = 2 * y
    BY <2>1, <2>3, PowersRecur
  <2>5. a + (n + 1) = (a + n) + 1 /\ a + n \in Nat
    BY <2>1
  <2>6. Pow((a + n) + 1) = 2 * Pow(a + n)
    BY <2>5, PowersRecur
  <2>7. 2 * (x * y) = x * (2 * y)
    BY <2>2, <2>3
  <2>8. Pow(a + (n + 1)) = 2 * (x * y)
    BY <2>1, <2>2, <2>3, <2>5, <2>6
  <2>9. Pow(a + (n + 1)) = Pow(a) * Pow(n + 1)
    BY <2>2, <2>4, <2>7, <2>8
  <2>10. QED
    BY <2>1, <2>9
<1>3. Nat \subseteq S
  <2> HIDE DEF S
  <2>1. S \in SUBSET Nat
    BY DEF S
  <2>2. QED
    BY <1>1, <1>2, <2>1, Induction
<1>4. QED
  BY <1>3

-----------------------------------------------------------------------------
(* Division with a variable divisor.                                       *)
LEMMA Division ==
  ASSUME NEW m \in Nat \ {0}, NEW n \in Int
  PROVE  /\ n \div m \in Int /\ n % m \in Nat /\ n % m < m
         /\ n = m * (n \div m) + (n % m)
  OBVIOUS

LEMMA Apart ==
  ASSUME NEW m \in Nat \ {0}, NEW q \in Int, NEW p \in Int, q < p
  PROVE  m * q + m <= m * p
<1>1. PICK d \in Nat : p = q + 1 + d
  <2>1. p - q - 1 \in Nat
    OBVIOUS
  <2>2. QED
    BY <2>1
<1>2. m * p = m * q + m + m * d
  BY <1>1
<1>3. m * d \in Nat
  BY <1>1
<1>4. QED
  BY <1>2, <1>3

LEMMA Quotient ==
  ASSUME NEW m \in Nat \ {0}, NEW q \in Int, NEW r \in Nat, r < m
  PROVE  (m * q + r) \div m = q /\ (m * q + r) % m = r
<1> DEFINE n == m * q + r
<1> DEFINE p == n \div m
<1> DEFINE s == n % m
<1>1. n \in Int
  OBVIOUS
<1>2. p \in Int /\ s \in Nat /\ s < m /\ n = m * p + s
  BY <1>1, Division
<1>3. ~(p < q)
  BY <1>2, Apart
<1>4. ~(q < p)
  BY <1>2, Apart
<1>5. p = q
  BY <1>2, <1>3, <1>4
<1>6. s = r
  BY <1>2, <1>5
<1>7. QED
  BY <1>5, <1>6

(* The quotient of a natural number is one, and less when it was less.     *)
LEMMA QuotientBelow ==
  ASSUME NEW m \in Nat \ {0}, NEW n \in Nat, NEW b \in Nat
  PROVE  n \div m \in Nat /\ (n < b * m => n \div m < b)
<1> DEFINE q == n \div m
<1> DEFINE r == n % m
<1>1. q \in Int /\ r \in Nat /\ r < m /\ n = m * q + r
  BY Division
<1> HIDE DEF q, r
<1>2. ~(q < 0)
  <2>1. ASSUME q < 0 PROVE FALSE
    <3>1. m * q + m <= m * 0
      BY <1>1, <2>1, Apart
    <3>2. QED
      BY <1>1, <3>1
  <2>2. QED
    BY <2>1
<1>3. ASSUME n < b * m, ~(q < b) PROVE FALSE
  <2>1. CASE q = b
    BY <1>1, <1>3, <2>1
  <2>2. CASE b < q
    <3>1. m * b + m <= m * q
      BY <1>1, <2>2, Apart
    <3>2. QED
      BY <1>1, <1>3, <3>1
  <2>3. QED
    BY <1>1, <1>3, <2>1, <2>2
<1>4. QED
  BY <1>1, <1>2, <1>3 DEF q


LEMMA QuotientIsNat ==
  ASSUME NEW m \in Nat \ {0}, NEW n \in Nat
  PROVE  n \div m \in Nat
BY 0 \in Nat, QuotientBelow

LEMMA Divided ==
  ASSUME NEW m \in Nat \ {0}, NEW n \in Nat
  PROVE  \E q, r \in Nat : n \div m = q /\ n % m = r /\ r < m /\ n = m * q + r
<1>1. n \in Int
  OBVIOUS
<1>2. n % m \in Nat /\ n % m < m /\ n = m * (n \div m) + (n % m)
  BY <1>1, Division
<1>3. n \div m \in Nat
  BY QuotientIsNat
<1>4. QED
  BY <1>2, <1>3

LEMMA DividedTwice ==
  ASSUME NEW x \in Nat, NEW m \in Nat \ {0}, NEW p \in Nat \ {0}
  PROVE  (x \div m) \div p = x \div (m * p)
<1>1. PICK q, r \in Nat : x \div m = q /\ r < m /\ x = m * q + r
  BY Divided
<1>2. q \in Nat
  OBVIOUS
<1>3. PICK s, t \in Nat : q \div p = s /\ t < p /\ q = p * s + t
  BY <1>2, Divided
<1>4. s \in Nat /\ t \in Nat
  OBVIOUS
<1>5. m * t + m <= m * p
  BY <1>3, Apart
<1>6. PICK a \in Nat : a = m * t + r
  OBVIOUS
<1>7. PICK b \in Nat \ {0} : b = m * p
  <2>1. m * p \in Nat /\ m * p # 0
    OBVIOUS
  <2>2. QED
    BY <2>1
<1>8. a < b
  BY <1>1, <1>5, <1>6, <1>7
<1>9. m * (p * s + t) = (m * p) * s + m * t
  OBVIOUS
<1>10. x = b * s + a
  BY <1>1, <1>3, <1>6, <1>7, <1>9
<1>11. x \div b = s
  BY <1>8, <1>10, Quotient
<1>12. QED
  BY <1>1, <1>3, <1>7, <1>11

-----------------------------------------------------------------------------
(* Bits of numbers, from the lowest: bit 0.                                *)
BitAt(x, k) == (x \div Pow(k)) % 2

LEMMA BitIsBit ==
  ASSUME NEW x \in Nat, NEW k \in Nat
  PROVE  BitAt(x, k) \in 0 .. 1
<1>1. x \div Pow(k) \in Nat
  BY PowersAreNumbers, QuotientIsNat
<1>2. QED
  BY <1>1 DEF BitAt

(* h above, l in the lowest d bits.                                        *)
LEMMA UpperBits ==
  ASSUME NEW h \in Nat, NEW d \in Nat, NEW l \in Nat, l < Pow(d), NEW k \in Nat
  PROVE  BitAt(h * Pow(d) + l, d + k) = BitAt(h, k)
<1>1. PICK m \in Nat \ {0} : m = Pow(d)
  BY PowersAreNumbers
<1>2. PICK p \in Nat \ {0} : p = Pow(k)
  BY PowersAreNumbers
<1>3. Pow(d + k) = m * p
  BY <1>1, <1>2, PowersMultiply
<1>4. PICK x \in Nat : x = m * h + l
  OBVIOUS
<1>5. x \div m = h
  BY <1>1, <1>4, Quotient
<1>6. h \div p = x \div (m * p)
  BY <1>5, DividedTwice
<1>7. h * Pow(d) + l = x
  BY <1>1, <1>4
<1>8. QED
  BY <1>2, <1>3, <1>6, <1>7 DEF BitAt

LEMMA LowerBits ==
  ASSUME NEW h \in Nat, NEW d \in Nat, NEW l \in Nat, NEW k \in Nat, k < d
  PROVE  BitAt(h * Pow(d) + l, k) = BitAt(l, k)
<1>1. PICK p \in Nat \ {0} : p = Pow(k)
  BY PowersAreNumbers
<1>2. PICK j \in Nat : d = k + (j + 1)
  <2>1. d - k - 1 \in Nat /\ d = k + ((d - k - 1) + 1)
    OBVIOUS
  <2>2. QED
    BY <2>1
<1>3. PICK e \in Nat : e = Pow(j)
  BY <1>2, PowersAreNumbers
<1>4. Pow(j + 1) = 2 * e
  BY <1>2, <1>3, PowersRecur
<1>5. Pow(d) = p * (2 * e)
  <2>1. Pow(k + (j + 1)) = Pow(k) * Pow(j + 1)
    BY <1>2, PowersMultiply
  <2>2. QED
    BY <1>1, <1>2, <1>4, <2>1
<1>6. PICK q, r \in Nat : l \div p = q /\ r < p /\ l = p * q + r
  BY Divided
<1>7. q \in Nat /\ r \in Nat
  OBVIOUS
<1>8. PICK c \in Nat : c = h * e
  BY <1>3
<1>9. h * (p * (2 * e)) = p * (2 * c)
  <2>1. h * (p * (2 * e)) = p * (2 * (h * e))
    BY <1>3
  <2>2. QED
    BY <1>8, <2>1
<1>10. p * (2 * c) + p * q = p * (2 * c + q)
  <2>1. \A u, w \in Nat : p * u + p * w = p * (u + w)
    OBVIOUS
  <2>2. 2 * c \in Nat
    BY <1>8
  <2>3. QED
    BY <1>7, <2>1, <2>2
<1>11. h * Pow(d) + l = p * (2 * c + q) + r
  BY <1>5, <1>6, <1>9, <1>10
<1>12. (p * (2 * c + q) + r) \div p = 2 * c + q
  BY <1>6, <1>7, <1>8, Quotient
<1>13. (2 * c + q) % 2 = q % 2
  BY <1>6, <1>8
<1>14. QED
  BY <1>1, <1>6, <1>11, <1>12, <1>13 DEF BitAt

LEMMA MergedFits ==
  ASSUME NEW a \in Nat, NEW b \in Nat, NEW h \in Nat, h < Pow(a), NEW l \in Nat, l < Pow(b)
  PROVE  h * Pow(b) + l \in Nat /\ h * Pow(b) + l < Pow(a + b)
<1>1. PICK m \in Nat \ {0} : m = Pow(b)
  BY PowersAreNumbers
<1>2. PICK p \in Nat \ {0} : p = Pow(a)
  BY PowersAreNumbers
<1>3. m * h + m <= m * p
  BY <1>1, <1>2, Apart
<1>4. Pow(a + b) = m * p
  BY <1>1, <1>2, PowersMultiply
<1>5. QED
  BY <1>1, <1>2, <1>3, <1>4

LEMMA CutFits ==
  ASSUME NEW a \in Nat, NEW b \in Nat, NEW x \in Nat
  PROVE  /\ x < Pow(a + b) => x \div Pow(b) \in Nat /\ x \div Pow(b) < Pow(a)
         /\ x % Pow(b) \in Nat /\ x % Pow(b) < Pow(b)
         /\ x = (x \div Pow(b)) * Pow(b) + (x % Pow(b))
<1>1. PICK m \in Nat \ {0} : m = Pow(b)
  BY PowersAreNumbers
<1>2. PICK p \in Nat \ {0} : p = Pow(a)
  BY PowersAreNumbers
<1>3. Pow(a + b) = p * m
  BY <1>1, <1>2, PowersMultiply
<1>4. x < p * m => x \div m < p
  BY QuotientBelow
<1>5. PICK q, r \in Nat : x \div m = q /\ x % m = r /\ r < m /\ x = m * q + r
  BY Divided
<1>6. x \div Pow(b) = q /\ x % Pow(b) = r
  BY <1>1, <1>5
<1>7. x = q * m + r
  BY <1>5
<1>8. x < Pow(a + b) => q < Pow(a)
  BY <1>2, <1>3, <1>4, <1>5
<1>9. QED
  BY <1>1, <1>5, <1>6, <1>7, <1>8

(* A number that fits is not changed by its conversion.                    *)
LEMMA ConversionKeeps ==
  ASSUME NEW x \in Nat, x < Pow(W)
  PROVE  T(x) = x
<1>1. PICK m \in Nat \ {0} : m = Pow(W)
  BY PowersAreNumbers, WidthAssumption
<1>2. (m * 0 + x) % m = x
  BY <1>1, Quotient
<1>3. m * 0 + x = x
  BY <1>1
<1>4. QED
  BY <1>1, <1>2, <1>3 DEF T

LEMMA BitsAre ==
  ASSUME NEW v \in Nat, NEW n \in Nat
  PROVE  /\ BitsOf(v, n) \in Seq(0 .. 1) /\ Len(BitsOf(v, n)) = n
         /\ \A i \in 1 .. n : BitsOf(v, n)[i] = BitAt(v, n - i)
<1>1. \A i \in 1 .. n : (v \div Pow(n - i)) % 2 \in 0 .. 1
  BY BitIsBit DEF BitAt
<1>2. QED
  BY <1>1 DEF BitsOf, BitAt


LEMMA PowersGrow ==
  ASSUME NEW a \in Nat, NEW b \in Nat, a <= b
  PROVE  Pow(a) <= Pow(b)
<1>1. PICK d \in Nat : b = a + d
  <2>1. b - a \in Nat /\ b = a + (b - a)
    OBVIOUS
  <2>2. QED
    BY <2>1
<1>2. PICK m \in Nat \ {0} : m = Pow(a)
  BY PowersAreNumbers
<1>3. PICK p \in Nat : p = Pow(d) - 1
  <2>1. Pow(d) - 1 \in Nat
    BY PowersAreNumbers
  <2>2. QED
    BY <2>1
<1>4. Pow(d) = p + 1
  BY <1>3, PowersAreNumbers
<1>5. Pow(b) = m * (p + 1)
  BY <1>1, <1>2, <1>4, PowersMultiply
<1>6. m * (p + 1) = m * p + m /\ m * p \in Nat
  OBVIOUS
<1>7. QED
  BY <1>2, <1>5, <1>6

LEMMA RemainderTwice ==
  ASSUME NEW k \in Nat, NEW b \in Nat, b <= k, NEW x \in Nat
  PROVE  (x % Pow(k)) % Pow(b) = x % Pow(b)
<1> DEFINE a == k - b
<1>1. PICK m \in Nat \ {0} : m = Pow(b)
  BY PowersAreNumbers
<1>2. PICK p \in Nat \ {0} : p = Pow(a)
  BY PowersAreNumbers
<1>3. PICK c \in Nat \ {0} : c = Pow(k)
  BY PowersAreNumbers
<1>4. c = m * p
  <2>1. a \in Nat /\ b + a = k
    OBVIOUS
  <2>2. Pow(b + a) = Pow(b) * Pow(a)
    BY <2>1, PowersMultiply
  <2>3. QED
    BY <1>1, <1>2, <1>3, <2>1, <2>2
<1>5. PICK q, y \in Nat : x % c = y /\ x = c * q + y
  BY Divided
<1>6. y \in Nat
  OBVIOUS
<1>7. PICK z, t \in Nat : y % m = t /\ t < m /\ y = m * z + t
  BY <1>6, Divided
<1>8. (m * p) * q + m * z = m * (p * q + z)
  OBVIOUS
<1>9. PICK s \in Nat : s = p * q + z
  OBVIOUS
<1>10. x = m * s + t
  BY <1>4, <1>5, <1>7, <1>8, <1>9
<1>11. x % m = t
  BY <1>7, <1>10, Quotient
<1>12. QED
  BY <1>1, <1>3, <1>5, <1>7, <1>11

-----------------------------------------------------------------------------
(* Bit j of a word, from the highest: bit 1.                               *)
WordBit(w, j) == BitAt(w, W - j)

LEMMA WordsAre == \A w : w \in Words <=> w \in Nat /\ w < Pow(W)
<1>1. PICK m \in Nat \ {0} : m = Pow(W)
  BY PowersAreNumbers, WidthAssumption
<1>2. QED
  BY <1>1 DEF Words

(* The lowest m bits of x are bits of y, those below its bit k.            *)
SameBits(x, m, y, k) == \A i \in 1 .. m : BitAt(x, m - i) = BitAt(y, k - i)

(* h above l, in the lowest d bits.                                        *)
LEMMA MergedBits ==
  ASSUME NEW a \in Nat, NEW d \in Nat, NEW n, n = a + d,
         NEW h \in Nat, NEW l \in Nat, l < Pow(d), NEW x, x = h * Pow(d) + l
  PROVE  SameBits(h, a, x, n) /\ SameBits(l, d, x, d)
<1>1. ASSUME NEW j \in 1 .. a
      PROVE  BitAt(h, a - j) = BitAt(x, n - j)
  <2>1. a - j \in Nat /\ n - j = d + (a - j)
    OBVIOUS
  <2>2. QED
    BY <2>1, UpperBits
<1>2. ASSUME NEW i \in 1 .. d
      PROVE  BitAt(l, d - i) = BitAt(x, d - i)
  <2>1. d - i \in Nat /\ d - i < d
    OBVIOUS
  <2>2. QED
    BY <2>1, LowerBits
<1>3. QED
  BY <1>1, <1>2 DEF SameBits

(* What write and flush make of the bits that wait, with l behind them: a  *)
(* word of which no bit is lost.                                           *)
LEMMA WordFits ==
  ASSUME NEW wb \in Nat, NEW d \in Nat, W = wb + d,
         NEW ob \in Nat, ob < Pow(wb), NEW l \in Nat, l < Pow(d),
         NEW x, x = ob * Pow(d) + l
  PROVE  T(ob * Pow(d)) = ob * Pow(d) /\ T(x) = x /\ x \in Words
<1>1. ob * Pow(d) + l \in Nat /\ ob * Pow(d) + l < Pow(W)
  BY MergedFits
<1>2. ob * Pow(d) \in Nat /\ ob * Pow(d) < Pow(W)
  <2>1. 0 < Pow(d) /\ 0 \in Nat /\ Pow(d) \in Nat
    BY PowersAreNumbers
  <2>2. ob * Pow(d) + 0 \in Nat /\ ob * Pow(d) + 0 < Pow(wb + d)
    BY <2>1, MergedFits
  <2>3. ob * Pow(d) \in Nat
    BY <2>1
  <2>4. ob * Pow(d) + 0 = ob * Pow(d)
    BY <2>3
  <2>5. QED
    BY <2>2, <2>4
<1>3. QED
  BY <1>1, <1>2, ConversionKeeps, WordsAre

-----------------------------------------------------------------------------
(* The words of a file hold the bits sent, as far as those go.             *)
Holds(f, s) ==
  \A k \in 1 .. Len(f), j \in 1 .. W :
    W * (k - 1) + j <= Len(s) => s[W * (k - 1) + j] = WordBit(f[k], j)

Types ==
  /\ file \in Seq(Words) /\ sent \in Seq(0 .. 1) /\ received \in Seq(0 .. 1)
  /\ waitingbits \in 0 .. W - 1 /\ flushed \in BOOLEAN
  /\ obuffer \in Nat /\ (~flushed => obuffer < Pow(waitingbits))
  /\ spos \in Nat /\ readbits \in 0 .. W
  /\ ibuffer \in Nat /\ ibuffer < Pow(readbits)

(* What waits in the buffer follows what the words hold; a flushed stream  *)
(* has as many words as its bits need.                                     *)
WriterInv ==
  /\ Holds(file, sent)
  /\ ~flushed =>
       /\ Len(sent) = W * Len(file) + waitingbits
       /\ \A j \in 1 .. waitingbits :
            sent[W * Len(file) + j] = BitAt(obuffer, waitingbits - j)
  /\ flushed =>
       /\ waitingbits = 0
       /\ Len(sent) <= W * Len(file) /\ W * Len(file) < Len(sent) + W

(* The reader's buffer is what is left of the word it has come to.         *)
ReaderInv ==
  /\ ~flushed => spos = 0
  /\ spos = 0 => readbits = 0 /\ received = <<>>
  /\ spos # 0 => readbits # 0 /\ Len(received) = W * spos - readbits
  /\ spos \in 1 .. Len(file) => ibuffer = file[spos] % Pow(readbits)
  /\ Len(received) <= Len(sent)
  /\ \A i \in 1 .. Len(received) : received[i] = sent[i]

IInv == Types /\ WriterInv /\ ReaderInv

-----------------------------------------------------------------------------
LEMMA Appended ==
  ASSUME NEW S, NEW s \in Seq(S), NEW e \in S
  PROVE  /\ Append(s, e) \in Seq(S) /\ Len(Append(s, e)) = Len(s) + 1
         /\ Append(s, e)[Len(s) + 1] = e
         /\ \A i \in 1 .. Len(s) : Append(s, e)[i] = s[i]
  OBVIOUS

LEMMA Joined ==
  ASSUME NEW S, NEW s \in Seq(S), NEW t \in Seq(S)
  PROVE  /\ s \o t \in Seq(S) /\ Len(s \o t) = Len(s) + Len(t)
         /\ \A i \in 1 .. Len(s) : (s \o t)[i] = s[i]
         /\ \A i \in 1 .. Len(t) : (s \o t)[Len(s) + i] = t[i]
  OBVIOUS

(* More bits than the words hold do not disturb them.                      *)
LEMMA HoldsStill ==
  ASSUME NEW f \in Seq(Words), NEW s \in Seq(0 .. 1), NEW t \in Seq(0 .. 1),
         Holds(f, s), W * Len(f) <= Len(s)
  PROVE  Holds(f, s \o t)
<1>1. SUFFICES ASSUME NEW k \in 1 .. Len(f), NEW j \in 1 .. W
               PROVE  (s \o t)[W * (k - 1) + j] = WordBit(f[k], j)
  BY DEF Holds
<1>2. k - 1 \in Int /\ Len(f) \in Int /\ k - 1 < Len(f) /\ W \in Nat \ {0}
  BY WidthAssumption
<1>3. W * (k - 1) + W <= W * Len(f)
  BY <1>2, Apart
<1>4. PICK p \in Int : p = W * (k - 1)
  BY <1>2
<1>5. p >= 0
  <2>1. PICK a \in Nat : a = k - 1
    BY k - 1 \in Nat
  <2>2. W * a \in Nat
    BY <1>2
  <2>3. QED
    BY <1>4, <2>1, <2>2
<1>6. p + j \in 1 .. Len(s)
  <2>1. PICK c \in Int : c = W * Len(f)
    BY <1>2
  <2>2. p + W <= c /\ c <= Len(s)
    BY <1>3, <1>4, <2>1
  <2>3. Len(s) \in Int /\ W \in Int /\ j \in Int /\ 1 <= j /\ j <= W
    BY <1>2
  <2>4. QED
    BY <1>5, <2>1, <2>2, <2>3
<1>7. s[p + j] = WordBit(f[k], j)
  BY <1>4, <1>6 DEF Holds
<1>8. (s \o t)[p + j] = s[p + j]
  BY <1>6, Joined
<1>9. QED
  BY <1>4, <1>7, <1>8

(* A word that completes those bits joins them.                            *)
LEMMA HoldsNext ==
  ASSUME NEW f \in Seq(Words), NEW w \in Words, NEW s \in Seq(0 .. 1),
         Holds(f, s), W * Len(f) <= Len(s),
         \A j \in 1 .. W : W * Len(f) + j <= Len(s) => s[W * Len(f) + j] = WordBit(w, j)
  PROVE  Holds(Append(f, w), s)
<1>1. SUFFICES ASSUME NEW k \in 1 .. Len(Append(f, w)), NEW j \in 1 .. W,
                      W * (k - 1) + j <= Len(s)
               PROVE  s[W * (k - 1) + j] = WordBit(Append(f, w)[k], j)
  BY DEF Holds
<1>2. Len(Append(f, w)) = Len(f) + 1 /\ Append(f, w)[Len(f) + 1] = w
  BY Appended
<1>3. CASE k = Len(f) + 1
  <2>1. k - 1 = Len(f)
    BY <1>3
  <2>2. QED
    BY <1>1, <1>2, <1>3, <2>1
<1>4. CASE k # Len(f) + 1
  <2>1. k \in 1 .. Len(f)
    BY <1>2, <1>4
  <2>2. Append(f, w)[k] = f[k]
    BY <2>1, Appended
  <2>3. QED
    BY <1>1, <2>1, <2>2 DEF Holds
<1>5. QED
  BY <1>3, <1>4


(* push writes the one bit of a value.                                     *)
LEMMA PushIsWrite ==
  ASSUME Types, NEW v \in 0 .. 1, Push(v)
  PROVE  Write(v, 1)
<1>1. ~flushed /\ waitingbits \in Nat /\ waitingbits + 1 <= W /\ obuffer < Pow(waitingbits)
      /\ obuffer \in Nat /\ W \in Nat \ {0}
  BY WidthAssumption DEF Types, Push
<1>2. Pow(0) = 1 /\ Pow(1) = 2
  <2>1. Pow(0) = 1 /\ Pow(0 + 1) = 2 * Pow(0)
    BY PowersRecur
  <2>2. QED
    BY <2>1
<1>3. Append(sent, v) = sent \o BitsOf(v, 1)
  <2>1. BitsOf(v, 1) = << v >>
    <3>1. (v \div Pow(1 - 1)) % 2 = v
      BY <1>2
    <3>2. \A i \in 1 .. 1 : i = 1
      OBVIOUS
    <3>3. BitsOf(v, 1) = [i \in 1 .. 1 |-> v]
      BY <3>1, <3>2 DEF BitsOf
    <3>4. QED
      BY <3>3
  <2>2. \A s \in Seq(0 .. 1) : Append(s, v) = s \o << v >>
    OBVIOUS
  <2>3. sent \in Seq(0 .. 1)
    BY DEF Types
  <2>4. QED
    BY <2>1, <2>2, <2>3
<1>4. CASE waitingbits + 1 >= W
  <2>1. waitingbits + 1 = W
    BY <1>1, <1>4
  <2>2. (waitingbits + 1) % W = 0
    <3>1. PICK w \in Nat \ {0} : w = W
      BY <1>1
    <3>2. (w * 1 + 0) % w = 0
      BY Quotient
    <3>3. QED
      BY <2>1, <3>1, <3>2
  <2>3. W - waitingbits = 1
    BY <1>1, <2>1
  <2>4. T(obuffer * Pow(1)) = T(obuffer * 2)
    BY <1>2
  <2>5. T(obuffer * 2) \in Nat /\ T(obuffer * 2) < Pow(W)
    <3>1. PICK m \in Nat \ {0} : m = Pow(W)
      BY PowersAreNumbers, <1>1
    <3>2. obuffer * 2 \in Nat
      BY <1>1
    <3>3. (obuffer * 2) % m \in Nat /\ (obuffer * 2) % m < m
      BY <3>2, Division
    <3>4. QED
      BY <3>1, <3>3 DEF T
  <2>6. obuffer * Pow(1) + v = T(obuffer * 2) + v /\ T(obuffer * 2 + v) = obuffer * 2 + v
    <3>1. v < Pow(1) /\ v \in Nat
      BY <1>2
    <3>2. T(obuffer * Pow(1)) = obuffer * Pow(1) /\ T(obuffer * Pow(1) + v) = obuffer * Pow(1) + v
      BY <1>1, <2>1, <3>1, WordFits
    <3>3. QED
      BY <1>2, <3>2
  <2>7. T(T(obuffer * Pow(1)) + v \div Pow(0)) = T(obuffer * 2) + v
    BY <1>1, <1>2, <2>4, <2>6
  <2>8. v % Pow(0) = 0
    BY <1>2
  <2>9. QED
    BY <1>3, <1>4, <2>2, <2>3, <2>7, <2>8 DEF Push, Write, Fills
<1>5. CASE ~(waitingbits + 1 >= W)
  <2>1. PICK d \in Nat : W = waitingbits + 1 + d
    <3>1. W - waitingbits - 1 \in Nat
      BY <1>1, <1>5
    <3>2. QED
      BY <1>1, <3>1
  <2>2. v < Pow(1) /\ v \in Nat
    BY <1>2
  <2>3. obuffer * Pow(1) + v \in Nat /\ obuffer * Pow(1) + v < Pow(waitingbits + 1)
    BY <1>1, <2>2, MergedFits
  <2>4. Pow(waitingbits + 1) <= Pow(W) /\ Pow(waitingbits + 1) \in Nat /\ Pow(W) \in Nat
    BY <1>1, <2>1, PowersGrow, PowersAreNumbers
  <2>5. obuffer * 2 + v \in Nat /\ obuffer * 2 \in Nat /\ obuffer * 2 + v < Pow(W) /\ obuffer * 2 < Pow(W)
    BY <1>1, <1>2, <2>3, <2>4
  <2>6. T(obuffer * 2) = obuffer * 2 /\ T(obuffer * 2 + v) = obuffer * 2 + v
    BY <2>5, ConversionKeeps
  <2>7. T(obuffer * 2) + v = T(obuffer * Pow(1) + v)
    BY <1>2, <2>6
  <2>8. QED
    BY <1>3, <1>5, <2>7 DEF Push, Write, Fills
<1>6. QED
  BY <1>4, <1>5


LEMMA WriteFills ==
  ASSUME Types, WriterInv, NEW n \in 1 .. W, NEW v \in Nat, v < Pow(n), Write(v, n), Fills(n)
  PROVE  /\ file' \in Seq(Words) /\ waitingbits' \in 0 .. W - 1
         /\ obuffer' \in Nat /\ obuffer' < Pow(waitingbits')
         /\ Holds(file', sent') /\ Len(sent') = W * Len(file') + waitingbits'
         /\ \A j \in 1 .. waitingbits' :
              sent'[W * Len(file') + j] = BitAt(obuffer', waitingbits' - j)
<1>1. PICK wb \in Nat : wb = waitingbits
  BY DEF Types
<1>2. PICK ob \in Nat : ob = obuffer
  BY DEF Types
<1>3. W \in Nat \ {0} /\ wb < W /\ ob < Pow(wb) /\ n \in Nat /\ wb + n >= W
  BY <1>1, <1>2, WidthAssumption DEF Types, Write, Fills
<1>4. PICK d \in Nat : d = W - wb
  BY <1>3, W - wb \in Nat
<1>5. PICK r \in Nat : r = wb + n - W
  BY <1>3, wb + n - W \in Nat
<1>6. n = d + r /\ W = wb + d /\ r < W /\ d >= 1
  BY <1>3, <1>4, <1>5
<1>7. (wb + n) % W = r
  <2>1. (W * 1 + r) % W = r
    BY <1>3, <1>6, Quotient
  <2>2. W * 1 + r = wb + n
    BY <1>3, <1>5
  <2>3. QED
    BY <2>1, <2>2
<1>8. PICK top : top = v \div Pow(r)
  OBVIOUS
<1>9. PICK low : low = v % Pow(r)
  OBVIOUS
<1>10. /\ top \in Nat /\ top < Pow(d) /\ low \in Nat /\ low < Pow(r)
       /\ SameBits(top, d, v, n) /\ SameBits(low, r, v, r)
  <2>1. top \in Nat /\ top < Pow(d) /\ low \in Nat /\ low < Pow(r) /\ v = top * Pow(r) + low
    BY <1>6, <1>8, <1>9, CutFits
  <2>2. QED
    BY <2>1, <1>6, MergedBits
<1>11. PICK w : w = ob * Pow(d) + top
  OBVIOUS
<1>11a. /\ T(ob * Pow(d)) = ob * Pow(d) /\ T(w) = w /\ w \in Words
       /\ SameBits(ob, wb, w, W) /\ SameBits(top, d, w, d)
  BY <1>3, <1>6, <1>10, <1>11, WordFits, MergedBits
<1>12. PICK bits \in Seq(0 .. 1) : bits = BitsOf(v, n)
  BY <1>3, BitsAre
<1>13. Len(bits) = n /\ \A i \in 1 .. n : bits[i] = BitAt(v, n - i)
  BY <1>3, <1>12, BitsAre
<1>14. ~flushed /\ sent' = sent \o bits
  BY <1>12 DEF Write
<1>15. file' = Append(file, w) /\ waitingbits' = r /\ obuffer' = low
  BY <1>1, <1>2, <1>4, <1>7, <1>8, <1>9, <1>11, <1>11a DEF Write, Fills
<1>16. PICK f \in Seq(Words) : f = file
  BY DEF Types
<1>17. PICK s \in Seq(0 .. 1) : s = sent
  BY DEF Types
<1>18. PICK c \in Nat : c = W * Len(f)
  BY <1>3
<1>19. Holds(f, s) /\ Len(s) = c + wb /\ \A j \in 1 .. wb : s[c + j] = BitAt(ob, wb - j)
  BY <1>1, <1>2, <1>14, <1>16, <1>17, <1>18 DEF WriterInv
<1>20. /\ Len(s \o bits) = c + wb + n
       /\ \A i \in 1 .. c + wb : (s \o bits)[i] = s[i]
       /\ \A i \in 1 .. n : (s \o bits)[c + wb + i] = bits[i]
  <2>1. /\ Len(s \o bits) = Len(s) + Len(bits)
        /\ \A i \in 1 .. Len(s) : (s \o bits)[i] = s[i]
        /\ \A i \in 1 .. Len(bits) : (s \o bits)[Len(s) + i] = bits[i]
    BY Joined
  <2>2. QED
    BY <2>1, <1>13, <1>19
<1>21. Holds(f, s \o bits)
  BY <1>18, <1>19, HoldsStill
<1>22. ASSUME NEW j \in 1 .. W PROVE (s \o bits)[c + j] = WordBit(w, j)
  <2>1. CASE j <= wb
    <3>1. j \in 1 .. wb /\ c + j \in 1 .. c + wb
      BY <2>1
    <3>2. WordBit(w, j) = BitAt(ob, wb - j)
      BY <3>1, <1>11a DEF SameBits, WordBit
    <3>3. QED
      BY <3>1, <3>2, <1>19, <1>20
  <2>2. CASE ~(j <= wb)
    <3>1. PICK i \in 1 .. d : j = wb + i
      <4>1. j - wb \in 1 .. d /\ j = wb + (j - wb)
        BY <2>2, <1>6
      <4>2. QED
        BY <4>1
    <3>2. i \in 1 .. n /\ W - j = d - i /\ c + j = c + wb + i
      BY <3>1, <1>6
    <3>3. WordBit(w, j) = BitAt(top, d - i)
      BY <3>1, <3>2, <1>11a DEF SameBits, WordBit
    <3>4. BitAt(top, d - i) = BitAt(v, n - i)
      BY <3>1, <1>10 DEF SameBits
    <3>5. QED
      BY <3>1, <3>2, <3>3, <3>4, <1>13, <1>20
  <2>3. QED
    BY <2>1, <2>2
<1>23. Holds(Append(f, w), s \o bits)
  <2>1. W * Len(f) <= Len(s \o bits) /\ s \o bits \in Seq(0 .. 1)
    BY <1>3, <1>18, <1>20, Joined
  <2>2. QED
    BY <2>1, <1>18, <1>21, <1>22, <1>11a, HoldsNext
<1>24. W * Len(Append(f, w)) = c + W
  <2>1. Len(Append(f, w)) = Len(f) + 1
    BY Appended
  <2>2. W * (Len(f) + 1) = W * Len(f) + W
    BY <1>3
  <2>3. QED
    BY <1>18, <2>1, <2>2
<1>25. Len(s \o bits) = (c + W) + r
  BY <1>3, <1>5, <1>20
<1>26. ASSUME NEW j \in 1 .. r PROVE (s \o bits)[(c + W) + j] = BitAt(low, r - j)
  <2>1. PICK i \in 1 .. n : i = d + j
    BY <1>6, d + j \in 1 .. n
  <2>2. n - i = r - j /\ (c + W) + j = c + wb + i
    BY <2>1, <1>6
  <2>3. BitAt(low, r - j) = BitAt(v, r - j)
    BY <1>10 DEF SameBits
  <2>4. bits[i] = BitAt(v, n - i)
    BY <2>1, <1>13
  <2>5. (s \o bits)[c + wb + i] = bits[i]
    BY <2>1, <1>20
  <2>6. QED
    BY <2>2, <2>3, <2>4, <2>5
<1>27. Append(f, w) \in Seq(Words) /\ r \in 0 .. W - 1
  BY <1>6, <1>11a, Appended
<1>28. QED
  BY ONLY <1>10, <1>14, <1>15, <1>16, <1>17, <1>23, <1>24, <1>25, <1>26, <1>27

LEMMA WriteWaits ==
  ASSUME Types, WriterInv, NEW n \in 1 .. W, NEW v \in Nat, v < Pow(n), Write(v, n), ~Fills(n)
  PROVE  /\ file' \in Seq(Words) /\ waitingbits' \in 0 .. W - 1
         /\ obuffer' \in Nat /\ obuffer' < Pow(waitingbits')
         /\ Holds(file', sent') /\ Len(sent') = W * Len(file') + waitingbits'
         /\ \A j \in 1 .. waitingbits' :
              sent'[W * Len(file') + j] = BitAt(obuffer', waitingbits' - j)
<1>1. PICK wb \in Nat : wb = waitingbits
  BY DEF Types
<1>2. PICK ob \in Nat : ob = obuffer
  BY DEF Types
<1>3. W \in Nat \ {0} /\ ob < Pow(wb) /\ n \in Nat /\ wb + n < W
  BY <1>1, <1>2, WidthAssumption DEF Types, Write, Fills
<1>4. PICK b \in Nat : b = ob * Pow(n) + v /\ b < Pow(wb + n)
  BY <1>3, MergedFits
<1>5. T(ob * Pow(n) + v) = b
  <2>1. wb + n \in Nat /\ wb + n <= W /\ W \in Nat
    BY <1>3
  <2>2. Pow(wb + n) <= Pow(W) /\ Pow(wb + n) \in Nat /\ Pow(W) \in Nat
    BY <2>1, PowersGrow, PowersAreNumbers
  <2>3. b < Pow(W)
    BY <1>4, <2>2
  <2>4. QED
    BY <1>4, <2>3, ConversionKeeps
<1>6. PICK bits \in Seq(0 .. 1) : bits = BitsOf(v, n)
  BY <1>3, BitsAre
<1>7. Len(bits) = n /\ \A i \in 1 .. n : bits[i] = BitAt(v, n - i)
  BY <1>3, <1>6, BitsAre
<1>8. ~flushed /\ sent' = sent \o bits
  BY <1>6 DEF Write
<1>9. file' = file /\ waitingbits' = wb + n /\ obuffer' = b
  BY <1>1, <1>2, <1>5 DEF Write, Fills
<1>10. PICK f \in Seq(Words) : f = file
  BY DEF Types
<1>11. PICK s \in Seq(0 .. 1) : s = sent
  BY DEF Types
<1>12. PICK c \in Nat : c = W * Len(f)
  BY <1>3
<1>13. Holds(f, s) /\ Len(s) = c + wb /\ \A j \in 1 .. wb : s[c + j] = BitAt(ob, wb - j)
  BY <1>1, <1>2, <1>8, <1>10, <1>11, <1>12 DEF WriterInv
<1>14. /\ Len(s \o bits) = c + (wb + n)
       /\ \A i \in 1 .. c + wb : (s \o bits)[i] = s[i]
       /\ \A i \in 1 .. n : (s \o bits)[c + wb + i] = bits[i]
  <2>1. /\ Len(s \o bits) = Len(s) + Len(bits)
        /\ \A i \in 1 .. Len(s) : (s \o bits)[i] = s[i]
        /\ \A i \in 1 .. Len(bits) : (s \o bits)[Len(s) + i] = bits[i]
    BY Joined
  <2>2. QED
    BY <2>1, <1>7, <1>13
<1>15. Holds(f, s \o bits)
  BY <1>12, <1>13, HoldsStill
<1>16. ASSUME NEW j \in 1 .. wb + n PROVE (s \o bits)[c + j] = BitAt(b, (wb + n) - j)
  <2>1. CASE j <= wb
    <3>1. j \in 1 .. wb /\ c + j \in 1 .. c + wb /\ wb - j \in Nat /\ (wb + n) - j = n + (wb - j)
      BY <2>1
    <3>2. BitAt(b, n + (wb - j)) = BitAt(ob, wb - j)
      BY <3>1, <1>3, <1>4, UpperBits
    <3>3. QED
      BY <3>1, <3>2, <1>13, <1>14
  <2>2. CASE ~(j <= wb)
    <3>1. PICK i \in 1 .. n : j = wb + i
      <4>1. j - wb \in 1 .. n /\ j = wb + (j - wb)
        BY <2>2
      <4>2. QED
        BY <4>1
    <3>2. n - i \in Nat /\ n - i < n /\ (wb + n) - j = n - i /\ c + j = c + wb + i
      BY <3>1
    <3>3. BitAt(b, n - i) = BitAt(v, n - i)
      BY <3>2, <1>3, <1>4, LowerBits
    <3>4. QED
      BY <3>1, <3>2, <3>3, <1>7, <1>14
  <2>3. QED
    BY <2>1, <2>2
<1>17. wb + n \in 0 .. W - 1
  BY <1>3
<1>18. QED
  BY ONLY <1>4, <1>8, <1>9, <1>10, <1>11, <1>12, <1>14, <1>15, <1>16, <1>17


LEMMA WriteStep ==
  ASSUME IInv, NEW n \in 1 .. W, NEW v \in Nat, v < Pow(n), Write(v, n)
  PROVE  IInv'
<1>1. Types /\ WriterInv /\ ReaderInv
  BY DEF IInv
<1>2. /\ file' \in Seq(Words) /\ waitingbits' \in 0 .. W - 1
      /\ obuffer' \in Nat /\ obuffer' < Pow(waitingbits')
      /\ Holds(file', sent') /\ Len(sent') = W * Len(file') + waitingbits'
      /\ \A j \in 1 .. waitingbits' :
           sent'[W * Len(file') + j] = BitAt(obuffer', waitingbits' - j)
  BY <1>1, WriteFills, WriteWaits
<1>3. ~flushed /\ flushed' = flushed
      /\ spos' = spos /\ readbits' = readbits /\ ibuffer' = ibuffer /\ received' = received
  BY DEF Write, reader
<1>4. sent' \in Seq(0 .. 1)
  <2>1. v \in Nat /\ n \in Nat
    BY WidthAssumption
  <2>2. BitsOf(v, n) \in Seq(0 .. 1)
    BY <2>1, BitsAre
  <2>3. sent \in Seq(0 .. 1) /\ sent' = sent \o BitsOf(v, n)
    BY <1>1 DEF Types, Write
  <2>4. QED
    BY <2>2, <2>3, Joined
<1>5. Types'
  BY <1>1, <1>2, <1>3, <1>4 DEF Types
<1>6. WriterInv'
  BY <1>2, <1>3 DEF WriterInv
<1>7. ReaderInv'
  <2>1. spos = 0 /\ readbits = 0 /\ received = <<>>
    BY <1>1, <1>3 DEF ReaderInv
  <2>2. Len(sent') \in Nat
    BY <1>4
  <2>3. QED
    BY <1>3, <2>1, <2>2 DEF ReaderInv
<1>8. QED
  BY <1>5, <1>6, <1>7 DEF IInv

LEMMA FlushStep == ASSUME IInv, Flush PROVE IInv'
<1>1. Types /\ WriterInv /\ ReaderInv
  BY DEF IInv
<1>2. ~flushed /\ flushed' = TRUE /\ waitingbits' = 0 /\ sent' = sent
      /\ spos' = spos /\ readbits' = readbits /\ ibuffer' = ibuffer /\ received' = received
  BY DEF Flush, reader
<1>3. PICK c \in Nat : c = W * Len(file)
  <2>1. W \in Nat /\ Len(file) \in Nat
    BY <1>1, WidthAssumption DEF Types
  <2>2. QED
    BY <2>1
<1>4. /\ Holds(file, sent) /\ Len(sent) = c + waitingbits
      /\ \A j \in 1 .. waitingbits : sent[c + j] = BitAt(obuffer, waitingbits - j)
  BY <1>1, <1>2, <1>3 DEF WriterInv
<1>5. W \in Nat \ {0} /\ waitingbits \in 0 .. W - 1 /\ file \in Seq(Words) /\ sent \in Seq(0 .. 1)
      /\ obuffer \in Nat /\ obuffer < Pow(waitingbits)
  BY <1>1, <1>2, WidthAssumption DEF Types
<1>6. /\ file' \in Seq(Words) /\ obuffer' \in Nat /\ Holds(file', sent)
      /\ Len(sent) <= W * Len(file') /\ W * Len(file') < Len(sent) + W
  <2>1. CASE waitingbits = 0
    BY <2>1, <1>3, <1>4, <1>5 DEF Flush
  <2>2. CASE waitingbits # 0
    <3>1. PICK wb \in Nat : wb = waitingbits
      BY <1>5
    <3>2. PICK d \in Nat : d = W - wb /\ W = wb + d
      BY <1>5, <3>1, W - wb \in Nat
    <3>3. PICK ob \in Nat : ob = obuffer
      BY <1>5
    <3>4. PICK w : w = ob * Pow(d) + 0
      OBVIOUS
    <3>5. 0 \in Nat /\ 0 < Pow(d) /\ Pow(d) \in Nat
      BY PowersAreNumbers
    <3>6. T(ob * Pow(d)) = ob * Pow(d) /\ w \in Words /\ SameBits(ob, wb, w, W)
      BY <1>5, <3>1, <3>2, <3>3, <3>4, <3>5, WordFits, MergedBits
    <3>7. ob * Pow(d) = w
      BY <3>3, <3>4, <3>5
    <3>8. w \in Nat
      BY <3>6, WordsAre
    <3>9. file' = Append(file, w) /\ obuffer' = w
      BY <2>2, <3>1, <3>2, <3>3, <3>6, <3>7 DEF Flush
    <3>10. ASSUME NEW j \in 1 .. W, c + j <= Len(sent) PROVE sent[c + j] = WordBit(w, j)
      <4>1. j \in 1 .. wb
        BY <1>4, <1>5, <3>1, <3>10
      <4>2. BitAt(ob, wb - j) = BitAt(w, W - j)
        BY <3>6, <4>1 DEF SameBits
      <4>3. sent[c + j] = BitAt(ob, wb - j)
        BY <1>4, <3>1, <3>3, <4>1
      <4>4. QED
        BY <4>2, <4>3 DEF WordBit
    <3>11. Holds(Append(file, w), sent)
      <4>1. W * Len(file) <= Len(sent)
        BY <1>3, <1>4, <1>5
      <4>2. QED
        BY <1>3, <1>4, <1>5, <3>6, <3>10, <4>1, HoldsNext
    <3>12. W * Len(Append(file, w)) = c + W
      <4>1. Len(Append(file, w)) = Len(file) + 1 /\ Len(file) \in Nat
        BY <1>5, <3>6, Appended
      <4>2. W * (Len(file) + 1) = W * Len(file) + W
        BY <1>5, <4>1
      <4>3. QED
        BY <1>3, <4>1, <4>2
    <3>13. Append(file, w) \in Seq(Words)
      BY <1>5, <3>6, Appended
    <3>14. Len(sent) <= c + W /\ c + W < Len(sent) + W
      BY <1>4, <1>5, <2>2
    <3>15. QED
      BY <3>8, <3>9, <3>11, <3>12, <3>13, <3>14
  <2>3. QED
    BY <2>1, <2>2
<1>7. Types'
  BY <1>1, <1>2, <1>5, <1>6 DEF Types
<1>8. WriterInv'
  BY <1>2, <1>6 DEF WriterInv
<1>9. ReaderInv'
  <2>1. spos = 0 /\ readbits = 0 /\ received = <<>>
    BY <1>1, <1>2 DEF ReaderInv
  <2>2. Len(sent') \in Nat
    BY <1>2, <1>5
  <2>3. QED
    BY <1>2, <2>1, <2>2 DEF ReaderInv
<1>10. QED
  BY <1>7, <1>8, <1>9 DEF IInv

-----------------------------------------------------------------------------
(* The writer's part is over and stays as it is.                           *)
LEMMA WriterRests ==
  ASSUME WriterInv, UNCHANGED writer
  PROVE  WriterInv'
BY DEF WriterInv, writer, Holds

(* The reader stands as many bits before the end of word k as it has left. *)
LEMMA BufferFilled ==
  ASSUME Types, NEW r \in 0 .. W, NEW w \in Nat, w < Pow(r), NEW k \in Nat \ {0},
         k \in 1 .. Len(file) => w = file[k] % Pow(r),
         Becomes(r, w, k), file' = file
  PROVE  /\ spos' \in Nat \ {0} /\ readbits' \in 1 .. W
         /\ ibuffer' \in Nat /\ ibuffer' < Pow(readbits')
         /\ W * spos' - readbits' = W * k - r
         /\ spos' \in 1 .. Len(file') => ibuffer' = file'[spos'] % Pow(readbits')
<1>1. W \in Nat \ {0} /\ file \in Seq(Words)
  BY WidthAssumption DEF Types
<1>2. CASE r # 0
  BY <1>1, <1>2 DEF Becomes
<1>3. CASE r = 0
  <2>1. readbits' = W /\ spos' = k + 1
    BY <1>3 DEF Becomes
  <2>2. PICK x \in WordAt(k + 1) : ibuffer' = x
    BY <1>3 DEF Becomes
  <2>3. x \in Words /\ (k + 1 \in 1 .. Len(file) => x = file[k + 1])
    <3>1. CASE k + 1 \in 1 .. Len(file)
      <4>1. k + 1 \in DOMAIN file /\ file[k + 1] \in Words
        BY <1>1, <3>1
      <4>2. QED
        BY <2>2, <4>1 DEF WordAt
    <3>2. CASE ~(k + 1 \in 1 .. Len(file))
      <4>1. k + 1 \notin DOMAIN file
        BY <1>1, <3>2
      <4>2. QED
        BY <2>2, <3>2, <4>1 DEF WordAt
    <3>3. QED
      BY <3>1, <3>2
  <2>4. x \in Nat /\ x < Pow(W)
    BY <2>3, WordsAre
  <2>5. x % Pow(W) = x
    BY <2>4, ConversionKeeps DEF T
  <2>6. W * (k + 1) - W = W * k - r
    BY <1>1, <1>3
  <2>7. QED
    BY <1>1, <2>1, <2>2, <2>3, <2>4, <2>5, <2>6
<1>4. QED
  BY <1>2, <1>3


LEMMA OpenStep == ASSUME IInv, Open PROVE IInv'
<1>1. Types /\ WriterInv /\ ReaderInv
  BY DEF IInv
<1>2. flushed /\ spos = 0 /\ UNCHANGED writer /\ received' = received
  BY DEF Open
<1>3. /\ file' = file /\ waitingbits' = waitingbits /\ obuffer' = obuffer /\ flushed' = flushed
      /\ sent' = sent
  BY <1>2 DEF writer
<1>4. spos' = 1 /\ readbits' = W
  BY DEF Open
<1>5. W \in Nat \ {0} /\ file \in Seq(Words)
  BY <1>1, WidthAssumption DEF Types
<1>6. PICK x \in WordAt(1) : ibuffer' = x
  BY DEF Open
<1>7. x \in Words /\ (1 \in 1 .. Len(file) => x = file[1])
  <2>1. CASE 1 \in 1 .. Len(file)
    <3>1. 1 \in DOMAIN file /\ file[1] \in Words
      BY <1>5, <2>1
    <3>2. QED
      BY <1>6, <3>1 DEF WordAt
  <2>2. CASE ~(1 \in 1 .. Len(file))
    <3>1. 1 \notin DOMAIN file
      BY <1>5, <2>2
    <3>2. QED
      BY <1>6, <2>2, <3>1 DEF WordAt
  <2>3. QED
    BY <2>1, <2>2
<1>8. x \in Nat /\ x < Pow(W)
  BY <1>7, WordsAre
<1>9. x % Pow(W) = x
  BY <1>8, ConversionKeeps DEF T
<1>10. Types'
  BY <1>1, <1>2, <1>3, <1>4, <1>5, <1>6, <1>8 DEF Types
<1>11. WriterInv'
  BY <1>1, <1>2, WriterRests
<1>12. ReaderInv'
  <2>1. received = <<>> /\ Len(sent) \in Nat
    BY <1>1, <1>2 DEF ReaderInv, Types
  <2>2. W * 1 - W = 0
    BY <1>5
  <2>3. QED
    BY <1>2, <1>3, <1>4, <1>5, <1>6, <1>7, <1>9, <2>1, <2>2 DEF ReaderInv
<1>13. QED
  BY <1>10, <1>11, <1>12 DEF IInv

-----------------------------------------------------------------------------
(* Where the reader stands when it is asked for n bits that were written:  *)
(* in a word of the file, and if that has not as many left, not the last.  *)
LEMMA ReaderStands ==
  ASSUME IInv, NEW n \in 1 .. W, MayRead(n), spos > 0
  PROVE  /\ flushed /\ spos \in 1 .. Len(file) /\ readbits \in 1 .. W
         /\ Len(received) = W * spos - readbits
         /\ readbits < n => spos + 1 \in 1 .. Len(file)
<1>1. Types /\ WriterInv /\ ReaderInv
  BY DEF IInv
<1>2. W \in Nat \ {0} /\ spos \in Nat /\ readbits \in 0 .. W /\ Len(file) \in Nat
      /\ Len(sent) \in Nat
  BY <1>1, WidthAssumption DEF Types
<1>3. flushed /\ readbits # 0 /\ Len(received) = W * spos - readbits
  BY <1>1, <1>2 DEF ReaderInv
<1>4. Len(sent) <= W * Len(file)
  BY <1>1, <1>3 DEF WriterInv
<1>5. PICK a \in Nat : a = W * spos
  BY <1>2
<1>6. PICK c \in Nat : c = W * Len(file)
  BY <1>2
<1>7. a - readbits + n <= c
  BY <1>2, <1>3, <1>4, <1>5, <1>6 DEF MayRead
<1>8. ~(Len(file) < spos)
  <2>1. ASSUME Len(file) < spos PROVE FALSE
    <3>1. W * Len(file) + W <= W * spos
      BY <1>2, <2>1, Apart
    <3>2. c + W <= a
      BY <1>5, <1>6, <3>1
    <3>3. QED
      BY <1>2, <1>7, <3>2
  <2>2. QED
    BY <2>1
<1>9. ASSUME readbits < n, spos = Len(file) PROVE FALSE
  BY <1>2, <1>5, <1>6, <1>7, <1>9
<1>10. QED
  BY <1>2, <1>3, <1>8, <1>9

(* A bit of a word is the bit sent at its place.                           *)
LEMMA BitSent ==
  ASSUME IInv, NEW k \in 1 .. Len(file), NEW j \in 1 .. W, NEW p,
         p = W * (k - 1) + j, p <= Len(sent)
  PROVE  sent[p] = WordBit(file[k], j)
BY DEF IInv, WriterInv, Holds

(* The bits of the value read are those sent next.                         *)
NextSent(v, n) ==
  \A i \in 1 .. n : BitAt(v, n - i) = sent[Len(received) + i]

LEMMA ReadWithin ==
  ASSUME IInv, NEW n \in 1 .. W, NEW v \in Nat, v < Pow(n), MayRead(n), Read(n, v),
         ~(readbits < n)
  PROVE  /\ NextSent(v, n)
         /\ Rest(ibuffer, readbits - n) \in Nat
         /\ Rest(ibuffer, readbits - n) < Pow(readbits - n)
         /\ Rest(ibuffer, readbits - n) = file[spos] % Pow(readbits - n)
<1>1. Types /\ WriterInv /\ ReaderInv
  BY DEF IInv
<1>2. spos > 0
  BY DEF Read
<1>3. /\ spos \in 1 .. Len(file) /\ readbits \in 1 .. W
      /\ Len(received) = W * spos - readbits
  BY <1>2, ReaderStands
<1>4. W \in Nat \ {0} /\ file \in Seq(Words) /\ n \in Nat /\ Len(sent) \in Nat
      /\ spos \in Nat
  BY <1>1, WidthAssumption DEF Types
<1>5. PICK rb \in 1 .. W : rb = readbits
  BY <1>3
<1>6. PICK d \in Nat : d = rb - n /\ rb = d + n /\ rb = n + d
  BY <1>4, <1>5, rb - n \in Nat
<1>7. PICK w \in Nat : w = file[spos] /\ w < Pow(W)
  <2>1. file[spos] \in Words
    BY <1>3, <1>4
  <2>2. QED
    BY <2>1, WordsAre
<1>8. PICK ib \in Nat : ib = ibuffer /\ ib < Pow(rb)
  BY <1>1, <1>5 DEF Types
<1>9. ib = w % Pow(rb)
  BY <1>1, <1>3, <1>5, <1>7, <1>8 DEF ReaderInv
<1>10. rb \in Nat
  BY <1>4
<1>11. SameBits(ib, rb, w, rb)
  <2>1. PICK h \in Nat : w = h * Pow(rb) + ib
    <3>1. w = (w \div Pow(rb)) * Pow(rb) + (w % Pow(rb)) /\ w \div Pow(rb) \in Nat
      BY <1>10, CutFits, PowersAreNumbers, QuotientIsNat
    <3>2. QED
      BY <3>1, <1>9
  <2>2. PICK a \in Nat, m \in Nat : m = a + rb
    BY <1>10, 0 \in Nat
  <2>3. QED
    BY <1>8, <1>10, <2>1, <2>2, MergedBits
<1>12. v = ib \div Pow(d)
  BY <1>5, <1>6, <1>8 DEF Read
<1>13. PICK low : low = ib % Pow(d)
  OBVIOUS
<1>14. low \in Nat /\ low < Pow(d) /\ ib = v * Pow(d) + low
  BY <1>6, <1>8, <1>12, <1>13, CutFits
<1>15. SameBits(v, n, ib, rb)
  BY <1>4, <1>6, <1>14, MergedBits
<1>16. PICK c \in Int : c = W * (spos - 1)
  BY <1>4
<1>17. W * spos = c + W
  BY <1>4, <1>16
<1>18. ASSUME NEW i \in 1 .. n PROVE BitAt(v, n - i) = sent[Len(received) + i]
  <2>1. i \in 1 .. rb
    BY <1>4, <1>6
  <2>2. BitAt(v, n - i) = BitAt(ib, rb - i)
    BY <1>15 DEF SameBits
  <2>3. BitAt(ib, rb - i) = BitAt(w, rb - i)
    BY <1>11, <2>1 DEF SameBits
  <2>4. PICK j \in 1 .. W : j = W - rb + i /\ W - j = rb - i
    <3>1. W - rb + i \in 1 .. W /\ W - (W - rb + i) = rb - i
      BY <1>4, <1>5, <2>1
    <3>2. QED
      BY <3>1
  <2>5. PICK p \in Int : p = W * (spos - 1) + j
    BY <1>4
  <2>6. p = Len(received) + i
    BY <1>3, <1>4, <1>5, <1>16, <1>17, <2>4, <2>5
  <2>7. p <= Len(sent)
    BY <1>3, <1>4, <1>5, <1>17, <1>16, <2>6 DEF MayRead
  <2>8. sent[p] = WordBit(file[spos], j)
    BY <1>3, <2>5, <2>7, BitSent
  <2>9. QED
    BY <1>7, <2>2, <2>3, <2>4, <2>6, <2>8 DEF WordBit
<1>19. low = w % Pow(d)
  <2>1. d <= rb
    BY <1>4, <1>6
  <2>2. (w % Pow(rb)) % Pow(d) = w % Pow(d)
    BY <1>10, <2>1, RemainderTwice
  <2>3. QED
    BY <1>9, <1>13, <2>2
<1>20. Rest(ibuffer, readbits - n) = low
  BY <1>5, <1>6, <1>8, <1>13 DEF Rest
<1>21. QED
  BY <1>5, <1>6, <1>7, <1>14, <1>18, <1>19, <1>20 DEF NextSent


LEMMA ReadAcross ==
  ASSUME IInv, NEW n \in 1 .. W, NEW v \in Nat, v < Pow(n), MayRead(n), spos > 0,
         readbits < n, NEW w, w = file[spos + 1],
         v = T(ibuffer * Pow(n - readbits)) + w \div Pow(W - (n - readbits))
  PROVE  /\ NextSent(v, n)
         /\ Rest(w, W - (n - readbits)) \in Nat
         /\ Rest(w, W - (n - readbits)) < Pow(W - (n - readbits))
<1>1. Types /\ WriterInv /\ ReaderInv
  BY DEF IInv
<1>2. /\ spos \in 1 .. Len(file) /\ readbits \in 1 .. W
      /\ Len(received) = W * spos - readbits /\ spos + 1 \in 1 .. Len(file)
  BY ReaderStands
<1>3. W \in Nat \ {0} /\ file \in Seq(Words) /\ n \in Nat /\ Len(sent) \in Nat
      /\ spos \in Nat
  BY <1>1, WidthAssumption DEF Types
<1>4. PICK rb \in 1 .. W : rb = readbits
  BY <1>2
<1>5. rb \in Nat /\ rb < n
  BY <1>3, <1>4
<1>6. PICK d \in Nat : d = n - rb /\ n = rb + d /\ d <= W
  BY <1>3, <1>5, n - rb \in Nat
<1>7. PICK e \in Nat : e = W - d /\ W = d + e
  BY <1>3, <1>6, W - d \in Nat
<1>8. w \in Nat /\ w < Pow(W)
  <2>1. file[spos + 1] \in Words
    BY <1>2, <1>3
  <2>2. QED
    BY <2>1, WordsAre
<1>9. PICK x \in Nat : x = file[spos] /\ x < Pow(W)
  <2>1. file[spos] \in Words
    BY <1>2, <1>3
  <2>2. QED
    BY <2>1, WordsAre
<1>10. PICK ib \in Nat : ib = ibuffer /\ ib < Pow(rb)
  BY <1>1, <1>4 DEF Types
<1>11. ib = x % Pow(rb)
  BY <1>1, <1>2, <1>4, <1>9, <1>10 DEF ReaderInv
<1>12. SameBits(ib, rb, x, rb)
  <2>1. PICK h \in Nat : x = h * Pow(rb) + ib
    <3>1. x = (x \div Pow(rb)) * Pow(rb) + (x % Pow(rb)) /\ x \div Pow(rb) \in Nat
      BY <1>5, CutFits, PowersAreNumbers, QuotientIsNat
    <3>2. QED
      BY <3>1, <1>11
  <2>2. PICK a \in Nat, m \in Nat : m = a + rb
    BY <1>5, 0 \in Nat
  <2>3. QED
    BY <1>10, <1>5, <2>1, <2>2, MergedBits
<1>13. PICK top : top = w \div Pow(e)
  OBVIOUS
<1>14. PICK low : low = w % Pow(e)
  OBVIOUS
<1>15. top \in Nat /\ top < Pow(d) /\ low \in Nat /\ low < Pow(e) /\ w = top * Pow(e) + low
  BY <1>7, <1>8, <1>13, <1>14, CutFits
<1>16. T(ib * Pow(d)) = ib * Pow(d)
  <2>1. 0 < Pow(d) /\ 0 \in Nat /\ Pow(d) \in Nat
    BY PowersAreNumbers
  <2>2. ib * Pow(d) + 0 \in Nat /\ ib * Pow(d) + 0 < Pow(rb + d)
    BY <1>5, <1>10, <2>1, MergedFits
  <2>3. ib * Pow(d) \in Nat
    BY <2>1
  <2>4. Pow(n) <= Pow(W) /\ Pow(n) \in Nat /\ Pow(W) \in Nat
    BY <1>3, PowersGrow, PowersAreNumbers
  <2>5. ib * Pow(d) < Pow(W)
    BY <1>6, <2>2, <2>3, <2>4
  <2>6. QED
    BY <2>3, <2>5, ConversionKeeps
<1>17. v = ib * Pow(d) + top
  BY <1>4, <1>6, <1>7, <1>10, <1>13, <1>16
<1>18. SameBits(ib, rb, v, n) /\ SameBits(top, d, v, d)
  BY <1>5, <1>6, <1>15, <1>17, MergedBits
<1>19. SameBits(top, d, w, W)
  BY <1>7, <1>15, MergedBits
<1>20. PICK c \in Int : c = W * (spos - 1)
  BY <1>3
<1>21. W * spos = c + W
  BY <1>3, <1>20
<1>22. c + W - rb + n <= Len(sent) /\ Len(received) = c + W - rb
  BY <1>2, <1>3, <1>4, <1>21 DEF MayRead
<1>23. ASSUME NEW i \in 1 .. n PROVE BitAt(v, n - i) = sent[Len(received) + i]
  <2>1. CASE i <= rb
    <3>1. i \in 1 .. rb
      BY <1>5, <2>1
    <3>2. BitAt(v, n - i) = BitAt(ib, rb - i)
      BY <1>18, <3>1 DEF SameBits
    <3>3. BitAt(ib, rb - i) = BitAt(x, rb - i)
      BY <1>12, <3>1 DEF SameBits
    <3>4. PICK j \in 1 .. W : j = W - rb + i /\ W - j = rb - i
      <4>1. W - rb + i \in 1 .. W /\ W - (W - rb + i) = rb - i
        BY <1>3, <1>4, <3>1
      <4>2. QED
        BY <4>1
    <3>5. PICK p \in Int : p = W * (spos - 1) + j
      BY <1>3
    <3>6. p = Len(received) + i /\ p <= Len(sent)
      BY <1>3, <1>5, <1>20, <1>22, <3>4, <3>5
    <3>7. sent[p] = WordBit(file[spos], j)
      BY <1>2, <3>5, <3>6, BitSent
    <3>8. QED
      BY <1>9, <3>2, <3>3, <3>4, <3>6, <3>7 DEF WordBit
  <2>2. CASE ~(i <= rb)
    <3>1. PICK j \in 1 .. d : i = rb + j
      <4>1. i - rb \in 1 .. d /\ i = rb + (i - rb)
        BY <1>5, <1>6, <2>2
      <4>2. QED
        BY <4>1
    <3>2. n - i = d - j
      BY <1>5, <1>6, <3>1
    <3>3. BitAt(v, d - j) = BitAt(top, d - j)
      BY <1>18, <3>1 DEF SameBits
    <3>4. BitAt(top, d - j) = BitAt(w, W - j)
      BY <1>19, <3>1 DEF SameBits
    <3>5. j \in 1 .. W
      BY <1>3, <1>6, <3>1
    <3>6. PICK p \in Int : p = W * ((spos + 1) - 1) + j
      BY <1>3
    <3>7. p = Len(received) + i /\ p <= Len(sent)
      <4>1. (spos + 1) - 1 = spos
        BY <1>3
      <4>2. p = c + W + j
        BY <1>21, <3>6, <4>1
      <4>3. QED
        BY <1>3, <1>5, <1>20, <1>22, <3>1, <4>2
    <3>8. sent[p] = WordBit(file[spos + 1], j)
      BY <1>2, <3>5, <3>6, <3>7, BitSent
    <3>9. QED
      BY <3>2, <3>3, <3>4, <3>7, <3>8 DEF WordBit
  <2>3. QED
    BY <2>1, <2>2
<1>24. Rest(w, W - (n - readbits)) = low /\ W - (n - readbits) = e
  BY <1>4, <1>6, <1>7, <1>14 DEF Rest
<1>25. QED
  BY <1>15, <1>23, <1>24 DEF NextSent


LEMMA ReadStep ==
  ASSUME IInv, NEW n \in 1 .. W, NEW v \in Nat, v < Pow(n), MayRead(n), Read(n, v)
  PROVE  IInv'
<1>1. Types /\ WriterInv /\ ReaderInv
  BY DEF IInv
<1>2. spos > 0 /\ UNCHANGED writer /\ received' = received \o BitsOf(v, n)
  BY DEF Read
<1>3. /\ file' = file /\ waitingbits' = waitingbits /\ obuffer' = obuffer /\ flushed' = flushed
      /\ sent' = sent
  BY <1>2 DEF writer
<1>4. /\ flushed /\ spos \in 1 .. Len(file) /\ readbits \in 1 .. W
      /\ Len(received) = W * spos - readbits
      /\ readbits < n => spos + 1 \in 1 .. Len(file)
  BY <1>2, ReaderStands
<1>5. W \in Nat \ {0} /\ file \in Seq(Words) /\ n \in Nat /\ Len(sent) \in Nat /\ spos \in Nat
      /\ sent \in Seq(0 .. 1) /\ received \in Seq(0 .. 1)
  BY <1>1, WidthAssumption DEF Types
<1>6. /\ NextSent(v, n)
      /\ spos' \in Nat \ {0} /\ readbits' \in 1 .. W
      /\ ibuffer' \in Nat /\ ibuffer' < Pow(readbits')
      /\ W * spos' - readbits' = W * spos - readbits + n
      /\ spos' \in 1 .. Len(file') => ibuffer' = file'[spos'] % Pow(readbits')
  <2>1. CASE readbits < n
    <3>1. PICK w \in WordAt(spos + 1) :
            /\ v = T(ibuffer * Pow(n - readbits)) + w \div Pow(W - (n - readbits))
            /\ Becomes(W - (n - readbits), Rest(w, W - (n - readbits)), spos + 1)
      BY <2>1 DEF Read
    <3>2. w = file[spos + 1]
      <4>1. spos + 1 \in DOMAIN file
        BY <1>4, <1>5, <2>1
      <4>2. QED
        BY <3>1, <4>1 DEF WordAt
    <3>3. /\ NextSent(v, n)
          /\ Rest(w, W - (n - readbits)) \in Nat
          /\ Rest(w, W - (n - readbits)) < Pow(W - (n - readbits))
      BY <1>2, <2>1, <3>1, <3>2, ReadAcross
    <3>4. PICK r \in 0 .. W : r = W - (n - readbits)
      <4>1. W - (n - readbits) \in 0 .. W
        BY <1>4, <1>5, <2>1
      <4>2. QED
        BY <4>1
    <3>5. PICK x \in Nat : x = Rest(w, r) /\ x < Pow(r)
      BY <3>3, <3>4
    <3>6. x = file[spos + 1] % Pow(r)
      BY <3>2, <3>5 DEF Rest
    <3>7. PICK k \in Nat \ {0} : k = spos + 1
      BY <1>5, spos + 1 \in Nat \ {0}
    <3>8. Becomes(r, x, k)
      BY <3>1, <3>4, <3>5, <3>7
    <3>9. /\ spos' \in Nat \ {0} /\ readbits' \in 1 .. W
          /\ ibuffer' \in Nat /\ ibuffer' < Pow(readbits')
          /\ W * spos' - readbits' = W * k - r
          /\ spos' \in 1 .. Len(file') => ibuffer' = file'[spos'] % Pow(readbits')
      BY <1>1, <1>3, <3>5, <3>6, <3>7, <3>8, BufferFilled
    <3>10. W * k - r = W * spos - readbits + n
      <4>1. W * (spos + 1) = W * spos + W
        BY <1>5
      <4>2. PICK a \in Int : a = W * spos
        BY <1>5
      <4>3. readbits \in Int
        BY <1>4
      <4>4. QED
        BY <1>5, <3>4, <3>7, <4>1, <4>2, <4>3
    <3>11. QED
      BY ONLY <3>3, <3>9, <3>10
  <2>2. CASE ~(readbits < n)
    <3>1. v = ibuffer \div Pow(readbits - n)
          /\ Becomes(readbits - n, Rest(ibuffer, readbits - n), spos)
      BY <2>2 DEF Read
    <3>2. /\ NextSent(v, n)
          /\ Rest(ibuffer, readbits - n) \in Nat
          /\ Rest(ibuffer, readbits - n) < Pow(readbits - n)
          /\ Rest(ibuffer, readbits - n) = file[spos] % Pow(readbits - n)
      BY <2>2, ReadWithin
    <3>3. PICK r \in 0 .. W : r = readbits - n
      <4>1. readbits - n \in 0 .. W
        BY <1>4, <1>5, <2>2
      <4>2. QED
        BY <4>1
    <3>4. PICK x \in Nat : x = Rest(ibuffer, r) /\ x < Pow(r) /\ x = file[spos] % Pow(r)
      BY <3>2, <3>3
    <3>5. PICK k \in Nat \ {0} : k = spos
      BY <1>4, <1>5
    <3>6. Becomes(r, x, k)
      BY <3>1, <3>3, <3>4, <3>5
    <3>7. /\ spos' \in Nat \ {0} /\ readbits' \in 1 .. W
          /\ ibuffer' \in Nat /\ ibuffer' < Pow(readbits')
          /\ W * spos' - readbits' = W * k - r
          /\ spos' \in 1 .. Len(file') => ibuffer' = file'[spos'] % Pow(readbits')
      BY <1>1, <1>3, <3>4, <3>5, <3>6, BufferFilled
    <3>8. W * k - r = W * spos - readbits + n
      <4>1. PICK a \in Int : a = W * spos
        BY <1>5
      <4>2. readbits \in Int
        BY <1>4
      <4>3. QED
        BY <1>5, <3>3, <3>5, <4>1, <4>2
    <3>9. QED
      BY ONLY <3>2, <3>7, <3>8
  <2>3. QED
    BY <2>1, <2>2
<1>7. PICK bits \in Seq(0 .. 1) :
        bits = BitsOf(v, n) /\ Len(bits) = n /\ \A i \in 1 .. n : bits[i] = BitAt(v, n - i)
  BY <1>5, BitsAre
<1>8. /\ received' \in Seq(0 .. 1) /\ Len(received') = Len(received) + n
      /\ \A i \in 1 .. Len(received) : received'[i] = received[i]
      /\ \A i \in 1 .. n : received'[Len(received) + i] = bits[i]
  <2>1. received' = received \o bits
    BY <1>2, <1>7
  <2>2. /\ received \o bits \in Seq(0 .. 1) /\ Len(received \o bits) = Len(received) + Len(bits)
        /\ \A i \in 1 .. Len(received) : (received \o bits)[i] = received[i]
        /\ \A i \in 1 .. Len(bits) : (received \o bits)[Len(received) + i] = bits[i]
    BY <1>5, Joined
  <2>3. QED
    BY <1>7, <2>1, <2>2
<1>9. ASSUME NEW i \in 1 .. Len(received') PROVE received'[i] = sent[i]
  <2>1. CASE i <= Len(received)
    <3>1. i \in 1 .. Len(received)
      BY <1>5, <1>8, <2>1
    <3>2. QED
      BY <1>1, <1>8, <3>1 DEF ReaderInv
  <2>2. CASE ~(i <= Len(received))
    <3>1. PICK j \in 1 .. n : i = Len(received) + j
      <4>1. Len(received) \in Nat
        BY <1>5
      <4>2. i - Len(received) \in 1 .. n /\ i = Len(received) + (i - Len(received))
        BY <1>5, <1>8, <2>2, <4>1
      <4>3. QED
        BY <4>2
    <3>2. received'[i] = BitAt(v, n - j)
      BY <1>7, <1>8, <3>1
    <3>3. BitAt(v, n - j) = sent[Len(received) + j]
      BY <1>6, <3>1 DEF NextSent
    <3>4. QED
      BY <3>1, <3>2, <3>3
  <2>3. QED
    BY <2>1, <2>2
<1>10. Types'
  <2>1. readbits' \in 0 .. W
    BY <1>5, <1>6
  <2>2. QED
    BY <1>1, <1>3, <1>6, <1>8, <2>1 DEF Types
<1>11. WriterInv'
  BY <1>1, <1>2, WriterRests
<1>12. ReaderInv'
  <2>1. Len(received') <= Len(sent')
    BY <1>3, <1>8 DEF MayRead
  <2>2. Len(received') = W * spos' - readbits'
    BY <1>4, <1>6, <1>8
  <2>3. QED
    BY <1>3, <1>4, <1>6, <1>9, <2>1, <2>2 DEF ReaderInv
<1>13. QED
  BY <1>10, <1>11, <1>12 DEF IInv

(* pop reads the one bit of a value.                                       *)
LEMMA PopIsRead ==
  ASSUME IInv, NEW v \in 0 .. 1, MayRead(1), Pop(v)
  PROVE  Read(1, v)
<1>1. Types /\ spos > 0
  BY DEF IInv, Pop
<1>2. W \in Nat \ {0} /\ received \in Seq(0 .. 1)
  BY <1>1, WidthAssumption DEF Types
<1>3. readbits \in 1 .. W
  BY <1>1, <1>2, 1 \in 1 .. W, ReaderStands
<1>4. PICK d \in Nat : d = readbits - 1 /\ readbits = 1 + d
  BY <1>2, <1>3, readbits - 1 \in Nat
<1>5. PICK ib \in Nat : ib = ibuffer /\ ib < Pow(1 + d)
  BY <1>1, <1>4 DEF Types
<1>6. Pow(0) = 1 /\ Pow(1) = 2
  <2>1. Pow(0) = 1 /\ Pow(0 + 1) = 2 * Pow(0)
    BY PowersRecur
  <2>2. QED
    BY <2>1
<1>7. PICK q \in Nat : q = ib \div Pow(d) /\ q < 2
  <2>1. ib \div Pow(d) \in Nat /\ ib \div Pow(d) < Pow(1)
    BY <1>5, 1 \in Nat, CutFits
  <2>2. QED
    BY <1>6, <2>1
<1>8. v = q
  <2>1. v = q % 2
    BY <1>4, <1>5, <1>7 DEF Pop
  <2>2. QED
    BY <1>7, <2>1
<1>9. Rest(ibuffer, readbits - 1) = ibuffer - v * Pow(readbits - 1)
  <2>1. PICK m \in Nat : m = Pow(d)
    BY PowersAreNumbers
  <2>2. PICK r \in Nat : r = ib % Pow(d)
    BY <1>5, 0 \in Nat, CutFits
  <2>3. ib = q * m + r
    BY <1>5, <1>7, <2>1, <2>2, 0 \in Nat, CutFits
  <2>4. r = ib - q * m
    BY <2>3
  <2>5. QED
    BY <1>4, <1>5, <1>8, <2>1, <2>2, <2>4 DEF Rest
<1>10. received' = received \o BitsOf(v, 1)
  <2>1. BitsOf(v, 1) = << v >>
    <3>1. (v \div Pow(1 - 1)) % 2 = v
      BY <1>6
    <3>2. \A i \in 1 .. 1 : i = 1
      OBVIOUS
    <3>3. BitsOf(v, 1) = [i \in 1 .. 1 |-> v]
      BY <3>1, <3>2 DEF BitsOf
    <3>4. QED
      BY <3>3
  <2>2. \A s \in Seq(0 .. 1) : Append(s, v) = s \o << v >>
    OBVIOUS
  <2>3. QED
    BY <1>2, <2>1, <2>2 DEF Pop
<1>11. ~(readbits < 1)
  BY <1>2, <1>3
<1>12. v = ibuffer \div Pow(readbits - 1)
  BY <1>4, <1>5, <1>7, <1>8
<1>13. QED
  BY <1>1, <1>9, <1>10, <1>11, <1>12 DEF Pop, Read


-----------------------------------------------------------------------------
LEMMA InitIInv == ASSUME StreamInit PROVE IInv
<1>1. W \in Nat \ {0} /\ Pow(0) = 1
  BY WidthAssumption, PowersRecur
<1>2. Types
  <2>1. /\ file = <<>> /\ waitingbits = 0 /\ obuffer = 0 /\ flushed = FALSE
        /\ spos = 0 /\ readbits = 0 /\ ibuffer = 0 /\ sent = <<>> /\ received = <<>>
    BY DEF StreamInit
  <2>2. /\ file \in Seq(Words) /\ sent \in Seq(0 .. 1) /\ received \in Seq(0 .. 1)
    BY <2>1
  <2>3. /\ waitingbits \in 0 .. W - 1 /\ readbits \in 0 .. W
    BY <1>1, <2>1
  <2>4. obuffer < Pow(waitingbits) /\ ibuffer < Pow(readbits)
    BY <1>1, <2>1
  <2>5. QED
    BY <2>1, <2>2, <2>3, <2>4 DEF Types
<1>3. WriterInv
  <2>1. Holds(file, sent)
    BY DEF StreamInit, Holds
  <2>2. W * Len(file) = 0
    <3>1. Len(file) = 0
      BY DEF StreamInit
    <3>2. W * 0 = 0
      BY <1>1
    <3>3. QED
      BY <3>1, <3>2
  <2>3. QED
    BY <2>1, <2>2 DEF StreamInit, WriterInv
<1>4. ReaderInv
  BY DEF StreamInit, ReaderInv
<1>5. QED
  BY <1>2, <1>3, <1>4 DEF IInv

LEMMA IdleStep == ASSUME IInv, UNCHANGED <<writer, reader>> PROVE IInv'
BY DEF IInv, Types, WriterInv, ReaderInv, Holds, writer, reader

LEMMA NextIInv == ASSUME IInv, [StreamNext]_<<writer, reader>> PROVE IInv'
<1>1. W \in Nat \ {0} /\ 1 \in 1 .. W
  BY WidthAssumption
<1>2. Pow(1) = 2 /\ \A n \in 1 .. W : Pow(n) \in Nat \ {0}
  <2>1. Pow(0) = 1 /\ Pow(0 + 1) = 2 * Pow(0)
    BY PowersRecur
  <2>2. \A n \in 1 .. W : n \in Nat
    BY <1>1
  <2>3. QED
    BY <2>1, <2>2, PowersAreNumbers
<1>3. ASSUME NEW n \in 1 .. W, NEW v \in 0 .. Pow(n) - 1
      PROVE  v \in Nat /\ v < Pow(n)
  BY <1>2
<1>4. ASSUME NEW v \in 0 .. 1, Push(v) PROVE IInv'
  <2>1. Write(v, 1)
    BY <1>4, PushIsWrite DEF IInv
  <2>2. v \in Nat /\ v < Pow(1)
    BY <1>2
  <2>3. QED
    BY <1>1, <2>1, <2>2, WriteStep
<1>5. ASSUME NEW n \in 1 .. W, NEW v \in 0 .. Pow(n) - 1, Write(v, n) PROVE IInv'
  BY <1>3, <1>5, WriteStep
<1>6. ASSUME NEW n \in 1 .. W, MayRead(n), NEW v \in 0 .. Pow(n) - 1, Read(n, v) PROVE IInv'
  BY <1>3, <1>6, ReadStep
<1>7. ASSUME MayRead(1), NEW v \in 0 .. 1, Pop(v) PROVE IInv'
  <2>1. Read(1, v)
    BY <1>7, PopIsRead
  <2>2. v \in Nat /\ v < Pow(1)
    BY <1>2
  <2>3. QED
    BY <1>1, <1>7, <2>1, <2>2, ReadStep
<1>8. CASE StreamNext
  BY <1>4, <1>5, <1>6, <1>7, <1>8, FlushStep, OpenStep DEF StreamNext
<1>9. QED
  BY <1>8, IdleStep

(* The inductive invariant: the words of the file and what waits behind    *)
(* them are the bits sent, and the reader's buffer what is left of the     *)
(* word it has come to.                                                    *)
THEOREM StreamInvariant == StreamSpec => []IInv
<1>1. StreamInit => IInv
  BY InitIInv
<1>2. IInv /\ [StreamNext]_<<writer, reader>> => IInv'
  BY NextIInv
<1>3. QED
  BY <1>1, <1>2, PTL DEF StreamSpec

(* The buffers hold no more than the bits they are said to, and no word of *)
(* the file is wider than its type.                                        *)
THEOREM StreamTypes == StreamSpec => []StreamTypeOK
<1>1. IInv => StreamTypeOK
  <2>1. SUFFICES ASSUME Types PROVE StreamTypeOK
    BY DEF IInv
  <2>2. waitingbits \in Nat /\ readbits \in Nat
    BY <2>1, WidthAssumption DEF Types
  <2>3. Pow(waitingbits) \in Nat /\ Pow(readbits) \in Nat
    BY <2>2, PowersAreNumbers
  <2>4. QED
    BY <2>1, <2>3 DEF Types, StreamTypeOK
<1>2. QED
  BY <1>1, StreamInvariant, PTL

(* Every bit read is the bit written at its place, however writer and      *)
(* reader cut the bits into calls.                                         *)
THEOREM BitsComeBack == StreamSpec => []ReadsWhatWasWritten
<1>1. IInv => ReadsWhatWasWritten
  <2>1. SUFFICES ASSUME Types, ReaderInv PROVE ReadsWhatWasWritten
    BY DEF IInv
  <2>2. /\ received \in Seq(0 .. 1) /\ sent \in Seq(0 .. 1)
        /\ Len(received) <= Len(sent)
        /\ \A i \in 1 .. Len(received) : received[i] = sent[i]
    BY <2>1 DEF Types, ReaderInv
  <2>3. QED
    BY <2>2 DEF ReadsWhatWasWritten, IsPrefix
<1>2. QED
  BY <1>1, StreamInvariant, PTL

(* The reader that has all the bits has fetched the words of the file, and *)
(* one more only if the bits fill the last.                                *)
THEOREM WordsAreTaken == StreamSpec => []TakesItsWords
<1>1. IInv => TakesItsWords
  <2>1. SUFFICES ASSUME Types, WriterInv, ReaderInv, received = sent, spos > 0
                 PROVE  spos = IF Len(sent) % W = 0 THEN Len(file) + 1 ELSE Len(file)
    BY DEF IInv, TakesItsWords
  <2>2. PICK w \in Nat \ {0} : w = W
    BY WidthAssumption
  <2>3. PICK n \in Nat, l \in Nat, s \in Nat : n = Len(sent) /\ l = Len(file) /\ s = spos
    BY <2>1 DEF Types
  <2>4. readbits \in 1 .. w /\ n = w * s - readbits
    BY <2>1, <2>2, <2>3 DEF Types, ReaderInv
  <2>5. n <= w * l /\ w * l < n + w
    BY <2>1, <2>2, <2>3 DEF WriterInv, ReaderInv
  <2>5a. \E q, r \in Nat : n % w = r /\ r < w /\ n = w * q + r
    <3>1. \E q, r \in Nat : n \div w = q /\ n % w = r /\ r < w /\ n = w * q + r
      BY Divided
    <3>2. QED
      BY <3>1
  <2>6. PICK q, r \in Nat : n % w = r /\ r < w /\ n = w * q + r
    BY <2>5a
  <2>6a. w * q \in Nat /\ w * l \in Nat /\ w * s \in Nat
    OBVIOUS
  <2>7. PICK a, b, c \in Nat : a = w * q /\ b = w * l /\ c = w * s
    BY <2>6a
  <2>8. w * (q + 1) = a + w /\ w * (q + 2) = a + w + w
    BY <2>2, <2>6, <2>7
  <2>9. /\ l < q => b + w <= a
        /\ q < l => a + w <= b
        /\ q + 1 < l => a + w + w <= b
        /\ s < q + 1 => c + w <= a + w
        /\ q + 1 < s => a + w + w <= c
    <3>1. l < q => w * l + w <= w * q
      BY <2>2, <2>3, <2>6, Apart
    <3>2. q < l => w * q + w <= w * l
      BY <2>2, <2>3, <2>6, Apart
    <3>3. q + 1 < l => w * (q + 1) + w <= w * l
      BY <2>2, <2>3, <2>6, Apart, q + 1 \in Int
    <3>4. s < q + 1 => w * s + w <= w * (q + 1)
      BY <2>2, <2>3, <2>6, Apart, q + 1 \in Int
    <3>5. q + 1 < s => w * (q + 1) + w <= w * s
      BY <2>2, <2>3, <2>6, Apart, q + 1 \in Int
    <3>6. QED
      BY <2>7, <2>8, <3>1, <3>2, <3>3, <3>4, <3>5
  <2>10. n = a + r /\ n = c - readbits /\ n <= b /\ b < n + w /\ r < w
    BY <2>4, <2>5, <2>6, <2>7
  <2>11. s = q + 1
    BY <2>2, <2>3, <2>4, <2>6, <2>7, <2>9, <2>10
  <2>12. CASE r = 0
    <3>1. l = q
      BY <2>2, <2>3, <2>6, <2>7, <2>9, <2>10, <2>12
    <3>2. QED
      BY <2>2, <2>3, <2>6, <2>11, <2>12, <3>1
  <2>13. CASE r # 0
    <3>1. ~(l < q) /\ ~(q + 1 < l) /\ l # q
      BY <2>2, <2>3, <2>6, <2>7, <2>9, <2>10, <2>13
    <3>2. l = q + 1
      BY <2>3, <2>6, <3>1
    <3>3. QED
      BY <2>2, <2>3, <2>6, <2>11, <2>13, <3>2
  <2>14. QED
    BY <2>12, <2>13
<1>2. QED
  BY <1>1, StreamInvariant, PTL
=============================================================================
