----------------------------- MODULE DataLemmas -----------------------------
(***************************************************************************)
(* Facts about data that the proofs share: counters that follow the size   *)
(* of a finite set, least numbers, quotients, powers and digits, sequences *)
(* and what stands where in them, functions defined by recursion.          *)
(***************************************************************************)
EXTENDS Integers, FiniteSets, Sequences, Powers, FiniteSetTheorems,
        SequenceTheorems, WellFoundedInduction, TLAPS

\* A counter that follows a set of threads goes up by one with the set.
LEMMA CardAdd ==
    ASSUME NEW S, IsFiniteSet(S), NEW A \in SUBSET S, NEW x \in S, x \notin A
    PROVE  Cardinality(A \cup {x}) = Cardinality(A) + 1
  BY FS_Subset, FS_AddElement

\* ...and down by one, never below zero.
LEMMA CardRemove ==
    ASSUME NEW S, IsFiniteSet(S), NEW A \in SUBSET S, NEW x \in A
    PROVE  /\ Cardinality(A \ {x}) = Cardinality(A) - 1
           /\ Cardinality(A) - 1 \in Nat
           /\ Cardinality(A) # 0
<1>1. IsFiniteSet(A)
  BY FS_Subset
<1>2. Cardinality(A) \in Nat
  BY <1>1, FS_CardinalityType
<1>3. Cardinality(A) # 0
  BY <1>1, FS_EmptySet
<1>4. Cardinality(A) - 1 \in Nat
  BY <1>2, <1>3
<1>5. Cardinality(A \ {x}) = Cardinality(A) - 1
  BY <1>1, FS_RemoveElement
<1>6. QED
  BY <1>3, <1>4, <1>5

\* A set of numbers has a least one: what CHOOSE takes for the first of a
\* sequence or the lowest free descriptor is there.
LEMMA LeastNat ==
    ASSUME NEW T \in SUBSET Nat, T # {}
    PROVE  \E x \in T : \A y \in T : x <= y
<1>1. PICK x \in T : \A y \in T : ~(<<y, x>> \in OpToRel(<, Nat))
  BY NatLessThanWellFounded, WFMin
<1>2. \A y \in T : ~(y < x)
  BY <1>1 DEF OpToRel
<1>3. QED
  BY <1>2

\* The sequence q is s without its i-th element.
Erased(S, s, i, q) ==
    /\ q \in Seq(S)
    /\ \A k \in DOMAIN q :
         \E j \in DOMAIN s : j = (IF k < i THEN k ELSE k + 1) /\ q[k] = s[j]
    /\ \A j \in DOMAIN s : j # i => \E k \in DOMAIN q : q[k] = s[j]

\* What erase() does to the positions of a vector or list.
LEMMA RemoveAt ==
    ASSUME NEW S, NEW s \in Seq(S), NEW i \in DOMAIN s
    PROVE  Erased(S, s, i, SubSeq(s, 1, i - 1) \o SubSeq(s, i + 1, Len(s)))
<1> DEFINE a == SubSeq(s, 1, i - 1)
           b == SubSeq(s, i + 1, Len(s))
           r == a \o b
<1>1. /\ Len(s) \in Nat /\ DOMAIN s = 1..Len(s) /\ i \in 1..Len(s)
      /\ \A j \in 1..Len(s) : s[j] \in S
  OBVIOUS
<1>2. /\ a \in Seq(S) /\ Len(a) = i - 1
      /\ \A k \in 1..(i - 1) : a[k] = s[k]
  BY <1>1
<1>3. /\ b \in Seq(S) /\ Len(b) = Len(s) - i
      /\ \A k \in 1..(Len(s) - i) : b[k] = s[i + k]
  <2>1. CASE i = Len(s)
    BY <1>1, <2>1
  <2>2. CASE i < Len(s)
    BY <1>1, <2>2
  <2>3. QED
    BY <1>1, <2>1, <2>2
<1> HIDE DEF a, b
<1>4. /\ r \in Seq(S) /\ DOMAIN r = 1..(Len(s) - 1)
      /\ \A k \in 1..(Len(s) - 1) :
            r[k] = IF k < i THEN a[k] ELSE b[k - (i - 1)]
  <2>1. /\ r \in Seq(S) /\ Len(r) = Len(a) + Len(b)
        /\ \A k \in 1 .. Len(a) + Len(b) :
                r[k] = IF k <= Len(a) THEN a[k] ELSE b[k - Len(a)]
    <3>1. a \in Seq(S) /\ b \in Seq(S)
      BY <1>2, <1>3
    <3>2. QED
      BY <3>1, ConcatProperties, Zenon
  <2> HIDE DEF r
  <2>2. DOMAIN r = 1..Len(r) /\ Len(r) = Len(s) - 1
    BY <1>1, <1>2, <1>3, <2>1
  <2>3. QED
    BY <1>1, <1>2, <2>1, <2>2
<1> HIDE DEF r
<1>5. ASSUME NEW k \in DOMAIN r
      PROVE  LET j == IF k < i THEN k ELSE k + 1
             IN  j \in DOMAIN s /\ r[k] = s[j]
  <2>1. CASE k < i
    BY <1>1, <1>2, <1>4, <2>1
  <2>2. CASE ~(k < i)
    <3>1. k - (i - 1) \in 1..(Len(s) - i) /\ i + (k - (i - 1)) = k + 1
      BY <1>1, <1>4, <2>2
    <3>2. r[k] = b[k - (i - 1)]
      BY <1>4, <2>2
    <3>3. QED
      BY <1>1, <1>3, <1>4, <2>2, <3>1, <3>2
  <2>3. QED
    BY <2>1, <2>2
<1>6. ASSUME NEW j \in DOMAIN s, j # i PROVE \E k \in DOMAIN r : r[k] = s[j]
  <2>1. CASE j < i
    BY <1>1, <1>4, <1>5, <2>1
  <2>2. CASE j > i
    <3>1. j - 1 \in DOMAIN r /\ ~(j - 1 < i) /\ (j - 1) + 1 = j
      BY <1>1, <1>4, <2>2
    <3>2. r[j - 1] = s[j]
      BY <1>5, <3>1
    <3>3. QED
      BY <3>1, <3>2
  <2>3. QED
    BY <1>1, <1>6, <2>1, <2>2
<1>7. Erased(S, s, i, r)
  BY <1>4, <1>5, <1>6 DEF Erased
<1>8. QED
  BY <1>7, Zenon DEF r, a, b

\* What push_back() does to them.
LEMMA AppendAt ==
    ASSUME NEW S, NEW s \in Seq(S), NEW x \in S, NEW r, r = Append(s, x)
    PROVE  /\ r \in Seq(S)
           /\ \A i \in DOMAIN s : i \in DOMAIN r /\ r[i] = s[i]
           /\ \E i \in DOMAIN r : r[i] = x
<1>1. /\ r \in Seq(S) /\ DOMAIN r = 1..(Len(s) + 1) /\ Len(s) \in Nat
      /\ DOMAIN s = 1..Len(s)
      /\ \A i \in 1..Len(s) : r[i] = s[i]
      /\ r[Len(s) + 1] = x
  OBVIOUS
<1>2. Len(s) + 1 \in DOMAIN r
  BY <1>1
<1>3. QED
  BY <1>1, <1>2

-----------------------------------------------------------------------------
(* Quotients *)

LEMMA Product == ASSUME NEW a \in Nat, NEW b \in Nat PROVE a * b \in Nat
  OBVIOUS

LEMMA Quotient ==
    ASSUME NEW x \in Nat, NEW B \in Nat \ {0}
    PROVE  /\ x \div B \in Nat /\ x % B \in 0..(B - 1)
           /\ x = B * (x \div B) + (x % B)
  OBVIOUS

LEMMA MoreTimes ==
    ASSUME NEW B \in Nat, NEW p \in Nat, NEW q \in Nat, p < q
    PROVE  B * p + B <= B * q
<1>1. PICK k \in Nat : q = p + 1 + k
  <2>1. q - p - 1 \in Nat /\ q = p + 1 + (q - p - 1)
    OBVIOUS
  <2>2. QED
    BY <2>1
<1>2. B * q = B * p + B + B * k
  BY <1>1
<1>3. B * k \in Nat /\ B * p \in Nat /\ B * q \in Nat
  BY Product
<1>4. QED
  BY <1>2, <1>3

\* Quotient and remainder are unique, whatever is divided by.
LEMMA QuotientIs ==
    ASSUME NEW B \in Nat \ {0}, NEW x \in Nat, NEW q \in Nat,
           NEW r \in 0..(B - 1), x = B * q + r
    PROVE  x \div B = q /\ x % B = r
<1> DEFINE p == x \div B
           s == x % B
<1>1. p \in Nat /\ s \in 0..(B - 1) /\ x = B * p + s
  BY Quotient
<1> HIDE DEF p, s
<1>2. B * p \in Nat /\ B * q \in Nat /\ B \in Nat
  BY <1>1, Product
<1>3. ~(p < q)
  <2> SUFFICES ASSUME p < q PROVE FALSE
    OBVIOUS
  <2>1. B * p + B <= B * q
    BY <1>1, <1>2, MoreTimes
  <2>2. QED
    BY <1>1, <1>2, <2>1
<1>4. ~(q < p)
  <2> SUFFICES ASSUME q < p PROVE FALSE
    OBVIOUS
  <2>1. B * q + B <= B * p
    BY <1>1, <1>2, MoreTimes
  <2>2. QED
    BY <1>1, <1>2, <2>1
<1>5. p = q
  BY <1>1, <1>3, <1>4
<1>6. s = r
  BY <1>1, <1>2, <1>5
<1>7. QED
  BY <1>5, <1>6 DEF p, s

LEMMA Below ==
    ASSUME NEW B \in Nat \ {0}, NEW x \in Nat, x < B
    PROVE  x % B = x /\ x \div B = 0
<1>1. x \in 0..(B - 1) /\ x = B * 0 + x
  OBVIOUS
<1>2. QED
  BY <1>1, QuotientIs

\* Blocks of B: the quotient of a sum, of a bound, and the number of blocks
\* that hold x.
LEMMA QuotientAdd ==
    ASSUME NEW B \in Nat \ {0}, NEW x \in Nat, NEW y \in Nat
    PROVE  /\ (x + y) \div B = x \div B + ((x % B) + y) \div B
           /\ (x + y) % B = ((x % B) + y) % B
<1> DEFINE q == x \div B
           m == x % B
           z == m + y
           p == z \div B
           r == z % B
<1>1. q \in Nat /\ m \in 0..(B - 1) /\ x = B * q + m
  BY Quotient
<1> HIDE DEF q, m
<1>2. z \in Nat /\ x + y = B * q + z /\ B * q \in Nat
  BY <1>1, Product
<1>3. p \in Nat /\ r \in 0..(B - 1) /\ z = B * p + r
  BY <1>2, Quotient
<1> HIDE DEF z, p, r
<1>4. x + y = B * (q + p) + r
  BY <1>1, <1>2, <1>3
<1>5. (x + y) \div B = q + p /\ (x + y) % B = r
  <2>1. PICK w \in Nat, k \in Nat : w = x + y /\ k = q + p
    BY <1>1, <1>3
  <2>2. w \div B = k /\ w % B = r
    BY <1>3, <1>4, <2>1, QuotientIs
  <2>3. QED
    BY <2>1, <2>2
<1>6. QED
  BY <1>5 DEF q, m, p, r, z

LEMMA QuotientBound ==
    ASSUME NEW B \in Nat \ {0}, NEW x \in Nat, NEW n \in Nat, x <= B * n
    PROVE  /\ x \div B <= n
           /\ x < B * n <=> x \div B < n
           /\ x = B * n => x \div B = n
<1> DEFINE q == x \div B
           r == x % B
<1>1. q \in Nat /\ r \in 0..(B - 1) /\ x = B * q + r
  BY Quotient
<1> HIDE DEF q, r
<1>3. CASE q < n
  <2>1. PICK k \in Nat : n = q + 1 + k
    BY <1>1, <1>3
  <2>2. B * n = B * q + B + B * k /\ B * k >= 0
    BY <1>1, <2>1
  <2>3. x < B * n
    BY <1>1, <2>2
  <2>4. QED
    BY <1>3, <2>3, <1>1 DEF q
<1>4. CASE q = n
  BY <1>1, <1>4 DEF q
<1>5. CASE q > n
  <2>1. PICK k \in Nat : q = n + 1 + k
    BY <1>1, <1>5
  <2>2. B * q = B * n + B + B * k /\ B * k >= 0
    BY <1>1, <2>1
  <2>3. QED
    BY <1>1, <2>2
<1>6. QED
  BY <1>1, <1>3, <1>4, <1>5

LEMMA QuotientUp ==
    ASSUME NEW B \in Nat \ {0}, NEW x \in Nat, x > 0
    PROVE  LET c == (x + B - 1) \div B
           IN  c \in Nat /\ c > 0 /\ x <= B * c
<1> DEFINE y == x + B - 1
           c == y \div B
           r == y % B
<1>1. y \in Nat
  OBVIOUS
<1>2. c \in Nat /\ r \in 0..(B - 1) /\ y = B * c + r
  BY <1>1, Quotient
<1> HIDE DEF c, r
<1>3. x + B - 1 = B * c + r
  BY <1>2
<1>4. x <= B * c
  BY <1>2, <1>3
<1>5. c # 0
  BY <1>2, <1>4
<1>6. QED
  BY <1>2, <1>4, <1>5 DEF c

\* A remainder by a product: the low digits and the next one.
LEMMA RemainderOfProduct ==
    ASSUME NEW v \in Nat, NEW P \in Nat \ {0}, NEW G \in Nat \ {0}
    PROVE  v % (P * G) = (v % P) + ((v \div P) % G) * P
<1> DEFINE q == v \div P
           r == v % P
           t == q \div G
           d == q % G
<1>1. q \in Nat /\ r \in 0..(P - 1) /\ v = P * q + r
  BY Quotient
<1> HIDE DEF q, r
<1>2. t \in Nat /\ d \in 0..(G - 1) /\ q = G * t + d
  BY <1>1, Quotient
<1> HIDE DEF t, d
<1>3. v = (P * G) * t + (P * d + r)
  <2>1. P * q = P * (G * t) + P * d
    BY <1>1, <1>2
  <2>2. P * (G * t) = (P * G) * t
    BY <1>2
  <2>3. P * q \in Nat /\ P * d \in Nat /\ (P * G) * t \in Nat
    BY <1>1, <1>2, Product
  <2>4. QED
    BY <1>1, <2>1, <2>2, <2>3
<1>4. P * d + P <= P * G
  BY <1>2, MoreTimes
<1>5. P * d \in Nat /\ P * G \in Nat \ {0}
  <2>1. P * d \in Nat /\ P * G \in Nat
    BY <1>2, Product
  <2>2. QED
    BY <1>4, <2>1
<1>6. P * d + r \in 0..(P * G - 1)
  BY <1>1, <1>4, <1>5
<1>7. v % (P * G) = P * d + r
  BY <1>2, <1>3, <1>5, <1>6, QuotientIs
<1>8. P * d = d * P
  BY <1>2
<1>9. QED
  BY <1>1, <1>5, <1>7, <1>8 DEF q, r, d

-----------------------------------------------------------------------------
(* Powers *)

IsPowers(b, n, f) == f = [i \in 0..n |-> IF i = 0 THEN 1 ELSE b * f[i - 1]]

LEMMA PowersExist ==
    ASSUME NEW b
    PROVE  \A n \in Nat : \E f : IsPowers(b, n, f)
<1> DEFINE T == {n \in Nat : ~\E f : IsPowers(b, n, f)}
<1> SUFFICES ASSUME T # {} PROVE FALSE
  OBVIOUS
<1>1. PICK n \in T : \A y \in T : n <= y
  BY LeastNat
<1>2. n # 0
  <2>1. IsPowers(b, 0, [i \in 0..0 |-> 1])
    BY DEF IsPowers
  <2>2. QED
    BY <1>1, <2>1
<1>3. n - 1 \in Nat /\ n \in Nat
  BY <1>1, <1>2
<1>4. PICK f : IsPowers(b, n - 1, f)
  BY <1>1, <1>3
<1> DEFINE g == [i \in 0..n |-> IF i = n THEN b * f[n - 1] ELSE f[i]]
<1>5. ASSUME NEW i \in 0..n
      PROVE  g[i] = IF i = 0 THEN 1 ELSE b * g[i - 1]
  <2>1. i = n \/ i \in 0..(n - 1)
    BY <1>3
  <2>2. \A j \in 0..(n - 1) : j \in 0..n /\ j # n
    BY <1>3
  <2>3. \A j \in 0..(n - 1) : g[j] = f[j]
    BY <2>2
  <2>4. i # 0 => i - 1 \in 0..(n - 1)
    BY <1>3
  <2>5. CASE i = n
    <3>1. g[i] = b * f[n - 1]
      BY <2>5
    <3>2. g[n - 1] = f[n - 1]
      BY <1>2, <2>3, <2>4, <2>5
    <3> HIDE DEF g
    <3>3. QED
      BY <1>2, <2>5, <3>1, <3>2
  <2>6. CASE i \in 0..(n - 1)
    <3>1. f[i] = IF i = 0 THEN 1 ELSE b * f[i - 1]
      BY <1>4, <2>6 DEF IsPowers
    <3> HIDE DEF g
    <3>2. QED
      BY <2>3, <2>4, <2>6, <3>1
  <2>7. QED
    BY <2>1, <2>5, <2>6
<1>6. g = [i \in 0..n |-> IF i = 0 THEN 1 ELSE b * g[i - 1]]
  <2>1. g = [i \in 0..n |-> g[i]]
    OBVIOUS
  <2> HIDE DEF g
  <2>2. QED
    BY <1>5, <2>1
<1> HIDE DEF g
<1>7. IsPowers(b, n, g)
  BY <1>6 DEF IsPowers
<1>8. QED
  BY <1>1, <1>7

\* Two such functions agree where both are defined.
LEMMA PowersAgree ==
    ASSUME NEW b, NEW n \in Nat, NEW f, IsPowers(b, n, f),
           NEW g, IsPowers(b, n + 1, g)
    PROVE  f[n] = g[n]
<1> DEFINE T == {i \in Nat : i <= n /\ f[i] # g[i]}
<1>1. ASSUME NEW i \in 0..n
      PROVE  /\ f[i] = IF i = 0 THEN 1 ELSE b * f[i - 1]
             /\ g[i] = IF i = 0 THEN 1 ELSE b * g[i - 1]
  <2>1. i \in 0..(n + 1)
    OBVIOUS
  <2>2. QED
    BY <2>1 DEF IsPowers
<1>2. T = {}
  <2> SUFFICES ASSUME T # {} PROVE FALSE
    OBVIOUS
  <2>1. PICK i \in T : \A y \in T : i <= y
    BY LeastNat
  <2>2. i # 0 /\ i \in 0..n /\ f[i] # g[i]
    BY <1>1, <2>1
  <2>3. i - 1 \in Nat /\ i - 1 <= n /\ i - 1 < i
    BY <2>2
  <2>4. i - 1 \notin T
    <3> HIDE DEF T
    <3>1. QED
      BY <2>1, <2>2, <2>3
  <2>5. f[i - 1] = g[i - 1]
    BY <2>3, <2>4
  <2>6. QED
    BY <1>1, <2>2, <2>5
<1>3. n \in Nat /\ n <= n
  OBVIOUS
<1>4. QED
  BY <1>2, <1>3

LEMMA PowerIs ==
    ASSUME NEW b, NEW n \in Nat
    PROVE  \E f : IsPowers(b, n, f) /\ Power(b, n) = f[n]
<1> DEFINE f == CHOOSE h : IsPowers(b, n, h)
<1>1. IsPowers(b, n, f)
  BY PowersExist, Zenon
<1>2. Power(b, n) = f[n]
  BY DEF Power, IsPowers
<1> HIDE DEF f
<1>3. QED
  BY <1>1, <1>2

LEMMA PowerZero == ASSUME NEW b PROVE Power(b, 0) = 1
<1>1. PICK f : IsPowers(b, 0, f) /\ Power(b, 0) = f[0]
  BY PowerIs
<1>2. QED
  BY <1>1 DEF IsPowers

LEMMA PowerNext ==
    ASSUME NEW b, NEW n \in Nat
    PROVE  Power(b, n + 1) = b * Power(b, n)
<1>1. PICK f : IsPowers(b, n, f) /\ Power(b, n) = f[n]
  BY PowerIs
<1>2. n + 1 \in Nat /\ n + 1 \in 0..(n + 1) /\ n + 1 # 0 /\ (n + 1) - 1 = n
  OBVIOUS
<1>3. PICK g : IsPowers(b, n + 1, g) /\ Power(b, n + 1) = g[n + 1]
  BY <1>2, PowerIs
<1>4. f[n] = g[n]
  BY <1>1, <1>3, PowersAgree
<1>5. g[n + 1] = b * g[(n + 1) - 1]
  <2> DEFINE m == n + 1
  <2>1. m \in 0..m /\ m # 0 /\ IsPowers(b, m, g)
    BY <1>2, <1>3
  <2> HIDE DEF m
  <2>2. g[m] = b * g[m - 1]
    BY <2>1 DEF IsPowers
  <2>3. QED
    BY <2>2 DEF m
<1>6. QED
  BY <1>1, <1>2, <1>3, <1>4, <1>5

LEMMA PowerPositive ==
    ASSUME NEW b \in Nat \ {0}
    PROVE  \A n \in Nat : Power(b, n) \in Nat \ {0}
<1> DEFINE T == {n \in Nat : Power(b, n) \notin Nat \ {0}}
<1> SUFFICES ASSUME T # {} PROVE FALSE
  OBVIOUS
<1>1. PICK n \in T : \A y \in T : n <= y
  BY LeastNat
<1>2. n # 0
  BY <1>1, PowerZero
<1>3. n - 1 \in Nat /\ n - 1 < n /\ (n - 1) + 1 = n
  BY <1>1, <1>2
<1>4. Power(b, n - 1) \in Nat \ {0}
  BY <1>1, <1>3
<1>5. Power(b, n) = b * Power(b, n - 1)
  BY <1>3, PowerNext
<1>6. b * Power(b, n - 1) \in Nat \ {0}
  <2> DEFINE p == Power(b, n - 1)
  <2> HIDE DEF p
  <2>1. p \in Nat \ {0}
    BY <1>4 DEF p
  <2>2. b * 0 + b <= b * p /\ b * p \in Nat /\ b * 0 = 0
    BY <2>1, MoreTimes, Product
  <2>3. b * p \in Nat \ {0}
    BY <2>2
  <2>4. QED
    BY <2>3 DEF p
<1>7. QED
  BY <1>1, <1>5, <1>6

\* Exponents add and multiply.
LEMMA PowerAdd ==
    ASSUME NEW b \in Nat \ {0}, NEW m \in Nat
    PROVE  \A n \in Nat : Power(b, m + n) = Power(b, m) * Power(b, n)
<1> DEFINE T == {n \in Nat : Power(b, m + n) # Power(b, m) * Power(b, n)}
           x == Power(b, m)
<1> SUFFICES ASSUME T # {} PROVE FALSE
  OBVIOUS
<1>1. PICK n \in T : \A y \in T : n <= y
  BY LeastNat
<1>2. x \in Nat \ {0}
  BY PowerPositive
<1>3. n # 0
  <2>1. m + 0 = m
    OBVIOUS
  <2>2. Power(b, 0) = 1
    BY PowerZero
  <2>3. x * 1 = x
    BY <1>2
  <2>4. QED
    BY <1>1, <2>1, <2>2, <2>3
<1>4. /\ n - 1 \in Nat /\ n - 1 < n /\ (n - 1) + 1 = n /\ m + (n - 1) \in Nat
      /\ (m + (n - 1)) + 1 = m + n /\ n \in Nat
  BY <1>1, <1>3
<1> DEFINE y == Power(b, n - 1)
<1>5. Power(b, m + (n - 1)) = x * y
  <2>1. n - 1 \notin T
    <3> HIDE DEF T
    <3>1. QED
      BY <1>1, <1>4
  <2>2. QED
    BY <1>4, <2>1
<1>6. y \in Nat \ {0}
  BY <1>4, PowerPositive
<1>7. Power(b, n) = b * y
  BY <1>4, PowerNext
<1>8. Power(b, m + n) = b * Power(b, m + (n - 1))
  BY <1>4, PowerNext
<1>9. b * (x * y) = x * (b * y)
  <2> HIDE DEF x, y
  <2>1. QED
    BY <1>2, <1>6
<1>10. QED
  BY <1>1, <1>5, <1>7, <1>8, <1>9

LEMMA PowerTimes ==
    ASSUME NEW b \in Nat \ {0}, NEW g \in Nat
    PROVE  \A n \in Nat : Power(Power(b, g), n) = Power(b, g * n)
<1> DEFINE G == Power(b, g)
           T == {n \in Nat : Power(G, n) # Power(b, g * n)}
<1> SUFFICES ASSUME T # {} PROVE FALSE
  OBVIOUS
<1>1. PICK n \in T : \A y \in T : n <= y
  BY LeastNat
<1>2. G \in Nat \ {0}
  BY PowerPositive
<1>3. n # 0
  <2>1. g * 0 = 0
    OBVIOUS
  <2>2. QED
    BY <1>1, <2>1, PowerZero
<1>4. n - 1 \in Nat /\ n - 1 < n /\ (n - 1) + 1 = n /\ n \in Nat
  BY <1>1, <1>3
<1>5. g * (n - 1) \in Nat /\ g + g * (n - 1) = g * n
  BY <1>4
<1>6. Power(G, n - 1) = Power(b, g * (n - 1))
  <2>1. n - 1 \notin T
    <3> HIDE DEF T
    <3>1. QED
      BY <1>1, <1>4
  <2>2. QED
    BY <1>4, <2>1
<1>7. Power(G, n) = G * Power(G, n - 1)
  BY <1>4, PowerNext
<1>8. Power(b, g + g * (n - 1)) = G * Power(b, g * (n - 1))
  BY <1>5, PowerAdd
<1>9. QED
  BY <1>1, <1>5, <1>6, <1>7, <1>8

LEMMA PowerGrows ==
    ASSUME NEW b \in Nat \ {0}, NEW m \in Nat, NEW n \in Nat, m <= n
    PROVE  Power(b, m) <= Power(b, n)
<1> DEFINE x == Power(b, m)
           y == Power(b, n - m)
<1>1. n - m \in Nat /\ m + (n - m) = n
  OBVIOUS
<1>2. x \in Nat \ {0} /\ y \in Nat \ {0}
  BY <1>1, PowerPositive
<1>3. Power(b, n) = x * y
  BY <1>1, PowerAdd
<1> HIDE DEF x, y
<1>4. x * 0 + x <= x * y /\ x * 0 = 0 /\ x * y \in Nat
  BY <1>2, MoreTimes, Product
<1>5. x <= x * y
  BY <1>2, <1>4
<1>6. QED
  BY <1>3, <1>5 DEF x

-----------------------------------------------------------------------------
(* Numbers as sums of digits *)

IsSum(a, n, f) == f = [i \in 0..n |-> IF i = 0 THEN 0 ELSE f[i - 1] + a[i]]

Digits(b, v, n) == [i \in 1..n |-> ((v \div Power(b, i - 1)) % b) * Power(b, i - 1)]

LEMMA SumExists ==
    ASSUME NEW a
    PROVE  \A n \in Nat : \E f : IsSum(a, n, f)
<1> DEFINE T == {n \in Nat : ~\E f : IsSum(a, n, f)}
<1> SUFFICES ASSUME T # {} PROVE FALSE
  OBVIOUS
<1>1. PICK n \in T : \A y \in T : n <= y
  BY LeastNat
<1>2. n # 0
  <2>1. IsSum(a, 0, [i \in 0..0 |-> 0])
    BY DEF IsSum
  <2>2. QED
    BY <1>1, <2>1
<1>3. n - 1 \in Nat /\ n \in Nat
  BY <1>1, <1>2
<1>4. PICK f : IsSum(a, n - 1, f)
  BY <1>1, <1>3
<1> DEFINE g == [i \in 0..n |-> IF i = n THEN f[n - 1] + a[n] ELSE f[i]]
<1>5. ASSUME NEW i \in 0..n
      PROVE  g[i] = IF i = 0 THEN 0 ELSE g[i - 1] + a[i]
  <2>1. i = n \/ i \in 0..(n - 1)
    BY <1>3
  <2>2. \A j \in 0..(n - 1) : j \in 0..n /\ j # n
    BY <1>3
  <2>3. \A j \in 0..(n - 1) : g[j] = f[j]
    BY <2>2
  <2>4. i # 0 => i - 1 \in 0..(n - 1)
    BY <1>3
  <2>5. CASE i = n
    <3>1. g[i] = f[n - 1] + a[n]
      BY <2>5
    <3>2. g[n - 1] = f[n - 1]
      BY <1>2, <2>3, <2>4, <2>5
    <3> HIDE DEF g
    <3>3. QED
      BY <1>2, <2>5, <3>1, <3>2
  <2>6. CASE i \in 0..(n - 1)
    <3>1. f[i] = IF i = 0 THEN 0 ELSE f[i - 1] + a[i]
      BY <1>4, <2>6 DEF IsSum
    <3> HIDE DEF g
    <3>2. QED
      BY <2>3, <2>4, <2>6, <3>1
  <2>7. QED
    BY <2>1, <2>5, <2>6
<1>6. g = [i \in 0..n |-> IF i = 0 THEN 0 ELSE g[i - 1] + a[i]]
  <2>1. g = [i \in 0..n |-> g[i]]
    OBVIOUS
  <2> HIDE DEF g
  <2>2. QED
    BY <1>5, <2>1
<1> HIDE DEF g
<1>7. IsSum(a, n, g)
  BY <1>6 DEF IsSum
<1>8. QED
  BY <1>1, <1>7

\* The digits of a number add up to it.
LEMMA DigitsSum ==
    ASSUME NEW b \in Nat \ {0}, NEW v \in Nat, NEW n \in Nat,
           NEW f, IsSum(Digits(b, v, n), n, f)
    PROVE  f[n] = v % Power(b, n)
<1> DEFINE T == {i \in Nat : i <= n /\ f[i] # v % Power(b, i)}
<1>1. f[0] = 0
  BY DEF IsSum
<1>2. ASSUME NEW i \in 1..n
      PROVE  f[i] = f[i - 1] + ((v \div Power(b, i - 1)) % b) * Power(b, i - 1)
  <2> DEFINE a == Digits(b, v, n)
  <2>1. a[i] = ((v \div Power(b, i - 1)) % b) * Power(b, i - 1)
    BY DEF Digits
  <2> HIDE DEF a
  <2>2. IsSum(a, n, f) /\ i \in 0..n /\ i # 0
    BY DEF a
  <2>3. f[i] = f[i - 1] + a[i]
    BY <2>2 DEF IsSum
  <2>4. QED
    BY <2>1, <2>3
<1>3. T = {}
  <2> SUFFICES ASSUME T # {} PROVE FALSE
    OBVIOUS
  <2>1. PICK i \in T : \A y \in T : i <= y
    BY LeastNat
  <2>2. i # 0
    <3>1. v % 1 = 0
      OBVIOUS
    <3>2. QED
      BY <1>1, <2>1, <3>1, PowerZero
  <2>3. /\ i \in 1..n /\ i - 1 \in Nat /\ i - 1 <= n /\ i - 1 < i
        /\ (i - 1) + 1 = i
    BY <2>1, <2>2
  <2> DEFINE P == Power(b, i - 1)
  <2>4. f[i - 1] = v % P
    <3>1. i - 1 \notin T
      <4> HIDE DEF T
      <4>1. QED
        BY <2>1, <2>3
    <3>2. QED
      BY <2>3, <3>1
  <2>5. P \in Nat \ {0}
    BY <2>3, PowerPositive
  <2>6. Power(b, i) = b * P
    BY <2>3, PowerNext
  <2>7. f[i] = (v % P) + ((v \div P) % b) * P
    BY <1>2, <2>3, <2>4
  <2> HIDE DEF P
  <2>8. v % (P * b) = (v % P) + ((v \div P) % b) * P
    BY <2>5, RemainderOfProduct
  <2>9. P * b = b * P
    BY <2>5
  <2>10. QED
    BY <2>1, <2>6, <2>7, <2>8, <2>9
<1>4. n \in Nat /\ n <= n
  OBVIOUS
<1>5. QED
  BY <1>3, <1>4

\* A sum whose terms are the digits of v gives v.
LEMMA SumOfDigits ==
    ASSUME NEW b \in Nat \ {0}, NEW v \in Nat, NEW n \in Nat, v < Power(b, n),
           NEW a, \A i \in 1..n : a[i] = Digits(b, v, n)[i],
           NEW f, IsSum(a, n, f)
    PROVE  f[n] = v
<1> DEFINE d == Digits(b, v, n)
<1> HIDE DEF d
<1>1. \A i \in 0..n : i # 0 => a[i] = d[i]
  BY DEF d
<1>2. [i \in 0..n |-> IF i = 0 THEN 0 ELSE f[i - 1] + a[i]]
        = [i \in 0..n |-> IF i = 0 THEN 0 ELSE f[i - 1] + d[i]]
  BY <1>1
<1>3. IsSum(d, n, f)
  BY <1>2 DEF IsSum
<1>4. f[n] = v % Power(b, n)
  BY <1>3, DigitsSum DEF d
<1>5. Power(b, n) \in Nat \ {0}
  BY PowerPositive
<1>6. QED
  BY <1>4, <1>5, Below

-----------------------------------------------------------------------------
(* Words joined to a text *)

\* f[i] is the first i words of w joined.
IsJoined(w, n, f) ==
    f = [i \in 0..n |-> IF i = 0 THEN <<>> ELSE f[i - 1] \o w[i]]

WordsOf(w, n, S) == \A i \in 1..n : w[i] \in Seq(S)

\* The word v stands in s after the first at signs.
StandsAt(v, s, at) ==
    at + Len(v) <= Len(s) /\ \A k \in 1..Len(v) : s[at + k] = v[k]

LEMMA JoinedExists ==
    ASSUME NEW w
    PROVE  \A n \in Nat : \E f : IsJoined(w, n, f)
<1> DEFINE T == {n \in Nat : ~\E f : IsJoined(w, n, f)}
<1> SUFFICES ASSUME T # {} PROVE FALSE
  OBVIOUS
<1>1. PICK n \in T : \A y \in T : n <= y
  BY LeastNat
<1>2. n # 0
  <2>1. IsJoined(w, 0, [i \in 0..0 |-> <<>>])
    BY DEF IsJoined
  <2>2. QED
    BY <1>1, <2>1
<1>3. n - 1 \in Nat /\ n \in Nat
  BY <1>1, <1>2
<1>4. PICK f : IsJoined(w, n - 1, f)
  BY <1>1, <1>3
<1> DEFINE g == [i \in 0..n |-> IF i = n THEN f[n - 1] \o w[n] ELSE f[i]]
<1>5. ASSUME NEW i \in 0..n
      PROVE  g[i] = IF i = 0 THEN <<>> ELSE g[i - 1] \o w[i]
  <2>1. i = n \/ i \in 0..(n - 1)
    BY <1>3
  <2>2. \A j \in 0..(n - 1) : j \in 0..n /\ j # n
    BY <1>3
  <2>3. \A j \in 0..(n - 1) : g[j] = f[j]
    BY <2>2
  <2>4. i # 0 => i - 1 \in 0..(n - 1)
    BY <1>3
  <2>5. CASE i = n
    <3>1. g[i] = f[n - 1] \o w[n]
      BY <2>5
    <3>2. g[n - 1] = f[n - 1]
      BY <1>2, <2>3, <2>4, <2>5
    <3> HIDE DEF g
    <3>3. QED
      BY <1>2, <2>5, <3>1, <3>2
  <2>6. CASE i \in 0..(n - 1)
    <3>1. f[i] = IF i = 0 THEN <<>> ELSE f[i - 1] \o w[i]
      BY <1>4, <2>6 DEF IsJoined
    <3> HIDE DEF g
    <3>2. QED
      BY <2>3, <2>4, <2>6, <3>1
  <2>7. QED
    BY <2>1, <2>5, <2>6
<1>6. g = [i \in 0..n |-> IF i = 0 THEN <<>> ELSE g[i - 1] \o w[i]]
  <2>1. g = [i \in 0..n |-> g[i]]
    OBVIOUS
  <2> HIDE DEF g
  <2>2. QED
    BY <1>5, <2>1
<1> HIDE DEF g
<1>7. IsJoined(w, n, g)
  BY <1>6 DEF IsJoined
<1>8. QED
  BY <1>1, <1>7

LEMMA JoinedSeq ==
    ASSUME NEW S, NEW n \in Nat, NEW w, WordsOf(w, n, S),
           NEW f, IsJoined(w, n, f)
    PROVE  f[0] = <<>> /\ \A i \in 0..n : f[i] \in Seq(S)
<1> DEFINE T == {m \in Nat : m <= n /\ f[m] \notin Seq(S)}
<1>1. f[0] = <<>>
  BY DEF IsJoined
<1>2. ASSUME NEW i \in 1..n PROVE f[i] = f[i - 1] \o w[i]
  BY DEF IsJoined
<1>3. T = {}
  <2> SUFFICES ASSUME T # {} PROVE FALSE
    OBVIOUS
  <2>1. PICK m \in T : \A y \in T : m <= y
    BY LeastNat
  <2>2. m # 0
    <3>1. <<>> \in Seq(S)
      OBVIOUS
    <3>2. f[m] \notin Seq(S)
      BY <2>1
    <3>3. QED
      BY <1>1, <3>1, <3>2, Zenon
  <2>3. m \in 1..n /\ m - 1 \in Nat /\ m - 1 <= n /\ m - 1 < m
    BY <2>1, <2>2
  <2>4. f[m - 1] \in Seq(S)
    BY <2>1, <2>3
  <2>5. f[m - 1] \o w[m] \in Seq(S)
    BY <2>3, <2>4 DEF WordsOf
  <2>6. QED
    BY <1>2, <2>1, <2>3, <2>5
<1>4. \A i \in 0..n : i \in Nat /\ i <= n
  OBVIOUS
<1>5. \A i \in 0..n : f[i] \in Seq(S)
  BY <1>3, <1>4
<1>6. QED
  BY <1>1, <1>5, Zenon

\* Every word stands in the whole where the words before it end.
LEMMA JoinedStands ==
    ASSUME NEW S, NEW n \in Nat, NEW w, WordsOf(w, n, S),
           NEW f, IsJoined(w, n, f)
    PROVE  \A i \in 1..n : /\ StandsAt(w[i], f[n], Len(f[i - 1]))
                           /\ Len(f[i]) = Len(f[i - 1]) + Len(w[i])
<1> DEFINE P(i) == /\ Len(f[i]) <= Len(f[n])
                   /\ \A k \in 1..Len(f[i]) : f[i][k] = f[n][k]
           T == {m \in Nat : m <= n /\ ~P(n - m)}
<1>1. /\ \A i \in 1..n : f[i] = f[i - 1] \o w[i]
      /\ \A i \in 0..n : f[i] \in Seq(S)
  <2>1. \A i \in 0..n : f[i] \in Seq(S)
    BY JoinedSeq
  <2>2. ASSUME NEW i \in 1..n PROVE f[i] = f[i - 1] \o w[i]
    BY DEF IsJoined
  <2>3. QED
    BY <2>1, <2>2
<1>2. ASSUME NEW i \in 1..n
      PROVE  /\ f[i - 1] \in Seq(S) /\ w[i] \in Seq(S) /\ f[n] \in Seq(S)
             /\ f[i] = f[i - 1] \o w[i] /\ Len(f[i]) = Len(f[i - 1]) + Len(w[i])
             /\ \A k \in 1..Len(f[i - 1]) :
                    k \in 1..Len(f[i]) /\ f[i][k] = f[i - 1][k]
             /\ \A k \in 1..Len(w[i]) :
                    /\ Len(f[i - 1]) + k \in 1..Len(f[i])
                    /\ f[i][Len(f[i - 1]) + k] = w[i][k]
             /\ Len(f[i]) \in Nat /\ Len(f[i - 1]) \in Nat /\ Len(w[i]) \in Nat
             /\ Len(f[n]) \in Nat
  <2>1. i - 1 \in 0..n /\ n \in 0..n
    OBVIOUS
  <2> DEFINE a == f[i - 1]
             b == w[i]
             c == f[i]
             d == f[n]
  <2>2. a \in Seq(S) /\ b \in Seq(S) /\ d \in Seq(S) /\ c = a \o b
    BY <1>1, <2>1 DEF WordsOf
  <2> HIDE DEF a, b, c, d
  <2>3. /\ Len(c) = Len(a) + Len(b) /\ Len(c) \in Nat /\ Len(a) \in Nat
        /\ Len(b) \in Nat /\ Len(d) \in Nat
        /\ \A k \in 1..Len(a) : k \in 1..Len(c) /\ c[k] = a[k]
        /\ \A k \in 1..Len(b) : Len(a) + k \in 1..Len(c) /\ c[Len(a) + k] = b[k]
    BY <2>2
  <2>4. QED
    BY <2>2, <2>3 DEF a, b, c, d
<1>3. ASSUME NEW i \in 1..n, P(i) PROVE P(i - 1)
  <2> DEFINE a == f[i - 1]
             c == f[i]
             d == f[n]
  <2>1. /\ Len(a) \in Nat /\ Len(c) \in Nat /\ Len(d) \in Nat
        /\ Len(w[i]) \in Nat /\ Len(c) = Len(a) + Len(w[i])
        /\ \A k \in 1..Len(a) : k \in 1..Len(c) /\ c[k] = a[k]
    BY <1>2
  <2>2. Len(c) <= Len(d) /\ \A k \in 1..Len(c) : c[k] = d[k]
    BY <1>3
  <2> HIDE DEF a, c, d
  <2>3. Len(a) <= Len(d) /\ \A k \in 1..Len(a) : a[k] = d[k]
    BY <2>1, <2>2
  <2>4. QED
    BY <2>3 DEF a, d
<1>4. P(n)
  <2>1. Len(f[n]) \in Nat
    BY <1>1
  <2>2. QED
    BY <2>1
<1>5. T = {}
  <2> SUFFICES ASSUME T # {} PROVE FALSE
    OBVIOUS
  <2>1. PICK m \in T : \A y \in T : m <= y
    BY LeastNat
  <2> HIDE DEF P
  <2>2. m \in Nat /\ m <= n /\ ~P(n - m)
    BY <2>1
  <2>3. m # 0
    <3>1. m = 0 => n - m = n
      OBVIOUS
    <3>2. QED
      BY <1>4, <2>2, <3>1
  <2>4. m - 1 \in Nat /\ m - 1 <= n /\ m - 1 < m
    BY <2>2, <2>3
  <2>5. m - 1 \notin T
    <3> HIDE DEF T
    <3>1. QED
      BY <2>1, <2>2, <2>4
  <2>6. P(n - (m - 1))
    BY <2>4, <2>5
  <2>7. n - (m - 1) \in 1..n /\ (n - (m - 1)) - 1 = n - m
    BY <2>2, <2>4
  <2>8. QED
    BY <1>3, <2>2, <2>6, <2>7
<1>6. \A i \in 0..n : n - i \in Nat /\ n - i <= n /\ n - (n - i) = i
  OBVIOUS
<1>7. \A i \in 0..n : P(i)
  <2> HIDE DEF P
  <2>1. QED
    BY <1>5, <1>6
<1>8. ASSUME NEW i \in 1..n PROVE StandsAt(w[i], f[n], Len(f[i - 1]))
  <2>1. i \in 0..n
    OBVIOUS
  <2>2. P(i)
    BY <1>7, <2>1
  <2>3. QED
    BY <1>2, <2>2 DEF StandsAt
<1>9. QED
  BY <1>2, <1>8

-----------------------------------------------------------------------------
(* Parts of sequences and sequences joined *)

LEMMA SubSeqFirst ==
    ASSUME NEW S, NEW s \in Seq(S), NEW i \in 1..Len(s)
    PROVE  <<s[i]>> \o SubSeq(s, i + 1, Len(s)) = SubSeq(s, i, Len(s))
  OBVIOUS

LEMMA Associates ==
    ASSUME NEW S, NEW a \in Seq(S), NEW x \in S, NEW y \in S
    PROVE  (a \o <<x>>) \o <<>> = a \o <<x>> /\ (a \o <<x>>) \o <<y>> = a \o <<x, y>>
<1> DEFINE b == a \o <<x>>
           c == b \o <<y>>
           e == a \o <<x, y>>
<1>1. <<x>> \in Seq(S) /\ <<y>> \in Seq(S) /\ <<x, y>> \in Seq(S)
  OBVIOUS
<1>2. b \in Seq(S) /\ Len(b) = Len(a) + 1
  BY <1>1
<1>3. b \o <<>> = b
  <2> HIDE DEF b
  <2>1. QED
    BY <1>2
<1>4. Len(c) = Len(e) /\ c \in Seq(S) /\ e \in Seq(S)
  BY <1>1, <1>2
<1>5. ASSUME NEW i \in 1..Len(c) PROVE c[i] = e[i]
  <2>1. Len(c) = Len(a) + 2 /\ Len(a) \in Nat
    BY <1>1, <1>2
  <2>2. i \in 1..Len(a) \/ i = Len(a) + 1 \/ i = Len(a) + 2
    BY <2>1
  <2>3. QED
    BY <1>1, <1>2, <2>1, <2>2
<1>6. c = e
  <2> HIDE DEF c, e
  <2>1. QED
    BY <1>4, <1>5
<1>7. QED
  BY <1>3, <1>6

LEMMA SubSeqStands ==
    ASSUME NEW S, NEW h \in Seq(S), NEW v \in Seq(S), NEW m \in Nat,
           StandsAt(v, h, m), NEW lo, lo = m + 1, NEW hi, hi = m + Len(v)
    PROVE  SubSeq(h, lo, hi) = v
<1> DEFINE u == SubSeq(h, lo, hi)
<1>1. m + Len(v) <= Len(h) /\ \A k \in 1..Len(v) : h[m + k] = v[k]
  BY DEF StandsAt
<1>2. Len(v) \in Nat /\ Len(h) \in Nat
  OBVIOUS
<1>3. u = [k \in 1..Len(v) |-> h[m + k]]
  BY <1>1, <1>2
<1>4. v = [k \in 1..Len(v) |-> v[k]]
  OBVIOUS
<1>5. QED
  BY <1>1, <1>3, <1>4

LEMMA SubSeqFacts ==
    ASSUME NEW S, NEW s \in Seq(S), NEW i \in Nat \ {0}, NEW m \in Nat,
           i + m <= Len(s) + 1, NEW hi, hi = (i + m) - 1,
           NEW u, u = SubSeq(s, i, hi)
    PROVE  u \in Seq(S) /\ Len(u) = m /\ \A k \in 1..m : u[k] = s[(i + k) - 1]
<1>1. hi \in Nat /\ hi <= Len(s) /\ (hi - i) + 1 = m
  OBVIOUS
<1>2. \A k \in 1..m : (i + k) - 1 \in 1..Len(s) /\ (i + k) - 1 = i + (k - 1)
  BY <1>1
<1> DEFINE w == [k \in 1..m |-> s[i + (k - 1)]]
<1>3. u = w
  BY <1>1
<1>4. w \in Seq(S) /\ Len(w) = m
  BY <1>2
<1>5. QED
  BY <1>2, <1>3, <1>4

LEMMA SubSeqMore ==
    ASSUME NEW s \in Seq(Nat), NEW i \in Nat \ {0}, NEW n \in i..Len(s)
    PROVE  /\ SubSeq(s, i, n - 1) \in Seq(Nat)
           /\ Len(SubSeq(s, i, n - 1)) = n - i
           /\ SubSeq(s, i, n) = Append(SubSeq(s, i, n - 1), s[n])
<1> DEFINE m == n - i
           o == m + 1
           h == n - 1
           a == SubSeq(s, i, h)
           b == SubSeq(s, i, n)
<1>1. /\ m \in Nat /\ o \in Nat /\ o = m + 1 /\ i + m <= Len(s) + 1
      /\ i + o <= Len(s) + 1 /\ h = (i + m) - 1
      /\ n = (i + o) - 1 /\ s[n] \in Nat
  OBVIOUS
<1>0. a = SubSeq(s, i, h) /\ b = SubSeq(s, i, n)
  OBVIOUS
<1> HIDE DEF m, h, o, a, b
<1>2. a \in Seq(Nat) /\ Len(a) = m /\ \A k \in 1..m : a[k] = s[(i + k) - 1]
  <2>1. m \in Nat /\ i + m <= Len(s) + 1 /\ a = SubSeq(s, i, (i + m) - 1)
    BY <1>0, <1>1
  <2>2. QED
    BY <2>1, SubSeqFacts
<1>3. /\ b \in Seq(Nat) /\ Len(b) = o
      /\ \A k \in 1..o : b[k] = s[(i + k) - 1]
  <2>1. o \in Nat /\ i + o <= Len(s) + 1 /\ b = SubSeq(s, i, (i + o) - 1)
    BY <1>0, <1>1
  <2>2. QED
    BY <2>1, SubSeqFacts
<1>4. b = Append(a, s[n])
  <2> DEFINE c == Append(a, s[n])
  <2>1. /\ c \in Seq(Nat) /\ Len(c) = Len(a) + 1 /\ c[Len(a) + 1] = s[n]
        /\ \A k \in 1..Len(a) : c[k] = a[k]
    BY <1>1, <1>2
  <2> HIDE DEF c
  <2>2. b[m + 1] = s[n]
    BY <1>1, <1>3
  <2>3. ASSUME NEW k \in 1..(m + 1) PROVE b[k] = c[k]
    <3>1. k \in 1..m \/ k = m + 1
      BY <1>1
    <3>2. CASE k \in 1..m
      <4>1. k \in 1..o
        BY <1>1, <3>2
      <4>2. QED
        BY <1>2, <1>3, <2>1, <3>2, <4>1
    <3>3. QED
      BY <1>2, <2>1, <2>2, <3>1, <3>2
  <2>4. b = c
    BY SMTT(60), <1>1, <1>2, <1>3, <2>1, <2>3
  <2>5. QED
    BY <2>4 DEF c
<1>5. QED
  BY <1>2, <1>4 DEF a, b, m, h

LEMMA Assoc ==
    ASSUME NEW S, NEW a \in Seq(S), NEW b \in Seq(S), NEW c \in Seq(S)
    PROVE  (a \o b) \o c = a \o (b \o c)
<1> DEFINE l == a \o b
           r == b \o c
           x == l \o c
           y == a \o r
<1>1. /\ l \in Seq(S) /\ Len(l) = Len(a) + Len(b)
      /\ \A k \in 1..Len(a) : l[k] = a[k]
      /\ \A k \in 1..Len(b) : l[Len(a) + k] = b[k]
  OBVIOUS
<1>2. /\ r \in Seq(S) /\ Len(r) = Len(b) + Len(c)
      /\ \A k \in 1..Len(b) : r[k] = b[k]
      /\ \A k \in 1..Len(c) : r[Len(b) + k] = c[k]
  OBVIOUS
<1> HIDE DEF l, r
<1>3. /\ x \in Seq(S) /\ Len(x) = Len(l) + Len(c)
      /\ \A k \in 1..Len(l) : x[k] = l[k]
      /\ \A k \in 1..Len(c) : x[Len(l) + k] = c[k]
  <2>1. l \in Seq(S) /\ c \in Seq(S)
    BY <1>1
  <2>2. QED
    BY <2>1
<1>4. /\ y \in Seq(S) /\ Len(y) = Len(a) + Len(r)
      /\ \A k \in 1..Len(a) : y[k] = a[k]
      /\ \A k \in 1..Len(r) : y[Len(a) + k] = r[k]
  <2>1. r \in Seq(S)
    BY <1>2
  <2>2. QED
    BY <2>1
<1> HIDE DEF x, y
<1>5. Len(a) \in Nat /\ Len(b) \in Nat /\ Len(c) \in Nat
  OBVIOUS
<1>6. Len(x) = Len(y) /\ Len(x) = Len(a) + Len(b) + Len(c)
  BY <1>1, <1>2, <1>3, <1>4, <1>5
<1>7. ASSUME NEW k \in 1..Len(x) PROVE x[k] = y[k]
  <2>1. CASE k <= Len(a)
    <3>1. k \in 1..Len(a) /\ k \in 1..Len(l)
      BY <1>1, <1>5, <1>6, <2>1
    <3>2. QED
      BY <1>1, <1>3, <1>4, <3>1
  <2>2. ASSUME NEW j \in 1..Len(b), k = Len(a) + j PROVE x[k] = y[k]
    <3>1. k \in 1..Len(l) /\ j \in 1..Len(r)
      BY <1>1, <1>2, <1>5, <2>2
    <3>2. QED
      BY <1>1, <1>2, <1>3, <1>4, <2>2, <3>1
  <2>3. ASSUME NEW j \in 1..Len(c), k = (Len(a) + Len(b)) + j PROVE x[k] = y[k]
    <3>1. Len(b) + j \in 1..Len(r) /\ k = Len(a) + (Len(b) + j) /\ k = Len(l) + j
      BY <1>1, <1>2, <1>5, <2>3
    <3>2. QED
      BY <1>2, <1>3, <1>4, <3>1
  <2>4. \/ k <= Len(a) \/ k - Len(a) \in 1..Len(b)
        \/ k - (Len(a) + Len(b)) \in 1..Len(c)
    BY <1>5, <1>6
  <2>5. k = Len(a) + (k - Len(a)) /\ k = (Len(a) + Len(b)) + (k - (Len(a) + Len(b)))
    BY <1>5, <1>6
  <2>6. QED
    BY <2>1, <2>2, <2>3, <2>4, <2>5
<1>8. x = y
  <2>1. x \in Seq(S) /\ y \in Seq(S) /\ Len(x) = Len(y)
    BY <1>3, <1>4, <1>6
  <2>2. \A k \in 1..Len(x) : x[k] = y[k]
    BY <1>7
  <2>3. QED
    BY SMTT(60), <2>1, <2>2
<1>9. QED
  BY <1>8 DEF x, y, l, r

LEMMA WithNothing ==
    ASSUME NEW S, NEW a \in Seq(S)
    PROVE  a \o <<>> = a /\ <<>> \o a = a
  OBVIOUS

IsJoin(u, a, b) == u = a \o b

LEMMA JoinFacts ==
    ASSUME NEW S, NEW a \in Seq(S), NEW b \in Seq(S), NEW u, IsJoin(u, a, b)
    PROVE  /\ u \in Seq(S) /\ Len(u) = Len(a) + Len(b)
           /\ \A k \in 1..Len(a) : u[k] = a[k]
           /\ \A k \in 1..Len(b) : u[Len(a) + k] = b[k]
<1>1. a \o b \in Seq(S) /\ Len(a \o b) = Len(a) + Len(b)
  OBVIOUS
<1>2. \A k \in 1..Len(a) : (a \o b)[k] = a[k]
  OBVIOUS
<1>3. \A k \in 1..Len(b) : (a \o b)[Len(a) + k] = b[k]
  OBVIOUS
<1>4. QED
  BY <1>1, <1>2, <1>3 DEF IsJoin

LEMMA SameSequence ==
    ASSUME NEW S, NEW a \in Seq(S), NEW b \in Seq(S), NEW n, Len(a) = n, Len(b) = n,
           \A k \in 1..n : a[k] = b[k]
    PROVE  a = b
  OBVIOUS

LEMMA NotBothEven ==
    ASSUME NEW j \in Nat, j % 2 = 0, (j + 1) % 2 = 0 PROVE FALSE
  OBVIOUS

-----------------------------------------------------------------------------
(* Recursion over a table of steps *)

\* t[i] is what step i makes of what was there before it.
IsTable(t, S, N) == t \in [1..N -> [S -> S]]

Obeys(f, S, a, N, t) ==
    f \in [0..N -> S] /\ f[0] = a /\ \A i \in 1..N : f[i] = t[i][f[i - 1]]

LEMMA RecursionExists ==
    ASSUME NEW S, NEW a \in S, NEW N \in Nat, NEW t, IsTable(t, S, N)
    PROVE  \E f : Obeys(f, S, a, N, t)
<1> DEFINE R(n, f) == /\ f \in [0..n -> S] /\ f[0] = a
                      /\ \A i \in 1..n : f[i] = t[i][f[i - 1]]
           T == {n \in Nat : n <= N /\ ~\E f : R(n, f)}
<1>1. T = {}
  <2> SUFFICES ASSUME T # {} PROVE FALSE
    OBVIOUS
  <2>1. PICK n \in T : \A y \in T : n <= y
    BY LeastNat
  <2>2. n # 0
    <3> DEFINE h == [i \in 0..0 |-> a]
    <3>1. R(0, h)
      OBVIOUS
    <3> HIDE DEF R
    <3>2. QED
      BY <2>1, <3>1
  <2>3. n \in 1..N /\ n \in Nat /\ n - 1 \in Nat /\ n - 1 <= N /\ ~(n <= n - 1)
    BY <2>1, <2>2
  <2>4. \E f : R(n - 1, f)
    <3> HIDE DEF R
    <3>1. QED
      BY <2>1, <2>3
  <2>5. PICK f : R(n - 1, f)
    BY <2>4
  <2>6. t[n] \in [S -> S] /\ f[n - 1] \in S /\ t[n][f[n - 1]] \in S
    <3>1. t \in [1..N -> [S -> S]]
      BY DEF IsTable
    <3>2. n - 1 \in 0..(n - 1)
      BY <2>3
    <3>3. QED
      BY <2>3, <2>5, <3>1, <3>2
  <2> DEFINE x == t[n][f[n - 1]]
             g == [i \in 0..n |-> IF i = n THEN x ELSE f[i]]
  <2>7. \A i \in 0..n : i = n \/ i \in 0..(n - 1)
    BY <2>3
  <2>8. g \in [0..n -> S]
    BY <2>5, <2>6, <2>7
  <2>9. g[0] = a
    BY <2>2, <2>3, <2>5
  <2>10. ASSUME NEW i \in 1..n PROVE g[i] = t[i][g[i - 1]]
    <3>1. i - 1 \in 0..(n - 1) /\ i - 1 \in 0..n /\ i \in 0..n /\ i - 1 # n
      BY <2>3
    <3>2. g[i - 1] = f[i - 1]
      BY <3>1
    <3>3. CASE i = n
      BY <3>1, <3>2, <3>3
    <3>4. CASE i # n
      <4>1. i \in 1..(n - 1)
        BY <2>3, <3>4
      <4>2. f[i] = t[i][f[i - 1]] /\ g[i] = f[i]
        BY <2>5, <3>1, <3>4, <4>1
      <4> HIDE DEF g
      <4>3. QED
        BY <3>2, <4>2
    <3>5. QED
      BY <3>3, <3>4
  <2>11. R(n, g)
    <3> HIDE DEF g
    <3>1. QED
      BY <2>8, <2>9, <2>10
  <2> HIDE DEF R
  <2>12. QED
    BY <2>1, <2>11
<1>2. \E f : R(N, f)
  <2> HIDE DEF R
  <2>1. N \notin T /\ N <= N
    BY <1>1
  <2>2. QED
    BY <2>1
<1>3. QED
  BY <1>2 DEF Obeys

-----------------------------------------------------------------------------
(* What stands where in a sequence *)

LEMMA NonEmpty ==
    ASSUME NEW S, NEW v \in Seq(S), v # <<>> PROVE Len(v) \in Nat \ {0}
  OBVIOUS

\* The field after a character: one longer, or as before.
LEMMA AppendFirst ==
    ASSUME NEW S, NEW v \in Seq(S), NEW x \in S
    PROVE  /\ Append(v, x) # <<>> /\ Append(v, x) \in Seq(S)
           /\ v = <<>> => Append(v, x)[1] = x
           /\ v # <<>> => Append(v, x)[1] = v[1]
<1> DEFINE w == Append(v, x)
           n == Len(v)
<1>1. /\ w \in Seq(S) /\ Len(w) = n + 1 /\ w[n + 1] = x /\ n \in Nat
      /\ \A k \in 1..n : w[k] = v[k]
  OBVIOUS
<1> HIDE DEF w
<1>2. w # <<>>
  BY <1>1
<1>3. v = <<>> => w[1] = x
  <2>1. v = <<>> => n = 0
    OBVIOUS
  <2>2. QED
    BY <1>1, <2>1
<1>4. v # <<>> => w[1] = v[1]
  <2>1. v # <<>> => n \in Nat \ {0}
    BY NonEmpty
  <2>2. v # <<>> => 1 \in 1..n
    BY <2>1
  <2>3. QED
    BY <1>1, <2>2
<1>5. QED
  BY <1>1, <1>2, <1>3, <1>4 DEF w

Empty(v) == v = <<>>

LEMMA Appended ==
    ASSUME NEW S, NEW v \in Seq(S), NEW x \in S, NEW w, w = Append(v, x)
    PROVE  /\ w \in Seq(S) /\ ~Empty(w)
           /\ Empty(v) => w[1] = x
           /\ ~Empty(v) => w[1] = v[1]
  BY AppendFirst DEF Empty

-----------------------------------------------------------------------------
(* Quotients by ten *)

LEMMA TenParts ==
    ASSUME NEW a \in Nat
    PROVE  a \div 10 \in Nat /\ a % 10 \in 0..9 /\ a = 10 * (a \div 10) + (a % 10)
  OBVIOUS

IsQuotient(a, n, p) == a = n \div p

LEMMA DivByTen ==
    ASSUME NEW n \in Nat, NEW p \in Nat \ {0}, NEW a, IsQuotient(a, n, p),
           NEW b, IsQuotient(b, n, 10 * p)
    PROVE  a \in Nat /\ a = 10 * b + (a % 10)
<1>0. a = n \div p
  BY DEF IsQuotient
<1> DEFINE r == n % p
           c == a \div 10
           d == a % 10
<1>1. a \in Nat /\ r \in 0..(p - 1) /\ n = p * a + r
  BY <1>0, Quotient
<1>2. c \in Nat /\ d \in 0..9 /\ a = 10 * c + d
  <2>1. a \in Nat
    BY <1>1
  <2>2. QED
    BY <2>1, TenParts
<1> HIDE DEF r, c, d
<1>3. PICK e \in Nat : e = p * d /\ e <= 9 * p
  <2>1. \/ d = 0 \/ d = 1 \/ d = 2 \/ d = 3 \/ d = 4 \/ d = 5 \/ d = 6 \/ d = 7
        \/ d = 8 \/ d = 9
    BY <1>2
  <2>2. p * d \in Nat /\ p * d <= 9 * p
    BY <2>1
  <2>3. QED
    BY <2>2
<1>4. n = (10 * p) * c + (e + r)
  <2>1. p * a = p * (10 * c) + p * d
    BY <1>1, <1>2
  <2>2. p * (10 * c) = (10 * p) * c /\ p * c \in Nat
    BY <1>2
  <2> DEFINE x == p * a
             y == (10 * p) * c
  <2>3. n = x + r /\ x = y + e /\ x \in Nat /\ y \in Nat
    BY <1>1, <1>2, <1>3, <2>1, <2>2
  <2>6. r \in Nat
    BY <1>1
  <2> HIDE DEF x, y
  <2>4. n = y + (e + r)
    BY <2>3, <2>6
  <2>5. QED
    BY <2>4 DEF y
<1> DEFINE m == 10 * p
           f == e + r
<1>5. m \in Nat \ {0} /\ f \in 0..(m - 1)
  BY <1>1, <1>3
<1>6. n = m * c + f
  BY <1>4
<1> HIDE DEF m, f
<1>7. n \div m = c
  BY <1>2, <1>5, <1>6, QuotientIs
<1>8. b = c
  BY <1>7 DEF m, IsQuotient
<1>9. QED
  BY <1>1, <1>2, <1>8 DEF d

-----------------------------------------------------------------------------
(* Runs and marks in a sequence *)

\* The characters after the first p and up to the first q are read in the state t.
Spans(at, p, q, t) == \A i \in (p + 1)..q : at[i] = t

LEMMA Spanned ==
    ASSUME NEW at, NEW p \in Nat, NEW n \in Nat, NEW t,
           n # 0 => at[p + 1] = t,
           \A k \in 2..n : at[(p + k) - 1] = t => at[p + k] = t
    PROVE  Spans(at, p, p + n, t)
<1> DEFINE T == {k \in Nat : k \in 1..n /\ at[p + k] # t}
<1>1. T = {}
  <2> SUFFICES ASSUME T # {} PROVE FALSE
    OBVIOUS
  <2>1. PICK k \in T : \A y \in T : k <= y
    <3>1. T \in SUBSET Nat
      OBVIOUS
    <3> HIDE DEF T
    <3>2. QED
      BY <3>1, LeastNat
  <2>2. k \in 1..n /\ at[p + k] # t
    BY <2>1
  <2>3. k # 1
    BY <2>2
  <2>4. k \in 2..n /\ k - 1 \in 1..n /\ ~(k <= k - 1) /\ k - 1 \in Nat /\ p + (k - 1) = (p + k) - 1
    BY <2>2, <2>3
  <2>5. at[p + (k - 1)] = t
    BY <2>1, <2>4
  <2>6. QED
    BY <2>2, <2>4, <2>5
<1>2. ASSUME NEW i \in (p + 1)..(p + n) PROVE at[i] = t
  <2>1. i - p \in 1..n /\ p + (i - p) = i /\ i - p \in Nat
    OBVIOUS
  <2>2. at[p + (i - p)] = t
    BY <1>1, <2>1
  <2>3. QED
    BY <2>1, <2>2
<1>3. QED
  BY <1>2 DEF Spans

\* Where the parts of a text stand.
LEMMA JoinStands ==
    ASSUME NEW S, NEW a \in Seq(S), NEW b \in Seq(S), NEW u, IsJoin(u, a, b)
    PROVE  /\ u \in Seq(S) /\ Len(u) = Len(a) + Len(b)
           /\ StandsAt(a, u, 0) /\ StandsAt(b, u, Len(a))
<1> DEFINE n == Len(a)
           m == Len(b)
<1>1. /\ u \in Seq(S) /\ Len(u) = n + m /\ n \in Nat /\ m \in Nat
      /\ \A k \in 1..n : u[k] = a[k]
      /\ \A k \in 1..m : u[n + k] = b[k]
  BY JoinFacts
<1>2. \A k \in 1..n : u[0 + k] = a[k]
  <2>1. \A k \in 1..n : 0 + k = k
    BY <1>1
  <2>2. QED
    BY <1>1, <2>1
<1>3. 0 + n <= Len(u) /\ n + m <= Len(u)
  <2>1. Len(u) = n + m /\ n \in Nat /\ m \in Nat
    BY <1>1
  <2> HIDE DEF n, m
  <2>2. QED
    BY <2>1
<1>4. QED
  BY <1>1, <1>2, <1>3 DEF StandsAt

\* What stands in a part of a text stands in the text.
LEMMA StandsDeep ==
    ASSUME NEW v, Len(v) \in Nat, NEW a, Len(a) \in Nat, NEW u, Len(u) \in Nat,
           NEW q \in Nat, NEW p \in Nat, StandsAt(v, a, q), StandsAt(a, u, p)
    PROVE  StandsAt(v, u, p + q)
<1> DEFINE n == Len(v)
           m == Len(a)
           l == Len(u)
<1>1. /\ n \in Nat /\ m \in Nat /\ l \in Nat /\ q + n <= m /\ p + m <= l
  BY DEF StandsAt
<1>2. \A k \in 1..n : a[q + k] = v[k]
  BY DEF StandsAt
<1>3. \A k \in 1..m : u[p + k] = a[k]
  BY DEF StandsAt
<1> HIDE DEF n, m, l
<1>4. (p + q) + n <= l
  BY <1>1
<1>5. ASSUME NEW k \in 1..n PROVE u[(p + q) + k] = v[k]
  <2>1. q + k \in 1..m /\ (p + q) + k = p + (q + k)
    BY <1>1
  <2>2. u[p + (q + k)] = a[q + k] /\ a[q + k] = v[k]
    BY <1>2, <1>3, <2>1
  <2>3. QED
    BY <2>1, <2>2
<1>6. QED
  BY <1>4, <1>5 DEF StandsAt, n, l

LEMMA EmptyLen ==
    ASSUME NEW S, NEW v \in Seq(S)
    PROVE  Len(v) \in Nat /\ (Empty(v) <=> Len(v) = 0)
  BY DEF Empty

LEMMA SingleStands ==
    ASSUME NEW c, NEW s, NEW p, StandsAt(<<c>>, s, p)
    PROVE  s[p + 1] = c
<1>1. 1 \in 1..Len(<<c>>) /\ <<c>>[1] = c
  OBVIOUS
<1>2. QED
  BY <1>1 DEF StandsAt

LEMMA FirstIn == ASSUME NEW S, NEW v \in Seq(S), Len(v) # 0 PROVE v[1] \in S
  OBVIOUS

LEMMA StandsOn ==
    ASSUME NEW S, NEW a \in Seq(S), NEW b \in Seq(S), NEW u, IsJoin(u, a, b),
           NEW v \in Seq(S), NEW p \in Nat, StandsAt(v, a, p)
    PROVE  StandsAt(v, u, p)
<1>1. u \in Seq(S) /\ StandsAt(a, u, 0)
  BY JoinStands
<1>2. Len(a) \in Nat /\ Len(u) \in Nat /\ Len(v) \in Nat /\ 0 + p = p
  BY <1>1
<1>3. StandsAt(v, u, 0 + p)
  BY <1>1, <1>2, StandsDeep
<1>4. QED
  BY <1>2, <1>3

\* A word with a mark before it, or nothing.
MarkedText(m, c, v) == (Empty(v) /\ Empty(m)) \/ (~Empty(v) /\ IsJoin(m, <<c>>, v))

\* It is in t after the first p and up to the first e.
MarkedAt(t, c, v, p, e) ==
    \/ Len(v) = 0 /\ e = p
    \/ Len(v) # 0 /\ e = p + 1 + Len(v) /\ t[p + 1] = c /\ StandsAt(v, t, p + 1)

LEMMA MarkedStands ==
    ASSUME NEW S, NEW c \in S, NEW v \in Seq(S), NEW m, MarkedText(m, c, v),
           NEW t \in Seq(S), NEW p \in Nat
    PROVE  m \in Seq(S) /\ (StandsAt(m, t, p) => MarkedAt(t, c, v, p, p + Len(m)))
<1> DEFINE k == <<c>>
<1>1. k \in Seq(S) /\ Len(k) = 1 /\ <<>> \in Seq(S)
  OBVIOUS
<1>2. \A s, q : StandsAt(k, s, q) => s[q + 1] = c
  BY SingleStands
<1>3. (Empty(v) /\ Empty(m)) \/ (~Empty(v) /\ IsJoin(m, k, v))
  BY DEF MarkedText
<1> HIDE DEF k
<1>4. CASE Empty(v) /\ Empty(m)
  <2>1. m \in Seq(S)
    BY <1>1, <1>4 DEF Empty
  <2>2. Len(v) = 0 /\ Len(m) = 0
    BY <1>4, <2>1, EmptyLen
  <2>3. QED
    BY <2>1, <2>2 DEF MarkedAt
<1>5. CASE ~Empty(v) /\ IsJoin(m, k, v)
  <2>1. /\ m \in Seq(S) /\ Len(m) = Len(k) + Len(v) /\ StandsAt(k, m, 0)
        /\ StandsAt(v, m, Len(k))
    BY ZenonT(60), <1>1, <1>5, JoinStands
  <2>2. SUFFICES ASSUME StandsAt(m, t, p) PROVE MarkedAt(t, c, v, p, p + Len(m))
    BY <2>1
  <2>3. /\ Len(k) \in Nat /\ Len(m) \in Nat /\ Len(t) \in Nat /\ Len(v) \in Nat
        /\ Len(v) # 0
    BY <1>1, <1>5, <2>1, EmptyLen
  <2>4. StandsAt(k, t, p + 0)
    BY <2>1, <2>2, <2>3, StandsDeep
  <2>5. StandsAt(v, t, p + 1)
    <3>1. StandsAt(v, m, 1)
      BY <1>1, <2>1
    <3>2. QED
      BY <2>2, <2>3, <3>1, StandsDeep
  <2>6. p + 0 = p /\ p + Len(m) = p + 1 + Len(v)
    <3> DEFINE l == Len(m)
               n == Len(v)
    <3>1. l = 1 + n /\ n \in Nat
      BY <1>1, <2>1, <2>3
    <3> HIDE DEF l, n
    <3>2. p + 0 = p /\ p + l = p + 1 + n
      BY <3>1
    <3>3. QED
      BY <3>2 DEF l, n
  <2>7. t[p + 1] = c
    BY <1>2, <2>4, <2>6
  <2>8. QED
    BY <2>3, <2>5, <2>6, <2>7 DEF MarkedAt
<1>6. QED
  BY <1>3, <1>4, <1>5

LEMMA NoSpan ==
    ASSUME NEW at, NEW p \in Nat, NEW t PROVE Spans(at, p + 1, p, t)
<1>1. \A i \in ((p + 1) + 1)..p : FALSE
  OBVIOUS
<1>2. QED
  BY <1>1 DEF Spans

LEMMA JoinAssoc ==
    ASSUME NEW S, NEW a \in Seq(S), NEW b \in Seq(S), NEW c \in Seq(S),
           NEW x, IsJoin(x, a, b), NEW y, IsJoin(y, x, c), NEW z, IsJoin(z, b, c)
    PROVE  IsJoin(y, a, z)
<1>1. (a \o b) \o c = a \o (b \o c)
  BY Assoc
<1>2. QED
  BY <1>1 DEF IsJoin

\* The text is the server between the scheme and the path.
LEMMA Regrouped ==
    ASSUME NEW S, NEW k \in Seq(S), NEW U \in Seq(S), NEW host \in Seq(S), NEW P \in Seq(S),
           NEW j1, IsJoin(j1, k, U), NEW j2, IsJoin(j2, j1, host), NEW j3, IsJoin(j3, j2, P),
           NEW r, IsJoin(r, host, P), NEW sw, IsJoin(sw, U, r)
    PROVE  IsJoin(j3, k, sw)
<1>1. j1 \in Seq(S) /\ r \in Seq(S)
  BY JoinFacts
<1>2. IsJoin(j3, j1, r)
  BY <1>1, JoinAssoc
<1>3. QED
  BY <1>1, <1>2, JoinAssoc

LEMMA SingleTyped == ASSUME NEW S, NEW x \in S PROVE <<x>> \in Seq(S)
  OBVIOUS

LEMMA JoinTyped == ASSUME NEW S, NEW s \in Seq(S), NEW p \in Seq(S) PROVE s \o p \in Seq(S)
  OBVIOUS

-----------------------------------------------------------------------------
(* Numbers as sums of bits *)

\* The number whose bits the groups name.
IsBits(v, n, f) ==
    f = [i \in 0..n |-> IF i = 0 THEN 0
                        ELSE f[i - 1] + (IF v[i] = 0 THEN 0 ELSE Power(2, i - 1))]

LEMMA BitsExist == ASSUME NEW v, NEW n \in Nat PROVE \E f : IsBits(v, n, f)
<1> DEFINE a == [i \in 1..n |-> IF v[i] = 0 THEN 0 ELSE Power(2, i - 1)]
<1>1. PICK f : IsSum(a, n, f)
  BY SumExists
<1>2. \A i \in 0..n : i # 0 => a[i] = IF v[i] = 0 THEN 0 ELSE Power(2, i - 1)
  OBVIOUS
<1> HIDE DEF a
<1>3. [i \in 0..n |-> IF i = 0 THEN 0 ELSE f[i - 1] + a[i]]
        = [i \in 0..n |-> IF i = 0 THEN 0
                          ELSE f[i - 1] + (IF v[i] = 0 THEN 0 ELSE Power(2, i - 1))]
  BY <1>2
<1>4. IsBits(v, n, f)
  BY <1>1, <1>3 DEF IsSum, IsBits
<1>5. QED
  BY <1>4

LEMMA BitsBelow ==
    ASSUME NEW v, NEW n \in Nat, NEW f, IsBits(v, n, f)
    PROVE  f[n] \in Nat /\ f[n] < Power(2, n)
<1> DEFINE T == {i \in Nat : i <= n /\ ~(f[i] \in Nat /\ f[i] < Power(2, i))}
<1>1. f[0] = 0
  BY DEF IsBits
<1>2. ASSUME NEW i \in 1..n
      PROVE  f[i] = f[i - 1] + (IF v[i] = 0 THEN 0 ELSE Power(2, i - 1))
  <2>1. i \in 0..n /\ i # 0
    OBVIOUS
  <2>2. QED
    BY <2>1 DEF IsBits
<1>3. T = {}
  <2> SUFFICES ASSUME T # {} PROVE FALSE
    OBVIOUS
  <2>1. PICK i \in T : \A y \in T : i <= y
    BY LeastNat
  <2>2. i # 0
    BY <1>1, <2>1, PowerZero
  <2>3. /\ i \in 1..n /\ i - 1 \in Nat /\ i - 1 <= n /\ i - 1 < i
        /\ (i - 1) + 1 = i
    BY <2>1, <2>2
  <2> DEFINE P == Power(2, i - 1)
  <2>4. f[i - 1] \in Nat /\ f[i - 1] < P
    <3>1. i - 1 \notin T
      <4> HIDE DEF T
      <4>1. QED
        BY <2>1, <2>3
    <3>2. QED
      BY <2>3, <3>1
  <2>5. P \in Nat
    BY <2>3, PowerPositive
  <2>6. Power(2, i) = 2 * P
    BY <2>3, PowerNext
  <2>7. f[i] = f[i - 1] + (IF v[i] = 0 THEN 0 ELSE P)
    BY <1>2, <2>3
  <2> HIDE DEF P
  <2>8. f[i] \in Nat /\ f[i] < 2 * P
    BY <2>4, <2>5, <2>7
  <2>9. QED
    BY <2>1, <2>6, <2>8
<1>4. QED
  BY <1>3

-----------------------------------------------------------------------------
(* The characters of a sequence that are read in given states *)

IsField(str, at, states, f) ==
    f = [i \in 0..Len(str) |-> IF i = 0 THEN <<>>
                               ELSE IF at[i] \in states THEN Append(f[i - 1], str[i])
                               ELSE f[i - 1]]

LEMMA FieldExists ==
    ASSUME NEW X, NEW str \in Seq(X), NEW at, NEW states
    PROVE  \E f : IsField(str, at, states, f)
<1> DEFINE S == Seq(X)
           N == Len(str)
           a == <<>>
           step(s, i) == IF at[i] \in states THEN Append(s, str[i]) ELSE s
           t == [i \in 1..N |-> [s \in S |-> step(s, i)]]
<1>1. a \in S /\ N \in Nat
  OBVIOUS
<1>2. ASSUME NEW f
      PROVE  IsField(str, at, states, f)
                <=> f = [i \in 0..N |-> IF i = 0 THEN a ELSE step(f[i - 1], i)]
  BY DEF IsField
<1>3. ASSUME NEW s \in S, NEW i \in 1..N PROVE step(s, i) \in S
  <2>1. str[i] \in X
    OBVIOUS
  <2>2. QED
    BY <2>1
<1> HIDE DEF S, a, step, N
<1>4. IsTable(t, S, N)
  BY <1>3 DEF IsTable
<1>5. PICK f : f \in [0..N -> S] /\ f[0] = a /\ \A i \in 1..N : f[i] = t[i][f[i - 1]]
  <2> HIDE DEF t
  <2>1. \E f : Obeys(f, S, a, N, t)
    BY <1>1, <1>4, RecursionExists
  <2>2. QED
    BY <2>1 DEF Obeys
<1>6. ASSUME NEW i \in 0..N PROVE f[i] = IF i = 0 THEN a ELSE step(f[i - 1], i)
  <2>1. CASE i = 0
    BY <1>5, <2>1
  <2>2. CASE i # 0
    <3>1. i \in 1..N /\ i - 1 \in 0..N
      BY <1>1, <2>2
    <3>2. f[i - 1] \in S /\ f[i] = t[i][f[i - 1]]
      BY <1>5, <3>1
    <3>3. QED
      BY <2>2, <3>1, <3>2
  <2>3. QED
    BY <2>1, <2>2
<1>7. f = [i \in 0..N |-> IF i = 0 THEN a ELSE step(f[i - 1], i)]
  <2>1. f = [i \in 0..N |-> f[i]]
    BY <1>5
  <2>2. QED
    BY <1>6, <2>1
<1>8. QED
  BY <1>2, <1>7
=============================================================================
