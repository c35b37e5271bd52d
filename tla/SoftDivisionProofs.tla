------------------------- MODULE SoftDivisionProofs -------------------------
(* The unsigned divisions of system.c, for every width of a word: what holds*)
(* in their loops, and that the functions that stand for whole calls divide.*)
EXTENDS SoftArithmetic, FiniteSetTheorems, WellFoundedInduction, TLAPS

-----------------------------------------------------------------------------
(* Induction, and powers of two.                                            *)

\* A set of natural numbers that is not empty has a least member.
LEMMA Least ==
  ASSUME NEW T, T \subseteq Nat, T # {}
  PROVE  \E x \in T : \A y \in T : x <= y
<1>1. \E x \in T : \A y \in T : ~ (<<y, x>> \in OpToRel(<, Nat))
  BY NatLessThanWellFounded, WFMin
<1>2. PICK x \in T : \A y \in T : ~ (<<y, x>> \in OpToRel(<, Nat))
  BY <1>1
<1>3. ASSUME NEW y \in T PROVE x <= y
  <2>1. ~(y < x)
    BY <1>2 DEF OpToRel
  <2>2. QED
    BY <2>1
<1>4. QED
  BY <1>3

\* A set that contains 0, and with every number the next, contains them all:
\* induction, with a set where the library's theorem has an operator.
LEMMA SetInduction ==
  ASSUME NEW S, 0 \in S, \A n \in Nat : n \in S => n + 1 \in S
  PROVE  Nat \subseteq S
<1> SUFFICES ASSUME Nat \ S # {} PROVE FALSE
  OBVIOUS
<1>1. PICK x \in Nat \ S : \A y \in Nat \ S : x <= y
  BY Least
<1>2. x # 0 /\ x - 1 \in Nat /\ x - 1 + 1 = x
  OBVIOUS
<1>3. x - 1 \in S
  BY <1>1, <1>2
<1>4. QED
  BY <1>2, <1>3

\* Powers of two are numbers of subsets, and a further element doubles these:
\* those without the element, and those with it.
LEMMA PowSucc ==
  ASSUME NEW n \in Nat
  PROVE  2^n \in Nat /\ 2^(n + 1) = 2 * 2^n
<1> DEFINE A == SUBSET (1 .. n)
           f == [x \in A |-> x \union {n + 1}]
           B == {f[x] : x \in A}
<1>1. /\ IsFiniteSet(1 .. n) /\ Cardinality(1 .. n) = n
      /\ IsFiniteSet(1 .. n + 1) /\ Cardinality(1 .. n + 1) = n + 1
  <2>1. IsFiniteSet(1 .. n) /\ Cardinality(1 .. n) = IF 1 > n THEN 0 ELSE n - 1 + 1
    BY FS_Interval
  <2>2. IsFiniteSet(1 .. n + 1) /\ Cardinality(1 .. n + 1) = IF 1 > n + 1 THEN 0 ELSE n + 1 - 1 + 1
    BY FS_Interval
  <2>3. QED
    BY <2>1, <2>2
<1>2. /\ IsFiniteSet(A) /\ Cardinality(A) = 2^n
      /\ Cardinality(SUBSET (1 .. n + 1)) = 2^(n + 1)
  BY <1>1, FS_SUBSET
<1>3. ASSUME NEW x \in A PROVE n + 1 \notin x
  OBVIOUS
<1>4. ASSUME NEW x \in A, NEW y \in A, f[x] = f[y] PROVE x = y
  <2>1. x \union {n + 1} = y \union {n + 1}
    BY <1>4
  <2>2. x = f[x] \ {n + 1} /\ y = f[y] \ {n + 1}
    BY <1>3
  <2>3. QED
    BY <1>4, <2>2
<1>5. IsFiniteSet(B) /\ Cardinality(B) = Cardinality(A)
  <2>1. f \in [A -> B] /\ \A y \in B : \E x \in A : f[x] = y
    OBVIOUS
  <2>2. f \in Bijection(A, B)
    <3> HIDE DEF f, A, B
    <3>1. QED
      BY <2>1, <1>4 DEF Bijection, Injection, Surjection, IsInjective
  <2>3. QED
    BY <1>2, <2>2, FS_Bijection DEF ExistsBijection
<1>6. SUBSET (1 .. n + 1) = A \union B
  <2>1. ASSUME NEW x \in SUBSET (1 .. n + 1) PROVE x \in A \union B
    <3>1. CASE n + 1 \in x
      <4>1. x \ {n + 1} \in A /\ x = (x \ {n + 1}) \union {n + 1}
        BY <3>1
      <4>2. x = f[x \ {n + 1}]
        BY <4>1
      <4>3. QED
        BY <4>1, <4>2
    <3>2. CASE n + 1 \notin x
      <4>1. x \in A
        BY <3>2
      <4>2. QED
        BY <4>1
    <3>3. QED
      BY <3>1, <3>2
  <2>2. ASSUME NEW x \in A PROVE x \in SUBSET (1 .. n + 1) /\ f[x] \in SUBSET (1 .. n + 1)
    OBVIOUS
  <2>3. A \subseteq SUBSET (1 .. n + 1)
    BY <2>2
  <2>4. B \subseteq SUBSET (1 .. n + 1)
    <3>1. ASSUME NEW y \in B PROVE \E x \in A : y = f[x]
      OBVIOUS
    <3> HIDE DEF f, A, B
    <3>2. QED
      BY <3>1, <2>2
  <2>5. QED
    <3> HIDE DEF A, B
    <3>1. SUBSET (1 .. n + 1) \subseteq A \union B
      BY <2>1
    <3>2. QED
      BY <3>1, <2>3, <2>4
<1>7. A \intersect B = {}
  <2> SUFFICES ASSUME NEW x \in A, NEW y \in A, x = f[y] PROVE FALSE
    OBVIOUS
  <2>1. n + 1 \in x
    OBVIOUS
  <2>2. QED
    BY <2>1, <1>3
<1> HIDE DEF A, B, f
<1>8. Cardinality(A \union B) = Cardinality(A) + Cardinality(B)
  <2>1. Cardinality(A \intersect B) = 0
    BY <1>7, FS_EmptySet
  <2>2. Cardinality(A) \in Nat
    BY <1>2, FS_CardinalityType
  <2>3. Cardinality(A \union B) = Cardinality(A) + Cardinality(B) - Cardinality(A \intersect B)
    BY <1>2, <1>5, FS_Union
  <2>4. QED
    BY <1>5, <2>1, <2>2, <2>3
<1>9. QED
  <2>1. Cardinality(A) \in Nat
    BY <1>2, FS_CardinalityType
  <2>2. Cardinality(A \union B) = 2^(n + 1)
    BY <1>2, <1>6
  <2>3. QED
    BY <1>2, <1>5, <1>8, <2>1, <2>2

\* They are naturals other than 0,
LEMMA PowPositive == \A n \in Nat : 2^n \in Nat \ {0}
<1> DEFINE S == {n \in Nat : 2^n \in Nat \ {0}}
<1>1. 0 \in S
  OBVIOUS
<1>2. ASSUME NEW n \in Nat, n \in S PROVE n + 1 \in S
  <2>1. 2^(n + 1) = 2 * 2^n /\ 2^n \in Nat \ {0}
    BY <1>2, PowSucc
  <2>2. QED
    BY <2>1
<1>3. Nat \subseteq S
  <2> HIDE DEF S
  <2>1. QED
    BY <1>1, <1>2, SetInduction
<1>4. QED
  BY <1>3

\* exponents add,
LEMMA PowAdd == \A m, n \in Nat : 2^(m + n) = 2^m * 2^n
<1> SUFFICES ASSUME NEW m \in Nat PROVE \A n \in Nat : 2^(m + n) = 2^m * 2^n
  OBVIOUS
<1> DEFINE S == {n \in Nat : 2^(m + n) = 2^m * 2^n}
<1>1. 0 \in S
  <2>1. 2^m \in Nat /\ m + 0 = m /\ 2^0 = 1
    BY PowPositive
  <2>2. QED
    BY <2>1
<1>2. ASSUME NEW n \in Nat, n \in S PROVE n + 1 \in S
  <2>1. 2^(m + n + 1) = 2 * 2^(m + n) /\ 2^(n + 1) = 2 * 2^n /\ 2^n \in Nat /\ 2^m \in Nat
    BY PowSucc
  <2>2. 2^(m + n) = 2^m * 2^n
    BY <1>2
  <2>3. m + (n + 1) = m + n + 1
    OBVIOUS
  <2>4. 2^(m + (n + 1)) = 2^m * 2^(n + 1)
    BY <2>1, <2>2, <2>3
  <2>5. QED
    BY <2>4
<1>3. Nat \subseteq S
  <2> HIDE DEF S
  <2>1. QED
    BY <1>1, <1>2, SetInduction
<1>4. QED
  BY <1>3

\* halving goes an exponent down,
LEMMA PowDown ==
  ASSUME NEW n \in Nat \ {0}
  PROVE  2^n = 2 * 2^(n - 1) /\ 2^(n - 1) \in Nat \ {0} /\ 2^n \in Nat \ {0}
<1>1. n - 1 \in Nat /\ n - 1 + 1 = n
  OBVIOUS
<1>2. 2^(n - 1 + 1) = 2 * 2^(n - 1)
  BY <1>1, PowSucc
<1>3. QED
  BY <1>1, <1>2, PowPositive

\* an exponent can be split in two,
LEMMA PowSplit ==
  ASSUME NEW n \in Nat, NEW k \in 0 .. n
  PROVE  2^n = 2^k * 2^(n - k) /\ 2^k \in Nat \ {0} /\ 2^(n - k) \in Nat \ {0}
<1>1. n - k \in Nat /\ k \in Nat /\ k + (n - k) = n
  OBVIOUS
<1>2. QED
  BY <1>1, PowAdd, PowPositive

\* a greater exponent doubles at least,
LEMMA PowLess ==
  ASSUME NEW m \in Nat, NEW n \in Nat, m < n
  PROVE  2 * 2^m <= 2^n
<1>1. n - m \in Nat \ {0} /\ m \in 0 .. n
  OBVIOUS
<1>2. 2^n = 2^m * 2^(n - m) /\ 2^m \in Nat \ {0}
  BY <1>1, PowSplit
<1>3. 2^(n - m) = 2 * 2^(n - m - 1) /\ 2^(n - m - 1) \in Nat \ {0}
  BY <1>1, PowDown
<1>4. PICK x \in Nat \ {0}, y \in Nat \ {0} : x = 2^m /\ y = 2^(n - m - 1)
  BY <1>2, <1>3
<1>5. 2^n = x * (2 * y)
  BY <1>2, <1>3, <1>4
<1>6. x * (2 * y) >= 2 * x
  OBVIOUS
<1>7. QED
  BY <1>4, <1>5, <1>6

\* and an exponent that is not smaller gives no smaller power.
LEMMA PowMonotone ==
  ASSUME NEW m \in Nat, NEW n \in Nat, m <= n
  PROVE  2^m <= 2^n
<1>1. 2^m \in Nat /\ 2^n \in Nat
  BY PowPositive
<1>2. CASE m < n
  BY <1>1, <1>2, PowLess
<1>3. QED
  BY <1>1, <1>2

\* A number is below the power of two it is the exponent of.
LEMMA Exponential == \A n \in Nat : n < 2^n
<1> DEFINE S == {n \in Nat : n < 2^n}
<1>1. 0 \in S
  <2>1. 2^0 = 1
    OBVIOUS
  <2>2. QED
    BY <2>1
<1>2. ASSUME NEW n \in Nat, n \in S PROVE n + 1 \in S
  <2>1. 2^(n + 1) = 2 * 2^n /\ 2^n \in Nat /\ n < 2^n
    BY <1>2, PowSucc
  <2>2. QED
    BY <2>1
<1>3. Nat \subseteq S
  <2> HIDE DEF S
  <2>1. QED
    BY <1>1, <1>2, SetInduction
<1>4. QED
  BY <1>3

-----------------------------------------------------------------------------
(* Quotient and remainder.                                                  *)

\* Quotient and remainder of an integer, which the solver knows for constant
\* divisors and finds for others only when told to look.
LEMMA Division ==
  ASSUME NEW x \in Int, NEW m \in Nat \ {0}
  PROVE  /\ x \div m \in Int /\ x % m \in 0 .. m - 1
         /\ x = (x \div m) * m + (x % m)
         /\ x >= 0 => x \div m \in Nat
OBVIOUS

\* There is one quotient and one remainder.
LEMMA DivisionUnique ==
  ASSUME NEW x \in Int, NEW m \in Nat \ {0}, NEW q \in Int, NEW r \in 0 .. m - 1, x = q * m + r
  PROVE  x \div m = q /\ x % m = r
OBVIOUS

\* A number is its remainder and a multiple.
LEMMA Modulus ==
  ASSUME NEW x \in Int, NEW m \in Nat \ {0}
  PROVE  \E k \in Int : \E r \in 0 .. m - 1 : x = k * m + r /\ r = x % m
<1>1. x \div m \in Int /\ x % m \in 0 .. m - 1 /\ x = (x \div m) * m + (x % m)
  BY Division
<1>2. QED
  BY <1>1

\* x and y are k multiples of m apart
Multiples(x, y, k, m) == x \in Int /\ y \in Int /\ k \in Int /\ m \in Nat \ {0} /\ x = y + k * m

\* Numbers that are a multiple apart have the same remainder.
LEMMA Congruent ==
  ASSUME NEW x, NEW y, NEW k, NEW m, Multiples(x, y, k, m)
  PROVE  x % m = y % m
<1> USE DEF Multiples
<1>1. PICK q \in Int, r \in 0 .. m - 1 : q = y \div m /\ r = y % m
  BY Division
<1>2. y = q * m + r
  BY <1>1, Division
<1>3. x = (q + k) * m + r /\ q + k \in Int
  BY <1>2
<1>4. x % m = r
  BY <1>3, DivisionUnique
<1>5. QED
  BY <1>1, <1>4

\* q and r are quotient and remainder of x by m
Quotients(x, m, q, r) ==
  /\ x \in Int /\ m \in Nat \ {0} /\ q \in Int /\ r \in 0 .. m - 1
  /\ x = q * m + r

\* The same uniqueness for one packed hypothesis, which keeps large products
\* out of the solver's sight.
LEMMA QuotientsUnique ==
  ASSUME NEW x, NEW m, NEW q, NEW r, Quotients(x, m, q, r)
  PROVE  x \div m = q /\ x % m = r
BY DivisionUnique DEF Quotients

\* Division of a number by a greater one.
LEMMA Smaller ==
  ASSUME NEW n \in Nat, NEW d \in Nat, n < d
  PROVE  n \div d = 0 /\ n % d = n
OBVIOUS

\* Three factors in the orders the proofs below meet.
LEMMA Factors ==
  \A x, y, z \in Int : (x * y) * z = (x * z) * y /\ x * (y * z) = (x * y) * z
OBVIOUS

-----------------------------------------------------------------------------
(* Loops as recursive functions.                                            *)

\* step takes a state outside stop to one with a smaller measure
Measured(S, K, m, stop, step) ==
  /\ K \in Nat
  /\ m \in [S -> 0 .. K]
  /\ step \in [S -> S]
  /\ \A s \in S \ stop : m[step[s]] < m[s]

\* f satisfies the equation of a loop: the value at a state that stops, else that of
\* the next state
Solves(f, S, V, stop, step, val) ==
  /\ f \in [S -> V]
  /\ \A s \in S : f[s] = IF s \in stop THEN val[s] ELSE f[step[s]]

\* A loop whose measure falls has a function that satisfies its equation: by induction
\* on the measure up to which a function does.  A recursive function of TLA+ is some
\* function with its equation, which says nothing unless there is one.
LEMMA MeasuredRecursion ==
  ASSUME NEW S, NEW V, NEW K, NEW m, NEW stop, NEW step, Measured(S, K, m, stop, step),
         NEW val \in [S -> V]
  PROVE  \E f : Solves(f, S, V, stop, step, val)
<1> DEFINE Upto(f, k) == \A s \in S : m[s] <= k => f[s] = IF s \in stop THEN val[s] ELSE f[step[s]]
           E == {k \in Nat : \E f \in [S -> V] : Upto(f, k)}
<1>0. /\ K \in Nat
      /\ \A s \in S : m[s] \in Nat /\ m[s] <= K /\ step[s] \in S
      /\ \A s \in S \ stop : m[step[s]] < m[s]
  BY DEF Measured
<1>1. 0 \in E
  <2>1. \A s \in S : m[s] <= 0 => s \in stop
    BY <1>0
  <2>2. Upto(val, 0)
    BY <2>1
  <2>3. QED
    BY <2>2
<1>2. ASSUME NEW k \in Nat, k \in E PROVE k + 1 \in E
  <2>1. PICK f \in [S -> V] : Upto(f, k)
    BY <1>2
  <2> DEFINE g == [s \in S |-> IF m[s] <= k THEN f[s]
                               ELSE IF s \in stop THEN val[s] ELSE f[step[s]]]
  <2>2. g \in [S -> V]
    <3>1. \A s \in S : f[s] \in V /\ val[s] \in V /\ f[step[s]] \in V
      BY <1>0
    <3>2. QED
      BY <3>1
  <2>3. ASSUME NEW s \in S, m[s] <= k + 1 PROVE g[s] = IF s \in stop THEN val[s] ELSE g[step[s]]
    <3>1. CASE s \in stop
      BY <2>1, <3>1
    <3>2. CASE s \notin stop
      <4>1. m[step[s]] <= k /\ step[s] \in S
        BY <1>0, <2>3, <3>2
      <4>2. g[step[s]] = f[step[s]]
        BY <4>1
      <4>3. g[s] = f[step[s]]
        BY <2>1, <3>2
      <4>4. QED
        BY <3>2, <4>2, <4>3
    <3>3. QED
      BY <3>1, <3>2
  <2>4. QED
    <3> HIDE DEF g
    <3>1. Upto(g, k + 1)
      BY <2>3
    <3>2. QED
      BY <2>2, <3>1
<1>3. K \in E
  <2> HIDE DEF E
  <2>1. QED
    BY <1>0, <1>1, <1>2, SetInduction
<1>4. PICK f \in [S -> V] : Upto(f, K)
  BY <1>3
<1>5. \A s \in S : f[s] = IF s \in stop THEN val[s] ELSE f[step[s]]
  BY <1>0, <1>4
<1>6. QED
  BY <1>5 DEF Solves

-----------------------------------------------------------------------------
(* Sign bits and leading zeros.                                             *)

\* The sign bit of a wrapped difference is its sign as long as it lies in the signed
\* range of the width.
LEMMA SignBit ==
  ASSUME NEW w \in Nat \ {0}, NEW x \in Int, -2^(w - 1) <= x, x < 2^(w - 1)
  PROVE  Negative(w, x) <=> x < 0
<1>1. PICK M \in Nat \ {0} : M = 2^(w - 1) /\ 2^w = 2 * M
  BY PowDown
<1>2. -M <= x /\ x < M
  BY <1>1
<1>3. x >= 0 => x % (2 * M) = x
  BY <1>2
<1>4. x < 0 => x % (2 * M) = x + 2 * M
  BY <1>2
<1>5. Negative(w, x) <=> x % (2 * M) >= M
  BY <1>1 DEF Negative, Wrap
<1>6. QED
  BY <1>2, <1>3, <1>4, <1>5

\* Shifting a word up leaves room for a bit, and the bit shifted out is one.
LEMMA ShiftIn ==
  ASSUME NEW w \in Nat \ {0}, NEW x \in Words(w)
  PROVE  /\ Shl(w, x, 1) \in Words(w) /\ Shl(w, x, 1) + 1 \in Words(w)
         /\ Shr(x, w - 1) \in {0, 1}
<1>1. PICK M \in Nat \ {0} : M = 2^(w - 1) /\ 2^w = 2 * M
  BY PowDown
<1>2. x \in 0 .. 2 * M - 1
  BY <1>1 DEF Words
<1>3. Shl(w, x, 1) = (x * 2) % (2 * M)
  <2>1. 2^1 = 2
    OBVIOUS
  <2>2. QED
    BY <2>1, <1>1 DEF Shl, Wrap
<1>4. Shl(w, x, 1) = IF x < M THEN 2 * x ELSE 2 * x - 2 * M
  BY <1>2, <1>3
<1>5. x \div M \in {0, 1}
  <2>1. x < M => x = 0 * M + x /\ x \in 0 .. M - 1
    BY <1>2
  <2>2. x >= M => x = 1 * M + (x - M) /\ x - M \in 0 .. M - 1
    BY <1>2
  <2>3. x < M => x \div M = 0
    BY <1>2, <2>1
  <2>4. x >= M => x \div M = 1
    BY <1>2, <2>2
  <2>5. QED
    BY <1>2, <2>3, <2>4
<1>6. QED
  BY <1>1, <1>2, <1>4, <1>5 DEF Words, Shr

\* A number other than 0 lies between two neighbouring powers of two.
LEMMA Binary ==
  ASSUME NEW w \in Nat, NEW x \in Words(w) \ {0}
  PROVE  \E n \in 0 .. w - 1 : 2^(w - 1 - n) <= x /\ x < 2^(w - n)
<1> DEFINE S == {k \in Nat : \A y \in Words(k) \ {0} :
                               \E j \in 0 .. k - 1 : 2^j <= y /\ y < 2^(j + 1)}
<1>1. 0 \in S
  <2>1. 2^0 = 1
    OBVIOUS
  <2>2. QED
    BY <2>1 DEF Words
<1>2. ASSUME NEW k \in Nat, k \in S PROVE k + 1 \in S
  <2>1. ASSUME NEW y \in Words(k + 1) \ {0}
        PROVE  \E j \in 0 .. k : 2^j <= y /\ y < 2^(j + 1)
    <3>1. 2^k \in Nat /\ 2^(k + 1) \in Nat /\ y \in Nat /\ y < 2^(k + 1)
      BY PowPositive DEF Words
    <3>2. CASE y < 2^k
      <4>1. y \in Words(k) \ {0}
        BY <3>1, <3>2 DEF Words
      <4>2. QED
        BY <4>1, <1>2
    <3>3. CASE y >= 2^k
      BY <3>1, <3>3
    <3>4. QED
      BY <3>1, <3>2, <3>3
  <2>2. k + 1 - 1 = k
    OBVIOUS
  <2>3. QED
    BY <2>1, <2>2
<1>3. w \in S
  <2> HIDE DEF S
  <2>1. QED
    BY <1>1, <1>2, SetInduction
<1>4. PICK j \in 0 .. w - 1 : 2^j <= x /\ x < 2^(j + 1)
  BY <1>3
<1>5. w - 1 - j \in 0 .. w - 1 /\ w - 1 - (w - 1 - j) = j /\ w - (w - 1 - j) = j + 1
  OBVIOUS
<1>6. QED
  BY <1>4, <1>5

\* __builtin_clz tells between which,
LEMMA ClzBounds ==
  ASSUME NEW w \in Nat, NEW x \in Words(w) \ {0}
  PROVE  Clz(w, x) \in 0 .. w - 1 /\ 2^(w - 1 - Clz(w, x)) <= x /\ x < 2^(w - Clz(w, x))
BY Binary DEF Clz

\* and nothing else does.
LEMMA ClzUnique ==
  ASSUME NEW w \in Nat, NEW x \in Words(w) \ {0}, NEW n \in 0 .. w - 1, 2^(w - 1 - n) <= x,
         x < 2^(w - n)
  PROVE  Clz(w, x) = n
<1>1. PICK m \in 0 .. w - 1 : m = Clz(w, x) /\ 2^(w - 1 - m) <= x /\ x < 2^(w - m)
  BY ClzBounds
<1>2. x \in Nat
  BY PowPositive DEF Words
<1>3. ASSUME NEW i \in 0 .. w - 1, NEW j \in 0 .. w - 1, x < 2^(w - i), 2^(w - 1 - j) <= x
      PROVE ~(j < i)
  <2> SUFFICES ASSUME j < i PROVE FALSE
    OBVIOUS
  <2>1. w - i \in Nat /\ w - 1 - j \in Nat /\ w - i <= w - 1 - j
    BY <1>3
  <2>2. 2^(w - i) <= 2^(w - 1 - j) /\ 2^(w - i) \in Nat /\ 2^(w - 1 - j) \in Nat
    BY <2>1, PowMonotone, PowPositive
  <2>3. QED
    BY <1>2, <1>3, <2>2
<1>4. ~(m < n) /\ ~(n < m)
  BY <1>1, <1>3
<1>5. QED
  BY <1>1, <1>4

\* __builtin_ctz of a power of two is its exponent.
LEMMA CtzOfPower ==
  ASSUME NEW w \in Nat, NEW k \in 0 .. w - 1
  PROVE  Ctz(w, 2^k) = k
<1> DEFINE P(n) == 2^k % 2^n = 0 /\ 2^k % 2^(n + 1) # 0
<1>1. PICK x \in Nat \ {0} : x = 2^k
  BY PowPositive
<1>2. P(k)
  <2>1. 2^(k + 1) = 2 * x
    BY <1>1, PowSucc
  <2>2. x % x = 0 /\ x % (2 * x) = x
    BY DivisionUnique
  <2>3. QED
    BY <1>1, <2>1, <2>2
<1>3. ASSUME NEW n \in 0 .. w - 1, P(n) PROVE n = k
  <2>1. ~(n < k)
    <3> SUFFICES ASSUME n < k PROVE FALSE
      OBVIOUS
    <3>1. n + 1 \in 0 .. k
      OBVIOUS
    <3>2. /\ 2^k = 2^(n + 1) * 2^(k - (n + 1)) /\ 2^(n + 1) \in Nat \ {0}
          /\ 2^(k - (n + 1)) \in Nat \ {0}
      BY <3>1, PowSplit
    <3>3. PICK y \in Nat \ {0}, z \in Nat \ {0} :
           y = 2^(n + 1) /\ z = 2^(k - (n + 1)) /\ x = z * y + 0
      BY <1>1, <3>2
    <3>4. x % y = 0
      BY <3>3, DivisionUnique
    <3>5. QED
      BY <1>1, <1>3, <3>3, <3>4
  <2>2. ~(k < n)
    <3> SUFFICES ASSUME k < n PROVE FALSE
      OBVIOUS
    <3>1. 2 * 2^k <= 2^n
      BY PowLess
    <3>2. PICK y \in Nat \ {0} : y = 2^n /\ 2 * x <= y
      BY <1>1, <3>1, PowPositive
    <3>3. x % y = x
      BY <3>2
    <3>4. QED
      BY <1>1, <1>3, <3>2, <3>3
  <2>3. QED
    BY <2>1, <2>2
<1>4. Ctz(w, 2^k) = CHOOSE n \in 0 .. w - 1 : P(n)
  BY DEF Ctz
<1> HIDE DEF P
<1>5. QED
  BY <1>2, <1>3, <1>4

\* A number with more leading zeros is smaller.
LEMMA Shorter ==
  ASSUME NEW w \in Nat, NEW n \in Words(w) \ {0}, NEW d \in Words(w) \ {0}, Clz(w, d) < Clz(w, n)
  PROVE  n < d
<1>1. PICK x \in 0 .. w - 1, y \in 0 .. w - 1 : x = Clz(w, n) /\ y = Clz(w, d)
  BY ClzBounds
<1>2. n < 2^(w - x) /\ 2^(w - 1 - y) <= d
  BY <1>1, ClzBounds
<1>3. 2^(w - x) <= 2^(w - 1 - y)
  <2>1. w - x \in Nat /\ w - 1 - y \in Nat /\ w - x <= w - 1 - y
    BY <1>1
  <2>2. QED
    BY <2>1, PowMonotone
<1>4. n \in Nat /\ d \in Nat /\ 2^(w - x) \in Nat /\ 2^(w - 1 - y) \in Nat
  <2>1. w - x \in Nat /\ w - 1 - y \in Nat
    BY <1>1
  <2>2. QED
    BY <2>1, PowPositive DEF Words
<1>5. QED
  BY <1>2, <1>3, <1>4

\* A divisor above the half of its range has its top bit set, and a dividend with its
\* top bit set is at least that half.
LEMMA TopBit ==
  ASSUME NEW w \in Nat \ {0}, NEW n \in Words(w) \ {0}, NEW d \in Words(w) \ {0}
  PROVE  /\ d > 2^(w - 1) => Clz(w, d) = 0
         /\ Clz(w, n) = 0 => n >= 2^(w - 1)
<1>1. PICK x \in 0 .. w - 1, y \in 0 .. w - 1 : x = Clz(w, n) /\ y = Clz(w, d)
  BY ClzBounds
<1>2. 2^(w - 1 - x) <= n /\ d < 2^(w - y)
  BY <1>1, ClzBounds
<1>3. ASSUME d > 2^(w - 1) PROVE y = 0
  <2> SUFFICES ASSUME y # 0 PROVE FALSE
    OBVIOUS
  <2>1. w - y \in Nat /\ w - 1 \in Nat /\ w - y <= w - 1
    BY <1>1
  <2>2. 2^(w - y) <= 2^(w - 1) /\ 2^(w - y) \in Nat /\ 2^(w - 1) \in Nat
    BY <2>1, PowMonotone, PowPositive
  <2>3. d \in Nat
    BY DEF Words
  <2>4. QED
    BY <1>2, <1>3, <2>2, <2>3
<1>4. ASSUME x = 0 PROVE n >= 2^(w - 1)
  <2>1. w - 1 - 0 = w - 1 /\ w - 1 \in Nat
    OBVIOUS
  <2>2. 2^(w - 1) <= n /\ 2^(w - 1) \in Nat /\ n \in Nat
    BY <1>2, <1>4, <2>1, PowPositive DEF Words
  <2>3. QED
    BY <2>2
<1>5. QED
  BY <1>1, <1>3, <1>4

-----------------------------------------------------------------------------
(* The loop of __udivsi3 and of __udivmoddi4.                               *)

\* registers of a division of w bits
DivStates(w) == [q : Words(w), r : Words(w), carry : 0 .. 1, sr : 0 .. w]

\* The loop of the division, which counts sr down, satisfies its equation.
LEMMA DivLoopUnfolds ==
  ASSUME NEW w \in Nat \ {0}, NEW d,
         \A s \in DivStates(w) :
           s.sr # 0 => DivStep(w, d, s) \in DivStates(w) /\ DivStep(w, d, s).sr < s.sr
  PROVE  \A s \in DivStates(w) :
           DivLoop(w, d, s) = IF s.sr = 0 THEN s ELSE DivLoop(w, d, DivStep(w, d, s))
<1> DEFINE S == DivStates(w)
           loop[s \in S] == IF s.sr = 0 THEN s ELSE loop[DivStep(w, d, s)]
<1>1. \A start : DivLoop(w, d, start) = loop[start]
  BY DEF DivLoop, DivStates
<1> DEFINE stop == {s \in S : s.sr = 0}
           m == [s \in S |-> s.sr]
           step == [s \in S |-> IF s.sr = 0 THEN s ELSE DivStep(w, d, s)]
           val == [s \in S |-> s]
<1>2. /\ m \in [S -> 0 .. w] /\ val \in [S -> S] /\ step \in [S -> S]
      /\ \A s \in S \ stop : m[step[s]] < m[s]
  <2>1. \A s \in S : s.sr \in 0 .. w
    BY DEF DivStates
  <2> HIDE DEF S
  <2>2. \A s \in S : step[s] \in S
    BY DEF S
  <2>3. \A s \in S \ stop : m[step[s]] < m[s]
    BY <2>2 DEF S
  <2>4. QED
    BY <2>1, <2>2, <2>3
<1>3. PICK f : Solves(f, S, S, stop, step, val)
  <2> HIDE DEF S, stop, m, step, val
  <2>1. Measured(S, w, m, stop, step)
    BY <1>2 DEF Measured
  <2>2. QED
    BY <1>2, <2>1, MeasuredRecursion
<1>4. f \in [S -> S] /\ \A s \in S : f[s] = IF s.sr = 0 THEN s ELSE f[DivStep(w, d, s)]
  BY <1>3 DEF Solves
<1>5. f = [s \in S |-> IF s.sr = 0 THEN s ELSE f[DivStep(w, d, s)]]
  <2> HIDE DEF S
  <2>1. QED
    BY <1>4
<1> DEFINE P(g) == g = [s \in S |-> IF s.sr = 0 THEN s ELSE g[DivStep(w, d, s)]]
<1>6. P(loop)
  <2>1. loop = CHOOSE g : P(g)
    OBVIOUS
  <2>2. P(f)
    BY <1>5
  <2>3. QED
    <3> HIDE DEF P, loop
    <3>1. QED
      BY <2>1, <2>2, Zenon
<1>7. \A s \in S : loop[s] = IF s.sr = 0 THEN s ELSE loop[DivStep(w, d, s)]
  <2> HIDE DEF loop, S
  <2>1. QED
    BY <1>6
<1>8. QED
  <2> HIDE DEF loop
  <2>1. QED
    BY <1>1, <1>7

\* The invariant of the division's loop.  What LoopInvariant says, and where the
\* comparison by the sign of a difference could go wrong: a divisor above half the
\* range is met with at most one iteration to go, and with a dividend above the half.
DivInv(w, n, d, s) ==
  /\ s \in DivStates(w)
  /\ s.r < d
  /\ n = ((2 * (s.q % 2^(w - s.sr)) + s.carry) * d + s.r) * 2^s.sr + (s.q \div 2^(w - s.sr))
  /\ d > 2^(w - 1) => s.sr = 0 \/ (s.sr = 1 /\ n >= 2^(w - 1))

\* The pair of registers shifted: q is a top bit e, the rest h of the dividend and the
\* quotient l so far, whose places the bits change.
LEMMA ShiftedOut ==
  ASSUME NEW P \in Nat \ {0}, NEW D \in Nat \ {0}, NEW q \in 0 .. 2 * (P * D) - 1
  PROVE  \E e \in {0, 1}, h \in 0 .. P - 1, l \in 0 .. D - 1 :
           /\ q = (e * P + h) * D + l
           /\ q \div D = e * P + h /\ q % D = l
           /\ q \div (P * D) = e
           /\ (2 * q) % (2 * (P * D)) = h * (2 * D) + 2 * l
<1> q \in Int /\ q >= 0
  <2>1. P * D \in Nat
    OBVIOUS
  <2>2. QED
    BY <2>1
<1>1. PICK H \in Nat, l \in 0 .. D - 1 : H = q \div D /\ l = q % D
  BY Division
<1>2. H \in Nat /\ l \in 0 .. D - 1 /\ q = H * D + l
  BY <1>1, Division
<1>3. H < 2 * P
  <2> SUFFICES ASSUME H >= 2 * P PROVE FALSE
    BY <1>2
  <2>1. H * D >= (2 * P) * D
    BY <1>2
  <2>2. QED
    BY <1>2, <2>1
<1>4. PICK e \in {0, 1}, h \in 0 .. P - 1 : H = e * P + h
  <2>1. CASE H < P
    BY <1>2, <2>1
  <2>2. CASE H >= P
    <3>1. H - P \in 0 .. P - 1 /\ H = 1 * P + (H - P)
      BY <1>2, <1>3, <2>2
    <3>2. QED
      BY <3>1
  <2>3. QED
    BY <1>2, <2>1, <2>2
<1>5. h * D + l \in 0 .. P * D - 1
  <2>1. h * D <= (P - 1) * D
    BY <1>4
  <2>2. (P - 1) * D = P * D - D
    OBVIOUS
  <2>3. h * D \in Nat
    BY <1>4
  <2>4. QED
    BY <1>2, <2>1, <2>2, <2>3
<1>6. q = e * (P * D) + (h * D + l)
  BY <1>2, <1>4
<1>7. q \div (P * D) = e
  <2>1. P * D \in Nat \ {0} /\ e \in Int
    BY <1>4
  <2>2. QED
    BY <1>5, <1>6, <2>1, DivisionUnique
<1>8. (2 * q) % (2 * (P * D)) = h * (2 * D) + 2 * l
  <2>1. 2 * q = e * (2 * (P * D)) + 2 * (h * D + l)
    BY <1>2, <1>4, <1>6
  <2>2. 2 * (h * D + l) \in 0 .. 2 * (P * D) - 1
    BY <1>5
  <2>3. 2 * (P * D) \in Nat \ {0} /\ e \in Int /\ 2 * q \in Int
    BY <1>4
  <2>4. (2 * q) % (2 * (P * D)) = 2 * (h * D + l)
    <3>1. PICK M \in Nat \ {0}, x \in Int, r \in Int :
           M = 2 * (P * D) /\ x = 2 * q /\ r = 2 * (h * D + l)
      BY <2>2, <2>3
    <3>2. x = e * M + r /\ r \in 0 .. M - 1
      BY <2>1, <2>2, <3>1
    <3>3. x % M = r
      BY <2>3, <3>2, DivisionUnique
    <3>4. QED
      BY <3>1, <3>3
  <2>5. 2 * (h * D + l) = h * (2 * D) + 2 * l
    BY <1>2, <1>4
  <2>6. QED
    BY <2>4, <2>5
<1>9. QED
  BY <1>1, <1>2, <1>4, <1>7, <1>8

\* what an iteration shifts where: the top bit e of q and the rest h of what is
\* left of the dividend, and the quotient Q so far
Shifted(P, D, n, d, q, r, c, e, h, Q) ==
  /\ q \div (P * D) = e
  /\ Q = 2 * (q % D) + c
  /\ ((2 * q) % (2 * (P * D))) + c = h * (2 * D) + Q
  /\ r < D
  /\ n = (Q * (2 * d) + (2 * r + e)) * P + h
  /\ -(P * D) <= d - (2 * r + e) - 1 /\ d - (2 * r + e) - 1 < P * D

\* between two iterations, 2 * P and D the weights of what is left and of what is done
Between(P, D, n, d, q, r, c) ==
  /\ P \in Nat \ {0} /\ D \in Nat \ {0}
  /\ q \in 0 .. 2 * (P * D) - 1 /\ n \in 0 .. 2 * (P * D) - 1 /\ d \in 0 .. 2 * (P * D) - 1
  /\ r \in Nat /\ r < d /\ c \in {0, 1}
  /\ n = ((2 * (q % D) + c) * d + r) * (2 * P) + (q \div D)
  /\ d > P * D => P = 1 /\ n >= P * D

\* An iteration shifts the next bit of the dividend into the remainder, and the
\* difference whose sign it looks at does not overflow.
LEMMA DivStepNumbers ==
  ASSUME NEW P, NEW D, NEW n, NEW d, NEW q, NEW r, NEW c, Between(P, D, n, d, q, r, c)
  PROVE  \E e \in {0, 1}, h \in 0 .. P - 1, Q \in 0 .. 2 * D - 1 :
           Shifted(P, D, n, d, q, r, c, e, h, Q)
<1> USE DEF Between
<1>1. PICK e \in {0, 1}, h \in 0 .. P - 1, l \in 0 .. D - 1 :
           /\ q = (e * P + h) * D + l
           /\ q \div D = e * P + h /\ q % D = l
           /\ q \div (P * D) = e
           /\ (2 * q) % (2 * (P * D)) = h * (2 * D) + 2 * l
  BY ShiftedOut
<1>2. PICK Q \in 0 .. 2 * D - 1 : Q = 2 * l + c
  OBVIOUS
<1>3. d \in Nat /\ n \in Nat /\ n < 2 * (P * D) /\ P * D \in Nat
  OBVIOUS
<1>4. n = (Q * d + r) * (2 * P) + (e * P + h)
  BY <1>1, <1>2
<1>5. (Q * d + r) * (2 * P) + (e * P + h) = (Q * (2 * d) + (2 * r + e)) * P + h
  BY <1>3
<1>6. n = (Q * (2 * d) + (2 * r + e)) * P + h
  BY <1>4, <1>5
<1>7. r < D
  <2> SUFFICES ASSUME r >= D PROVE FALSE
    BY <1>3
  <2>1. Q * d \in Nat
    BY <1>3
  <2>2. Q * d + r >= D
    BY <2>1
  <2>3. (Q * d + r) * (2 * P) >= D * (2 * P)
    BY <2>1, <2>2
  <2>4. e * P + h >= 0
    BY <1>1
  <2>5. D * (2 * P) = 2 * (P * D)
    OBVIOUS
  <2>6. QED
    BY <1>3, <1>4, <2>3, <2>4, <2>5
<1>8. -(P * D) <= d - (2 * r + e) - 1 /\ d - (2 * r + e) - 1 < P * D
  <2>1. CASE d <= P * D
    BY <1>3, <2>1
  <2>2. CASE d > P * D
    <3>1. P = 1 /\ n >= P * D /\ h = 0
      BY <2>2
    <3>2. n = Q * (2 * d) + (2 * r + e)
      BY <1>3, <1>6, <3>1
    <3>3. Q = 0
      <4> SUFFICES ASSUME Q >= 1 PROVE FALSE
        OBVIOUS
      <4>1. Q * (2 * d) >= 2 * d
        BY <1>3
      <4>2. QED
        BY <1>3, <2>2, <3>2, <4>1
    <3>4. 2 * r + e = n
      BY <3>2, <3>3, <1>3
    <3>5. QED
      BY <1>3, <2>2, <3>1, <3>4
  <2>3. QED
    BY <1>3, <2>1, <2>2
<1>9. ((2 * q) % (2 * (P * D))) + c = h * (2 * D) + Q /\ Q = 2 * (q % D) + c
  <2>1. PICK x : x = h * (2 * D) /\ x \in Int
    BY <1>1
  <2>2. QED
    BY <1>1, <1>2, <2>1
<1>10. Shifted(P, D, n, d, q, r, c, e, h, Q)
  BY <1>1, <1>6, <1>7, <1>8, <1>9 DEF Shifted
<1>11. QED
  BY <1>10

\* An iteration keeps the invariant and counts down.
LEMMA DivStepInv ==
  ASSUME NEW w \in Nat \ {0}, NEW n \in Words(w), NEW d \in Words(w), NEW s, DivInv(w, n, d, s),
         s.sr # 0
  PROVE  DivInv(w, n, d, DivStep(w, d, s)) /\ DivStep(w, d, s).sr = s.sr - 1
<1>1. /\ s = [q |-> s.q, r |-> s.r, carry |-> s.carry, sr |-> s.sr]
      /\ s.q \in Words(w) /\ s.r \in Words(w) /\ s.carry \in {0, 1} /\ s.sr \in 1 .. w
  BY DEF DivInv, DivStates
<1>2. PICK q \in Words(w), r \in Words(w), c \in {0, 1}, k \in 1 .. w :
        q = s.q /\ r = s.r /\ c = s.carry /\ k = s.sr
  BY <1>1
<1>3. PICK P \in Nat \ {0}, D \in Nat \ {0} : P = 2^(k - 1) /\ D = 2^(w - k)
  BY PowPositive
<1>4. 2^k = 2 * P /\ 2^(w - 1) = P * D /\ 2^w = 2 * (P * D) /\ 2^(w - k + 1) = 2 * D /\ 2^1 = 2
  <2>1. w - 1 \in Nat /\ k - 1 \in 0 .. w - 1 /\ w - 1 - (k - 1) = w - k /\ w - k \in Nat
    OBVIOUS
  <2>2. 2^(w - 1) = 2^(k - 1) * 2^(w - 1 - (k - 1))
    BY <2>1, PowSplit
  <2>3. 2^(w - 1) = P * D
    BY <2>1, <2>2, <1>3
  <2>4. 2^k = 2 * 2^(k - 1) /\ 2^w = 2 * 2^(w - 1) /\ 2^1 = 2
    BY PowDown
  <2>5. 2^(w - k + 1) = 2 * 2^(w - k)
    BY <2>1, PowSucc
  <2>6. QED
    BY <2>3, <2>4, <2>5, <1>3
<1>5. /\ q \in 0 .. 2 * (P * D) - 1 /\ n \in 0 .. 2 * (P * D) - 1 /\ d \in 0 .. 2 * (P * D) - 1
      /\ r \in 0 .. 2 * (P * D) - 1
  BY <1>4 DEF Words
<1>6. r < d
  BY <1>2 DEF DivInv
<1>7. n = ((2 * (q % D) + c) * d + r) * (2 * P) + (q \div D)
  BY <1>2, <1>3, <1>4 DEF DivInv
<1>8. d > P * D => k = 1 /\ P = 1 /\ n >= P * D
  <2>1. d > 2^(w - 1) => k = 1 /\ n >= 2^(w - 1)
    BY <1>2 DEF DivInv
  <2>2. k = 1 => P = 1
    <3>1. 2^0 = 1 /\ 1 - 1 = 0
      OBVIOUS
    <3>2. QED
      BY <3>1, <1>3
  <2>3. QED
    BY <2>1, <2>2, <1>4
<1>9. r \in Nat
  BY <1>5
<1>10. PICK e \in {0, 1}, h \in 0 .. P - 1, Q \in 0 .. 2 * D - 1 :
           Shifted(P, D, n, d, q, r, c, e, h, Q)
  <2>1. d > P * D => P = 1 /\ n >= P * D
    BY <1>8
  <2>2. Between(P, D, n, d, q, r, c)
    BY <1>2, <1>3, <1>5, <1>6, <1>7, <1>9, <2>1 DEF Between
  <2>3. QED
    BY <2>2, DivStepNumbers
<1>. USE DEF Shifted
<1>11. Shl(w, q, 1) = (2 * q) % (2 * (P * D)) /\ Shl(w, r, 1) = 2 * r
  <2>1. Shl(w, q, 1) = (q * 2) % (2 * (P * D)) /\ Shl(w, r, 1) = (r * 2) % (2 * (P * D))
    BY <1>4 DEF Shl, Wrap
  <2>2. q * 2 = 2 * q /\ r * 2 = 2 * r
    BY <1>5
  <2>3. D <= P * D
    OBVIOUS
  <2>4. 2 * r < 2 * (P * D)
    BY <1>5, <1>10, <2>3
  <2>5. (2 * r) % (2 * (P * D)) = 2 * r
    BY <2>4, <1>5
  <2>6. QED
    BY <2>1, <2>2, <2>5
<1>12. Shr(q, w - 1) = e
  BY <1>4, <1>10 DEF Shr
<1> DEFINE R == 2 * r + e
           fits == Negative(w, d - R - 1)
<1>13. R \in Nat /\ R < 2 * d /\ R < 2 * (P * D)
  <2>1. D <= P * D
    OBVIOUS
  <2>2. QED
    BY <1>5, <1>6, <1>10, <2>1
<1>14. fits <=> d <= R
  <2>1. d - R - 1 \in Int
    BY <1>13, <1>5
  <2>2. -2^(w - 1) <= d - R - 1 /\ d - R - 1 < 2^(w - 1)
    BY <1>4, <1>10
  <2>3. fits <=> d - R - 1 < 0
    BY <2>1, <2>2, SignBit
  <2>4. QED
    BY <2>3, <1>13, <1>5
<1>15. DivStep(w, d, s) =
         [q |-> h * (2 * D) + Q, r |-> IF d <= R THEN R - d ELSE R,
          carry |-> IF d <= R THEN 1 ELSE 0, sr |-> k - 1]
  <2>1. d <= R => Wrap(w, R - d) = R - d
    <3>1. d <= R => (R - d) % (2 * (P * D)) = R - d
      BY <1>13, <1>5
    <3>2. QED
      BY <3>1, <1>4 DEF Wrap
  <2>2. Shl(w, s.r, 1) + Shr(s.q, w - 1) = R
    BY <1>2, <1>11, <1>12
  <2>3. Shl(w, s.q, 1) + s.carry = h * (2 * D) + Q
    BY <1>2, <1>11, <1>10
  <2> HIDE DEF R
  <2>4. DivStep(w, d, s) =
         [q |-> h * (2 * D) + Q, r |-> IF fits THEN Wrap(w, R - d) ELSE R,
          carry |-> IF fits THEN 1 ELSE 0, sr |-> k - 1]
    BY <2>2, <2>3, <1>2 DEF DivStep
  <2>5. QED
    BY <2>1, <2>4, <1>14
<1>16. h * (2 * D) + Q \in 0 .. 2 * (P * D) - 1
  <2>1. h * (2 * D) <= (P - 1) * (2 * D)
    BY <1>10
  <2>2. (P - 1) * (2 * D) = 2 * (P * D) - 2 * D
    OBVIOUS
  <2>3. h * (2 * D) \in Nat
    BY <1>10
  <2>4. QED
    BY <1>10, <2>1, <2>2, <2>3
<1>17. (h * (2 * D) + Q) \div (2 * D) = h /\ (h * (2 * D) + Q) % (2 * D) = Q
  <2>1. 2 * D \in Nat \ {0} /\ h \in Int /\ h * (2 * D) + Q \in Int
    BY <1>16
  <2>2. QED
    BY <2>1, DivisionUnique
<1> DEFINE t == DivStep(w, d, s)
<1>18. t.sr = k - 1 /\ 2^(w - t.sr) = 2 * D /\ 2^t.sr = P
  <2>1. t.sr = k - 1
    BY <1>15
  <2>2. w - (k - 1) = w - k + 1
    OBVIOUS
  <2>3. QED
    BY <2>1, <2>2, <1>3, <1>4
<1>19. /\ t.q = h * (2 * D) + Q
       /\ t.r = IF d <= R THEN R - d ELSE R
       /\ t.carry = IF d <= R THEN 1 ELSE 0
  BY <1>15
<1>20. t \in DivStates(w)
  <2>1. t.q \in Words(w) /\ t.r \in Words(w) /\ t.carry \in 0 .. 1 /\ t.sr \in 0 .. w
    <3>1. Words(w) = 0 .. 2 * (P * D) - 1
      BY <1>4 DEF Words
    <3>2. t.r \in 0 .. 2 * (P * D) - 1
      BY <1>13, <1>19, <1>5
    <3>3. QED
      BY <3>1, <3>2, <1>16, <1>18, <1>19
  <2>2. t = [q |-> t.q, r |-> t.r, carry |-> t.carry, sr |-> t.sr]
    BY <1>15
  <2> HIDE DEF t
  <2>3. QED
    BY <2>1, <2>2 DEF DivStates
<1>21. t.r < d
  BY <1>13, <1>19, <1>5
<1>22. n = ((2 * Q + t.carry) * d + t.r) * P + h
  <2>1. Q * (2 * d) + R = (2 * Q + t.carry) * d + t.r
    <3>1. CASE d <= R
      <4>1. t.carry = 1 /\ t.r = R - d
        BY <3>1, <1>19
      <4>2. (2 * Q + 1) * d + (R - d) = Q * (2 * d) + R
        BY <1>13, <1>5
      <4>3. QED
        BY <4>1, <4>2
    <3>2. CASE ~(d <= R)
      <4>1. t.carry = 0 /\ t.r = R
        BY <3>2, <1>19
      <4>2. (2 * Q + 0) * d + R = Q * (2 * d) + R
        BY <1>13, <1>5
      <4>3. QED
        BY <4>1, <4>2
    <3>3. QED
      BY <3>1, <3>2
  <2>2. QED
    BY <2>1, <1>10
<1>23. d > 2^(w - 1) => t.sr = 0
  BY <1>4, <1>8, <1>18
<1>24. QED
  <2>1. n = ((2 * (t.q % 2^(w - t.sr)) + t.carry) * d + t.r) * 2^t.sr + (t.q \div 2^(w - t.sr))
    BY <1>17, <1>18, <1>19, <1>22
  <2>2. t.sr = s.sr - 1
    BY <1>18, <1>2
  <2> HIDE DEF t
  <2>3. DivInv(w, n, d, t)
    BY <2>1, <1>20, <1>21, <1>23 DEF DivInv
  <2>4. QED
    BY <2>2, <2>3 DEF t

\* Whatever the registers hold, an iteration leaves words in them.
LEMMA DivStepTypes ==
  ASSUME NEW w \in Nat \ {0}, NEW d \in Words(w), NEW s \in DivStates(w), s.sr # 0
  PROVE  DivStep(w, d, s) \in DivStates(w) /\ DivStep(w, d, s).sr = s.sr - 1
<1>1. s.q \in Words(w) /\ s.r \in Words(w) /\ s.carry \in {0, 1} /\ s.sr \in 1 .. w
  BY DEF DivStates
<1>2. Shl(w, s.q, 1) + s.carry \in Words(w)
  <2>1. Shl(w, s.q, 1) \in Words(w) /\ Shl(w, s.q, 1) + 1 \in Words(w)
    BY <1>1, ShiftIn
  <2>2. Shl(w, s.q, 1) + 0 = Shl(w, s.q, 1)
    BY <2>1, PowPositive DEF Words
  <2>3. QED
    BY <1>1, <2>1, <2>2
<1>3. PICK R \in Words(w) : R = Shl(w, s.r, 1) + Shr(s.q, w - 1)
  <2>1. Shl(w, s.r, 1) \in Words(w) /\ Shl(w, s.r, 1) + 1 \in Words(w) /\ Shr(s.q, w - 1) \in {0, 1}
    BY <1>1, ShiftIn
  <2>2. Shl(w, s.r, 1) + 0 = Shl(w, s.r, 1)
    BY <2>1, PowPositive DEF Words
  <2>3. QED
    BY <2>1, <2>2
<1>4. Wrap(w, R - d) \in Words(w)
  <2>1. PICK M \in Nat \ {0} : M = 2^w
    BY PowPositive
  <2>2. R - d \in Int
    BY <1>3, <2>1 DEF Words
  <2>3. (R - d) % M \in 0 .. M - 1
    BY <2>2, Division
  <2>4. QED
    BY <2>1, <2>3 DEF Wrap, Words
<1> DEFINE fits == Negative(w, d - R - 1)
<1>5. DivStep(w, d, s) = [q |-> Shl(w, s.q, 1) + s.carry, r |-> IF fits THEN Wrap(w, R - d) ELSE R,
                          carry |-> IF fits THEN 1 ELSE 0, sr |-> s.sr - 1]
  BY <1>3 DEF DivStep
<1> HIDE DEF fits
<1>6. /\ (IF fits THEN Wrap(w, R - d) ELSE R) \in Words(w)
      /\ (IF fits THEN 1 ELSE 0) \in 0 .. 1
      /\ s.sr - 1 \in 0 .. w
  BY <1>1, <1>3, <1>4
<1>7. QED
  BY <1>2, <1>5, <1>6 DEF DivStates

\* When the count is 0, the registers hold quotient and remainder.
LEMMA DivEnd ==
  ASSUME NEW w \in Nat \ {0}, NEW n \in Words(w), NEW d \in Words(w), NEW s, DivInv(w, n, d, s),
         s.sr = 0
  PROVE  /\ DivQuotient(w, s) = n \div d /\ s.r = n % d
         /\ d # 0 /\ n \div d \in Words(w) /\ n % d \in Words(w)
<1>1. s.q \in Words(w) /\ s.r \in Words(w) /\ s.carry \in {0, 1} /\ s.r < d
  BY DEF DivInv, DivStates
<1>2. PICK M \in Nat \ {0} : M = 2^w
  BY PowPositive
<1>3. PICK q \in 0 .. M - 1, r \in 0 .. M - 1, c \in {0, 1} : q = s.q /\ r = s.r /\ c = s.carry
  BY <1>1, <1>2 DEF Words
<1>4. q % M = q /\ q \div M = 0
  BY <1>2, <1>3
<1>5. n = (2 * q + c) * d + r
  <2>1. w - 0 = w /\ 2^0 = 1
    OBVIOUS
  <2>2. n = ((2 * (q % M) + c) * d + r) * 1 + (q \div M)
    BY <1>2, <1>3, <2>1 DEF DivInv
  <2>3. (2 * q + c) * d + r \in Int
    BY <1>2, <1>3 DEF Words
  <2>4. QED
    BY <2>2, <2>3, <1>4
<1>6. d \in Nat \ {0} /\ r \in 0 .. d - 1 /\ n \in 0 .. M - 1 /\ d \in 0 .. M - 1
  BY <1>1, <1>2, <1>3 DEF Words
<1>7. PICK Q \in Nat : Q = 2 * q + c
  BY <1>3
<1>8. n \div d = Q /\ n % d = r
  <2>1. n = Q * d + r /\ n \in Int /\ Q \in Int
    BY <1>5, <1>6, <1>7
  <2>2. QED
    BY <1>6, <2>1, DivisionUnique
<1>9. Q < M
  <2>1. Q * d >= Q
    BY <1>6, <1>7
  <2>2. QED
    BY <2>1, <1>5, <1>6, <1>7
<1>10. DivQuotient(w, s) = Q
  <2>1. Shl(w, q, 1) = (q * 2) % M
    <3>1. 2^1 = 2
      OBVIOUS
    <3>2. QED
      BY <3>1, <1>2 DEF Shl, Wrap
  <2>2. (q * 2) % M = q * 2
    BY <1>3, <1>7, <1>9
  <2>3. (q * 2 + c) % M = Q
    BY <1>3, <1>7, <1>9
  <2>4. QED
    BY <2>1, <2>2, <2>3, <1>2, <1>3 DEF DivQuotient, Wrap
<1>11. Q \in Words(w) /\ r \in Words(w)
  BY <1>2, <1>3, <1>7, <1>9 DEF Words
<1>12. QED
  BY <1>3, <1>6, <1>8, <1>10, <1>11

\* The loop as a function ends there as well.
LEMMA DivLoopResult ==
  ASSUME NEW w \in Nat \ {0}, NEW n \in Words(w), NEW d \in Words(w), NEW start,
         DivInv(w, n, d, start)
  PROVE  DivInv(w, n, d, DivLoop(w, d, start)) /\ DivLoop(w, d, start).sr = 0
<1> DEFINE Good(k) == \A s : DivInv(w, n, d, s) /\ s.sr = k =>
                          DivInv(w, n, d, DivLoop(w, d, s)) /\ DivLoop(w, d, s).sr = 0
           S == {k \in Nat : Good(k)}
<1>1. \A s \in DivStates(w) :
        DivLoop(w, d, s) = IF s.sr = 0 THEN s ELSE DivLoop(w, d, DivStep(w, d, s))
  <2>1. ASSUME NEW s \in DivStates(w), s.sr # 0
        PROVE  DivStep(w, d, s) \in DivStates(w) /\ DivStep(w, d, s).sr < s.sr
    <3>1. s.sr \in 0 .. w
      BY DEF DivStates
    <3>2. QED
      BY <2>1, <3>1, DivStepTypes
  <2>2. QED
    BY <2>1, DivLoopUnfolds
<1>2. \A s : DivInv(w, n, d, s) => s \in DivStates(w) /\ s.sr \in Nat
  BY DEF DivInv, DivStates
<1>3. 0 \in S
  BY <1>1, <1>2
<1>4. ASSUME NEW k \in Nat, k \in S PROVE k + 1 \in S
  <2>1. ASSUME NEW s, DivInv(w, n, d, s), s.sr = k + 1
        PROVE  DivInv(w, n, d, DivLoop(w, d, s)) /\ DivLoop(w, d, s).sr = 0
    <3>1. DivInv(w, n, d, DivStep(w, d, s)) /\ DivStep(w, d, s).sr = k
      BY <2>1, DivStepInv
    <3>2. DivLoop(w, d, s) = DivLoop(w, d, DivStep(w, d, s))
      BY <1>1, <1>2, <2>1
    <3>3. QED
      BY <3>1, <3>2, <1>4
  <2>2. QED
    BY <2>1
<1>5. Nat \subseteq S
  <2> HIDE DEF S
  <2>1. QED
    BY <1>3, <1>4, SetInduction
<1>6. QED
  BY <1>2, <1>5

\* Registers that start with the highest bits of n in r and the others on top of q
\* satisfy the invariant if these highest bits are below the divisor.
LEMMA DivStart ==
  ASSUME NEW w \in Nat \ {0}, NEW n \in Words(w), NEW d \in Words(w), NEW k \in 1 .. w,
         n < d * 2^k, d > 2^(w - 1) => k = 1 /\ n >= 2^(w - 1)
  PROVE  /\ DivInv(w, n, d, [q |-> (n % 2^k) * 2^(w - k), r |-> n \div 2^k, carry |-> 0, sr |-> k])
         /\ Shl(w, n, w - k) = (n % 2^k) * 2^(w - k)
<1>1. PICK P \in Nat \ {0}, D \in Nat \ {0} : P = 2^k /\ D = 2^(w - k) /\ 2^w = P * D
  <2>1. k \in 0 .. w
    OBVIOUS
  <2>2. QED
    BY <2>1, PowSplit
<1>2. n \in 0 .. P * D - 1 /\ d \in 0 .. P * D - 1
  BY <1>1 DEF Words
<1>3. PICK h \in Nat, l \in 0 .. P - 1 : h = n \div P /\ l = n % P /\ n = h * P + l
  <2>1. n \in Int /\ n >= 0
    BY <1>2
  <2>2. n \div P \in Nat /\ n % P \in 0 .. P - 1 /\ n = (n \div P) * P + (n % P)
    BY <1>1, <2>1, Division
  <2>3. QED
    BY <2>2
<1>4. h < d
  <2> SUFFICES ASSUME h >= d PROVE FALSE
    BY <1>2, <1>3
  <2>1. h * P >= d * P
    BY <1>2, <1>3
  <2>2. n < d * P
    BY <1>1
  <2>3. QED
    BY <2>1, <2>2, <1>2, <1>3
<1>5. l * D \in 0 .. P * D - 1
  <2>1. l * D <= (P - 1) * D
    BY <1>3
  <2>2. (P - 1) * D = P * D - D
    OBVIOUS
  <2>3. l * D \in Nat
    BY <1>3
  <2>4. QED
    BY <2>1, <2>2, <2>3
<1>6. (l * D) \div D = l /\ (l * D) % D = 0
  <2>1. l * D = l * D + 0 /\ 0 \in 0 .. D - 1 /\ l * D \in Int /\ l \in Int
    BY <1>5
  <2>2. QED
    BY <2>1, DivisionUnique
<1> DEFINE s == [q |-> l * D, r |-> h, carry |-> 0, sr |-> k]
<1>7. s \in DivStates(w)
  <2>1. l * D \in Words(w) /\ h \in Words(w)
    BY <1>1, <1>2, <1>3, <1>4, <1>5 DEF Words
  <2>2. QED
    BY <2>1 DEF DivStates
<1>8. n = ((2 * ((l * D) % D) + 0) * d + h) * P + ((l * D) \div D)
  <2>1. (2 * 0 + 0) * d + h = h
    BY <1>2, <1>3
  <2>2. QED
    BY <2>1, <1>3, <1>6
<1>9. DivInv(w, n, d, s)
  BY <1>1, <1>4, <1>7, <1>8 DEF DivInv
<1>10. Shl(w, n, w - k) = l * D
  <2>1. n * D = h * (P * D) + l * D
    <3>1. (h * P + l) * D = h * (P * D) + l * D
      BY <1>1, <1>3
    <3>2. QED
      BY <1>3, <3>1
  <2>2. PICK M \in Nat \ {0}, x \in Int, y \in Int :
         M = P * D /\ x = n * D /\ y = l * D /\ y \in 0 .. M - 1
    BY <1>2, <1>5
  <2>3. x = h * M + y /\ h \in Int
    BY <2>1, <2>2
  <2>4. x % M = y
    BY <2>2, <2>3, DivisionUnique
  <2>5. QED
    BY <1>1, <2>2, <2>4 DEF Shl, Wrap
<1>11. QED
  BY <1>1, <1>3, <1>9, <1>10

\* Shifting the divisor until its highest bit is one place above the dividend's
\* makes it greater than the dividend.
LEMMA Aligned ==
  ASSUME NEW w \in Nat, NEW n \in Words(w) \ {0}, NEW d \in Words(w) \ {0},
         NEW k \in Nat, k = Clz(w, d) - Clz(w, n) + 1
  PROVE  n < d * 2^k
<1>1. PICK x \in 0 .. w - 1, y \in 0 .. w - 1 : x = Clz(w, n) /\ y = Clz(w, d)
  BY ClzBounds
<1>2. n < 2^(w - x) /\ 2^(w - 1 - y) <= d
  BY <1>1, ClzBounds
<1>3. w - 1 - y \in Nat /\ k \in Nat /\ w - 1 - y + k = w - x
  BY <1>1
<1>4. 2^(w - x) = 2^(w - 1 - y) * 2^k
  BY <1>3, PowAdd
<1>5. PICK A \in Nat, B \in Nat : A = 2^(w - 1 - y) /\ B = 2^k
  BY <1>3, PowPositive
<1>6. d \in Nat /\ n \in Nat
  BY DEF Words
<1>7. A * B <= d * B
  BY <1>2, <1>5, <1>6
<1>8. n < A * B
  BY <1>2, <1>4, <1>5
<1>9. A * B \in Nat /\ d * B \in Nat
  BY <1>5, <1>6
<1>10. n < d * B
  BY <1>6, <1>7, <1>8, <1>9
<1>11. QED
  BY <1>5, <1>10

\* Where a division starts that shifts by the difference of leading zeros.
LEMMA DivEntry ==
  ASSUME NEW w \in Nat \ {0}, NEW n \in Words(w) \ {0}, NEW d \in Words(w) \ {0}, NEW k \in 1 .. w,
         k = Clz(w, d) - Clz(w, n) + 1
  PROVE  DivInv(w, n, d, [q |-> (n % 2^k) * 2^(w - k), r |-> n \div 2^k, carry |-> 0, sr |-> k])
<1>1. n < d * 2^k
  BY Aligned
<1>2. d > 2^(w - 1) => k = 1 /\ n >= 2^(w - 1)
  <2>1. PICK x \in 0 .. w - 1, y \in 0 .. w - 1 : x = Clz(w, n) /\ y = Clz(w, d)
    BY ClzBounds
  <2>2. d > 2^(w - 1) => y = 0
    BY <2>1, TopBit
  <2>3. y = 0 => x = 0 /\ k = 1
    BY <2>1
  <2>4. x = 0 => n >= 2^(w - 1)
    BY <2>1, TopBit
  <2>5. QED
    BY <2>2, <2>3, <2>4
<1>3. QED
  BY <1>1, <1>2, DivStart

-----------------------------------------------------------------------------
(* __udivsi3.                                                               *)

\* What __udivsi3 does before its loop: it returns the quotient, or enters the loop with
\* registers that satisfy the invariant.  The tests for a difference of leading zeros
\* above the width are those of a negative one, in unsigned arithmetic.
LEMMA UDivSiEntryCases ==
  ASSUME NEW n \in Words(W), NEW d \in Words(W)
  PROVE  LET entry == UDivSiEntry(n, d) IN
         \/ entry = [result |-> IF d = 0 THEN 0 ELSE n \div d]
         \/ /\ d # 0 /\ DivInv(W, n, d, entry)
            /\ entry = [q |-> entry.q, r |-> entry.r, carry |-> 0, sr |-> entry.sr]
<1> W \in Nat \ {0}
  BY WordBits
<1> DEFINE sr == Clz(W, d) - Clz(W, n)
<1>1. CASE d = 0 \/ n = 0
  <2>1. n = 0 /\ d # 0 => n \div d = 0
    BY PowPositive DEF Words
  <2>2. UDivSiEntry(n, d) = [result |-> 0]
    BY <1>1 DEF UDivSiEntry
  <2>3. QED
    BY <1>1, <2>1, <2>2
<1>2. CASE d # 0 /\ n # 0
  <2>1. PICK x \in 0 .. W - 1, y \in 0 .. W - 1 : x = Clz(W, n) /\ y = Clz(W, d)
    BY <1>2, ClzBounds
  <2>2. sr \in Int /\ sr <= W - 1 /\ sr = y - x
    BY <2>1
  <2>3. n \in Nat /\ d \in Nat \ {0}
    BY <1>2, PowPositive DEF Words
  <2>4. CASE sr < 0
    <3>1. n < d
      BY <1>2, <2>1, <2>4, Shorter
    <3>2. n \div d = 0
      BY <2>3, <3>1
    <3>3. UDivSiEntry(n, d) = [result |-> 0]
      BY <1>2, <2>4 DEF UDivSiEntry
    <3>4. QED
      BY <1>2, <3>2, <3>3
  <2>5. CASE sr = W - 1
    <3>1. y = W - 1
      BY <2>1, <2>2, <2>5
    <3>2. d < 2^(W - y)
      BY <1>2, <2>1, ClzBounds
    <3>3. W - y = 1 /\ 2^1 = 2
      BY <3>1
    <3>4. d = 1
      BY <2>3, <3>2, <3>3
    <3>5. n \div d = n
      BY <2>3, <3>4
    <3>6. UDivSiEntry(n, d) = [result |-> n]
      BY <1>2, <2>2, <2>5 DEF UDivSiEntry
    <3>7. QED
      BY <1>2, <3>5, <3>6
  <2>6. CASE sr \in 0 .. W - 2
    <3>1. PICK k \in 1 .. W : k = sr + 1 /\ W - sr - 1 = W - k
      BY <2>6
    <3>2. n < d * 2^k
      BY <1>2, <3>1, Aligned
    <3>3. d > 2^(W - 1) => k = 1 /\ n >= 2^(W - 1)
      <4>1. d > 2^(W - 1) => y = 0
        BY <1>2, <2>1, TopBit
      <4>2. d > 2^(W - 1) => x = 0 /\ k = 1
        BY <4>1, <2>1, <2>2, <2>6, <3>1
      <4>3. QED
        BY <1>2, <2>1, <4>2, TopBit
    <3>4. /\ DivInv(W, n, d, [q |-> (n % 2^k) * 2^(W - k), r |-> n \div 2^k, carry |-> 0, sr |-> k])
          /\ Shl(W, n, W - k) = (n % 2^k) * 2^(W - k)
      BY <3>2, <3>3, DivStart
    <3>5. UDivSiEntry(n, d) = [q |-> Shl(W, n, W - k), r |-> n \div 2^k, carry |-> 0, sr |-> k]
      BY <1>2, <2>2, <2>6, <3>1 DEF UDivSiEntry, Shr
    <3>6. QED
      BY <1>2, <3>4, <3>5
  <2>7. QED
    BY <2>2, <2>4, <2>5, <2>6
<1>3. QED
  BY <1>1, <1>2

\* __udivsi3 divides, and returns 0 for a zero divisor.
THEOREM UDivSiValue ==
  ASSUME NEW n \in Words(W), NEW d \in Words(W)
  PROVE  UDivSi(n, d) = IF d = 0 THEN 0 ELSE n \div d
<1> W \in Nat \ {0}
  BY WordBits
<1>1. PICK entry : entry = UDivSiEntry(n, d)
  OBVIOUS
<1>2. UDivSi(n, d) = IF "result" \in DOMAIN entry THEN entry.result
                     ELSE DivQuotient(W, DivLoop(W, d, entry))
  BY <1>1 DEF UDivSi
<1>3. CASE entry = [result |-> IF d = 0 THEN 0 ELSE n \div d]
  BY <1>2, <1>3
<1>4. CASE /\ d # 0 /\ DivInv(W, n, d, entry)
           /\ entry = [q |-> entry.q, r |-> entry.r, carry |-> 0, sr |-> entry.sr]
  <2>1. "result" \notin DOMAIN entry
    BY <1>4
  <2>2. DivInv(W, n, d, DivLoop(W, d, entry)) /\ DivLoop(W, d, entry).sr = 0
    BY <1>4, DivLoopResult
  <2>3. DivQuotient(W, DivLoop(W, d, entry)) = n \div d
    BY <2>2, DivEnd
  <2>4. QED
    BY <1>2, <1>4, <2>1, <2>3
<1>5. QED
  BY <1>1, <1>3, <1>4, UDivSiEntryCases

-----------------------------------------------------------------------------
(* __umodsi3.                                                               *)

\* registers of __umodsi3
ModStates == [num : Words(W), den : Words(W), quot : Words(W), qbit : Words(W)]

\* Both loops of __umodsi3 leave words in them; the second shifts qbit down, and the
\* first shifts no bit of the divisor out.
LEMMA ModStepTypes ==
  ASSUME NEW s \in ModStates
  PROVE  /\ ModStep(s) \in ModStates /\ JustifyStep(s) \in ModStates
         /\ s.qbit # 0 => ModStep(s).qbit < s.qbit
         /\ ~Negative(W, s.den) => JustifyStep(s).den = 2 * s.den /\ 2 * s.den < 2^W
<1> W \in Nat \ {0}
  BY WordBits
<1>1. PICK M \in Nat \ {0}, H \in Nat \ {0} : M = 2^W /\ H = 2^(W - 1) /\ M = 2 * H
  BY PowDown
<1>2. Words(W) = 0 .. M - 1
  BY <1>1 DEF Words
<1>3. PICK num \in 0 .. M - 1, den \in 0 .. M - 1, quot \in 0 .. M - 1, qbit \in 0 .. M - 1 :
        num = s.num /\ den = s.den /\ quot = s.quot /\ qbit = s.qbit
  BY <1>2 DEF ModStates
<1>4. 2^1 = 2
  OBVIOUS
<1>5. Shr(den, 1) \in 0 .. M - 1 /\ Shr(qbit, 1) \in 0 .. M - 1 /\ (qbit # 0 => Shr(qbit, 1) < qbit)
  BY <1>3, <1>4 DEF Shr
<1>6. Wrap(W, quot + qbit) \in 0 .. M - 1
  <2>1. quot + qbit \in Int
    BY <1>3
  <2>2. QED
    BY <1>1, <2>1, Division DEF Wrap
<1>7. Shl(W, den, 1) \in 0 .. M - 1 /\ Shl(W, qbit, 1) \in 0 .. M - 1
  BY <1>2, <1>3, ShiftIn
<1>8. ~Negative(W, den) => Shl(W, den, 1) = 2 * den /\ 2 * den < M
  <2>1. den % M = den
    BY <1>3
  <2>2. ~Negative(W, den) => den < H
    BY <1>1, <1>3, <2>1 DEF Negative, Wrap
  <2>3. den < H => (den * 2) % M = 2 * den /\ 2 * den < M
    BY <1>1, <1>3
  <2>4. QED
    BY <1>1, <1>4, <2>2, <2>3 DEF Shl, Wrap
<1>9. ModStep(s) \in ModStates
  <2>1. (IF den <= num THEN num - den ELSE num) \in Words(W)
    BY <1>2, <1>3
  <2>2. (IF den <= num THEN Wrap(W, quot + qbit) ELSE quot) \in Words(W)
    BY <1>2, <1>3, <1>6
  <2>3. QED
    BY <1>2, <1>3, <1>5, <2>1, <2>2 DEF ModStep, ModStates
<1>10. JustifyStep(s).den = Shl(W, den, 1)
  BY <1>3 DEF JustifyStep, ModStates
<1>11. JustifyStep(s) \in ModStates
  <2>1. PICK u \in Words(W), v \in Words(W) : u = Shl(W, den, 1) /\ v = Shl(W, qbit, 1)
    BY <1>2, <1>7
  <2>2. JustifyStep(s) = [[s EXCEPT !.den = u] EXCEPT !.qbit = v]
    BY <1>3, <2>1 DEF JustifyStep, ModStates
  <2>3. [s EXCEPT !.den = u] \in ModStates
    BY DEF ModStates
  <2>4. [[s EXCEPT !.den = u] EXCEPT !.qbit = v] \in ModStates
    BY <2>3 DEF ModStates
  <2>5. QED
    BY <2>2, <2>4
<1>12. ModStep(s).qbit = Shr(qbit, 1)
  BY <1>3 DEF ModStep
<1>13. QED
  BY <1>1, <1>3, <1>5, <1>8, <1>9, <1>10, <1>11, <1>12

\* What is left of the dividend is num, and den is d times a power of two, the one
\* in qbit, until the last iteration, after which nobody looks at it.
ModInv(n, d, s) ==
  /\ s \in ModStates
  /\ n = s.quot * d + s.num
  /\ IF s.qbit = 0 THEN s.num < d
     ELSE s.den = d * s.qbit /\ \E j \in Nat : s.qbit = 2^j

\* in the loop that subtracts
ModLoopInv(n, d, s) == ModInv(n, d, s) /\ (s.qbit # 0 => s.num < 2 * s.den)

\* in the loop that shifts the divisor up
JustifyInv(n, d, s) == ModInv(n, d, s) /\ s.qbit # 0

\* The registers start right,
LEMMA ModStartInv ==
  ASSUME NEW n \in Words(W), NEW d \in Words(W) \ {0}
  PROVE  JustifyInv(n, d, ModStart(n, d))
<1> W \in Nat \ {0}
  BY WordBits
<1>1. PICK H \in Nat \ {0} : 2^W = 2 * H
  BY PowDown
<1>2. n \in Nat /\ d \in Nat \ {0}
  BY <1>1 DEF Words
<1>3. 0 \in Words(W) /\ 1 \in Words(W)
  BY <1>1 DEF Words
<1>4. n = 0 * d + n /\ d = d * 1
  BY <1>2
<1>5. \E j \in Nat : 1 = 2^j
  <2>1. 2^0 = 1
    OBVIOUS
  <2>2. QED
    BY <2>1
<1>6. ModStart(n, d) = [num |-> n, den |-> d, quot |-> 0, qbit |-> 1]
  BY DEF ModStart
<1>7. QED
  BY <1>3, <1>4, <1>5, <1>6 DEF JustifyInv, ModInv, ModStates

\* stay right while the divisor is shifted up,
LEMMA JustifyStepInv ==
  ASSUME NEW n \in Words(W), NEW d \in Words(W) \ {0}, NEW s, JustifyInv(n, d, s),
         ~Negative(W, s.den)
  PROVE  JustifyInv(n, d, JustifyStep(s))
<1> W \in Nat \ {0}
  BY WordBits
<1>1. PICK M \in Nat \ {0} : M = 2^W
  BY PowPositive
<1>2. s \in ModStates
  BY DEF JustifyInv, ModInv
<1>3. PICK num \in 0 .. M - 1, den \in 0 .. M - 1, quot \in 0 .. M - 1, qbit \in 0 .. M - 1 :
        num = s.num /\ den = s.den /\ quot = s.quot /\ qbit = s.qbit
  BY <1>1, <1>2 DEF ModStates, Words
<1>4. d \in Nat \ {0}
  BY <1>1 DEF Words
<1>5. den = d * qbit /\ n = quot * d + num /\ qbit # 0
  BY <1>3 DEF JustifyInv, ModInv
<1>6. PICK j \in Nat : qbit = 2^j
  BY <1>3 DEF JustifyInv, ModInv
<1>7. JustifyStep(s) \in ModStates /\ JustifyStep(s).den = 2 * den /\ 2 * den < M
  BY <1>1, <1>2, <1>3, ModStepTypes
<1>8. Shl(W, qbit, 1) = 2 * qbit
  <2>1. qbit <= d * qbit
    BY <1>3, <1>4
  <2>2. 2 * qbit < M
    BY <1>3, <1>4, <1>5, <1>7, <2>1
  <2>3. 2^1 = 2 /\ (qbit * 2) % M = 2 * qbit
    BY <1>3, <2>2
  <2>4. QED
    BY <1>1, <2>3 DEF Shl, Wrap
<1>9. JustifyStep(s).num = num /\ JustifyStep(s).quot = quot /\ JustifyStep(s).qbit = 2 * qbit
  <2>1. s \in [num : Words(W), den : Words(W), quot : Words(W), qbit : Words(W)]
    BY <1>2 DEF ModStates
  <2>2. QED
    BY <2>1, <1>3, <1>8 DEF JustifyStep
<1>10. 2 * qbit # 0 /\ 2 * den = d * (2 * qbit)
  <2>1. d * (2 * qbit) = 2 * (d * qbit)
    BY <1>3, <1>4
  <2>2. QED
    BY <2>1, <1>3, <1>5
<1>11. \E i \in Nat : 2 * qbit = 2^i
  <2>1. 2^(j + 1) = 2 * 2^j /\ j + 1 \in Nat
    BY PowSucc
  <2>2. QED
    BY <2>1, <1>6
<1>12. QED
  BY <1>5, <1>7, <1>9, <1>10, <1>11 DEF JustifyInv, ModInv

\* and twice the divisor is above the dividend when its top bit is set.
LEMMA JustifiedInv ==
  ASSUME NEW n \in Words(W), NEW d \in Words(W) \ {0}, NEW s, JustifyInv(n, d, s),
         Negative(W, s.den)
  PROVE  ModLoopInv(n, d, s)
<1> W \in Nat \ {0}
  BY WordBits
<1>1. PICK M \in Nat \ {0}, H \in Nat \ {0} : M = 2^W /\ H = 2^(W - 1) /\ M = 2 * H
  BY PowDown
<1>2. s \in ModStates
  BY DEF JustifyInv, ModInv
<1>3. s.num \in 0 .. M - 1 /\ s.den \in 0 .. M - 1
  BY <1>1, <1>2 DEF ModStates, Words
<1>4. s.den % M = s.den
  BY <1>3
<1>5. s.den >= H
  BY <1>1, <1>4 DEF Negative, Wrap
<1>6. s.num < 2 * s.den
  BY <1>1, <1>3, <1>5
<1>7. QED
  BY <1>6 DEF JustifyInv, ModLoopInv

\* An iteration subtracts the divisor if it fits and halves it, exactly until qbit is 0.
LEMMA ModStepInv ==
  ASSUME NEW n \in Words(W), NEW d \in Words(W) \ {0}, NEW s, ModLoopInv(n, d, s), s.qbit # 0
  PROVE  ModLoopInv(n, d, ModStep(s))
<1> W \in Nat \ {0}
  BY WordBits
<1>1. PICK M \in Nat \ {0} : M = 2^W
  BY PowPositive
<1>2. s \in ModStates
  BY DEF ModLoopInv, ModInv
<1>3. PICK num \in 0 .. M - 1, den \in 0 .. M - 1, quot \in 0 .. M - 1, qbit \in 0 .. M - 1 :
        num = s.num /\ den = s.den /\ quot = s.quot /\ qbit = s.qbit
  BY <1>1, <1>2 DEF ModStates, Words
<1>4. d \in Nat \ {0} /\ n \in 0 .. M - 1
  BY <1>1 DEF Words
<1>5. den = d * qbit /\ n = quot * d + num /\ qbit # 0 /\ num < 2 * den
  BY <1>3 DEF ModLoopInv, ModInv
<1>6. PICK j \in Nat : qbit = 2^j
  BY <1>3 DEF ModLoopInv, ModInv
<1> DEFINE t == ModStep(s)
<1>7. t \in ModStates
  BY <1>2, ModStepTypes
<1>8. t.num = (IF den <= num THEN num - den ELSE num) /\ t.num < den
  <2>1. t.num = (IF den <= num THEN num - den ELSE num)
    BY <1>3 DEF ModStep
  <2>2. QED
    BY <2>1, <1>3, <1>5
<1>9. n = t.quot * d + t.num
  <2>1. CASE den <= num
    <3>1. (quot + qbit) * d = quot * d + d * qbit
      BY <1>3, <1>4
    <3>2. (quot + qbit) * d <= n /\ n = (quot + qbit) * d + (num - den)
      BY <1>3, <1>4, <1>5, <2>1, <3>1
    <3>3. PICK Q \in Nat : Q = quot + qbit
      BY <1>3
    <3>4. Q <= Q * d
      BY <1>4
    <3>5. Q < M
      BY <1>4, <3>2, <3>3, <3>4
    <3>6. Q % M = Q
      BY <3>5
    <3>7. t.quot = Q
      BY <1>1, <1>3, <2>1, <3>3, <3>6 DEF ModStep, Wrap
    <3>8. QED
      BY <1>8, <2>1, <3>2, <3>3, <3>7
  <2>2. CASE ~(den <= num)
    <3>1. t.quot = quot
      BY <1>3, <2>2 DEF ModStep
    <3>2. QED
      BY <1>5, <1>8, <2>2, <3>1
  <2>3. QED
    BY <2>1, <2>2
<1>10. t.den = den \div 2 /\ t.qbit = qbit \div 2
  <2>1. 2^1 = 2
    OBVIOUS
  <2>2. QED
    BY <1>3, <2>1 DEF ModStep, Shr
<1>11. CASE j = 0
  <2>1. qbit = 1
    <3>1. 2^0 = 1
      OBVIOUS
    <3>2. QED
      BY <1>6, <1>11, <3>1
  <2>2. t.qbit = 0 /\ den = d
    BY <1>4, <1>5, <1>10, <2>1
  <2>3. QED
    BY <1>7, <1>8, <1>9, <2>2 DEF ModLoopInv, ModInv
<1>12. CASE j # 0
  <2>1. PICK x \in Nat \ {0} : x = 2^(j - 1) /\ qbit = 2 * x
    BY <1>6, <1>12, PowDown
  <2>2. t.qbit = x
    BY <1>10, <2>1
  <2>3. den = 2 * (d * x)
    <3>1. d * (2 * x) = 2 * (d * x)
      BY <1>4
    <3>2. QED
      BY <3>1, <1>5, <2>1
  <2>4. t.den = d * x
    <3>1. PICK y \in Nat : y = d * x
      BY <1>4
    <3>2. (2 * y) \div 2 = y
      OBVIOUS
    <3>3. QED
      BY <3>1, <3>2, <1>10, <2>3
  <2>5. d * x \in Int /\ t.num < 2 * t.den
    BY <1>4, <1>8, <2>3, <2>4
  <2>6. \E i \in Nat : t.qbit = 2^i
    <3>1. j - 1 \in Nat
      BY <1>12
    <3>2. QED
      BY <3>1, <2>1, <2>2
  <2>7. t.den = d * t.qbit /\ t.qbit # 0
    BY <2>2, <2>4
  <2>8. QED
    BY <1>7, <1>9, <2>5, <2>6, <2>7 DEF ModLoopInv, ModInv
<1>13. QED
  BY <1>11, <1>12

\* When qbit is 0, num is the remainder.
LEMMA ModEnd ==
  ASSUME NEW n \in Words(W), NEW d \in Words(W) \ {0}, NEW s, ModLoopInv(n, d, s), s.qbit = 0
  PROVE  s.num = n % d
<1>1. PICK M \in Nat \ {0} : M = 2^W
  BY WordBits, PowPositive
<1>2. s \in ModStates
  BY DEF ModLoopInv, ModInv
<1>3. s.num \in 0 .. M - 1 /\ s.quot \in 0 .. M - 1
  BY <1>1, <1>2 DEF ModStates, Words
<1>4. d \in Nat \ {0} /\ n \in Int
  BY <1>1 DEF Words
<1>5. n = s.quot * d + s.num /\ s.num < d
  BY DEF ModLoopInv, ModInv
<1>6. PICK q \in Int, r \in 0 .. d - 1 : q = s.quot /\ r = s.num
  BY <1>3, <1>4, <1>5
<1>7. n % d = r
  BY <1>4, <1>5, <1>6, DivisionUnique
<1>8. QED
  BY <1>6, <1>7

\* Both loops as functions satisfy their equations.
LEMMA UModSiUnfolds ==
  \E loop, justify :
    /\ \A s \in ModStates : loop[s] = IF s.qbit = 0 THEN s.num ELSE loop[ModStep(s)]
    /\ \A s \in ModStates :
         justify[s] = IF Negative(W, s.den) THEN loop[s] ELSE justify[JustifyStep(s)]
    /\ \A num, den : UModSi(num, den) = IF den = 0 THEN 0 ELSE justify[ModStart(num, den)]
<1> W \in Nat \ {0}
  BY WordBits
<1> DEFINE S == ModStates
           loop[s \in S] == IF s.qbit = 0 THEN s.num ELSE loop[ModStep(s)]
           justify[s \in S] == IF Negative(W, s.den) THEN loop[s] ELSE justify[JustifyStep(s)]
<1>1. \A num, den : UModSi(num, den) = IF den = 0 THEN 0 ELSE justify[ModStart(num, den)]
  BY DEF UModSi, ModStates
<1> DEFINE stop == {s \in S : s.qbit = 0}
           m == [s \in S |-> s.qbit]
           step == [s \in S |-> ModStep(s)]
           val == [s \in S |-> s.num]
           P(g) == g = [s \in S |-> IF s.qbit = 0 THEN s.num ELSE g[ModStep(s)]]
<1>2. 2^W \in Nat
  BY PowPositive
<1>3. \A s \in S : s.qbit \in 0 .. 2^W /\ s.num \in Words(W) /\ s.den \in 0 .. 2^W - 1
  BY <1>2 DEF ModStates, Words
<1>4. \A s \in S : /\ ModStep(s) \in S /\ JustifyStep(s) \in S
                   /\ s.qbit # 0 => ModStep(s).qbit < s.qbit
                   /\ ~Negative(W, s.den) => JustifyStep(s).den = 2 * s.den /\ 2 * s.den < 2^W
  BY ModStepTypes
<1> HIDE DEF S
<1>5. PICK f : Solves(f, S, Words(W), stop, step, val)
  <2>1. \A s \in S : m[s] = s.qbit /\ step[s] = ModStep(s)
    OBVIOUS
  <2>2. m \in [S -> 0 .. 2^W] /\ step \in [S -> S] /\ val \in [S -> Words(W)]
    BY <1>3, <1>4
  <2>3. \A s \in S \ stop : m[step[s]] < m[s]
    BY <1>4, <2>1
  <2>4. Measured(S, 2^W, m, stop, step)
    BY <1>2, <2>2, <2>3 DEF Measured
  <2> HIDE DEF stop, m, step, val
  <2>5. QED
    BY <2>2, <2>4, MeasuredRecursion
<1>6. P(loop)
  <2>1. loop = CHOOSE g : P(g)
    OBVIOUS
  <2>2. P(f)
    <3>1. f \in [S -> Words(W)] /\ \A s \in S : f[s] = IF s.qbit = 0 THEN s.num ELSE f[ModStep(s)]
      BY <1>5 DEF Solves
    <3>2. QED
      BY <3>1
  <2>3. QED
    <3> HIDE DEF P, loop
    <3>1. QED
      BY <2>1, <2>2, Zenon
<1>7. \A s \in S : loop[s] = IF s.qbit = 0 THEN s.num ELSE loop[ModStep(s)]
  <2> HIDE DEF loop
  <2>1. QED
    BY <1>6
\* a zero divisor is never shifted up to the top bit, and not asked for
<1> DEFINE ends == {s \in S : Negative(W, s.den) \/ s.den = 0}
           left == [s \in S |-> 2^W - s.den]
           next == [s \in S |-> JustifyStep(s)]
           given == [s \in S |-> IF Negative(W, s.den) THEN loop[s] ELSE 0]
           values == {given[s] : s \in S}
           Q(g) == g = [s \in S |-> IF Negative(W, s.den) THEN loop[s] ELSE g[JustifyStep(s)]]
<1> HIDE DEF loop
<1>8. PICK g : Solves(g, S, values, ends, next, given)
  <2>1. \A s \in S : left[s] = 2^W - s.den /\ next[s] = JustifyStep(s)
    OBVIOUS
  <2>2. \A s \in S : 2^W - s.den \in 0 .. 2^W
    BY <1>2, <1>3
  <2>3. left \in [S -> 0 .. 2^W] /\ next \in [S -> S] /\ given \in [S -> values]
    BY <1>4, <2>2
  <2>4. ASSUME NEW s \in S \ ends PROVE left[next[s]] < left[s]
    <3>1. s \in S /\ ~Negative(W, s.den) /\ s.den # 0
      BY <2>4
    <3>2. JustifyStep(s) \in S /\ JustifyStep(s).den = 2 * s.den
      BY <3>1, <1>4
    <3>3. left[s] = 2^W - s.den /\ left[next[s]] = 2^W - 2 * s.den
      BY <2>1, <3>1, <3>2
    <3>4. s.den \in Nat \ {0}
      BY <1>2, <1>3, <3>1
    <3>5. QED
      BY <1>2, <3>3, <3>4
  <2>5. Measured(S, 2^W, left, ends, next)
    BY <1>2, <2>3, <2>4 DEF Measured
  <2> HIDE DEF ends, left, next, given, values
  <2>6. QED
    BY <2>3, <2>5, MeasuredRecursion
<1>9. g \in [S -> values] /\ \A s \in S : g[s] = IF s \in ends THEN given[s] ELSE g[next[s]]
  BY <1>8 DEF Solves
<1>10. ASSUME NEW s \in S PROVE g[s] = IF Negative(W, s.den) THEN loop[s] ELSE g[JustifyStep(s)]
  <2>1. CASE Negative(W, s.den)
    BY <1>9, <2>1
  <2>2. CASE ~Negative(W, s.den) /\ s.den # 0
    BY <1>9, <2>2
  <2>3. CASE ~Negative(W, s.den) /\ s.den = 0
    <3>1. PICK t \in S : t = JustifyStep(s) /\ t.den = 0
      BY <1>4, <2>3
    <3>2. g[s] = 0
      BY <1>9, <2>3
    <3>3. ~Negative(W, t.den)
      BY <2>3, <3>1
    <3>4. g[t] = 0
      BY <1>9, <3>1, <3>3
    <3>5. QED
      BY <2>3, <3>1, <3>2, <3>4
  <2>4. QED
    BY <2>1, <2>2, <2>3
<1>11. Q(justify)
  <2>1. justify = CHOOSE h : Q(h)
    OBVIOUS
  <2>2. Q(g)
    BY <1>9, <1>10
  <2>3. QED
    <3> HIDE DEF Q, justify
    <3>1. QED
      BY <2>1, <2>2, Zenon
<1>12. \A s \in S : justify[s] = IF Negative(W, s.den) THEN loop[s] ELSE justify[JustifyStep(s)]
  <2> HIDE DEF justify
  <2>1. QED
    BY <1>11
<1> HIDE DEF justify
<1>13. QED
  BY <1>1, <1>7, <1>12 DEF S

\* __umodsi3 gives the remainder, and 0 for a zero divisor.
THEOREM UModSiValue ==
  ASSUME NEW n \in Words(W), NEW d \in Words(W)
  PROVE  UModSi(n, d) = IF d = 0 THEN 0 ELSE n % d
<1> W \in Nat \ {0}
  BY WordBits
<1>1. PICK loop, justify :
    /\ \A s \in ModStates : loop[s] = IF s.qbit = 0 THEN s.num ELSE loop[ModStep(s)]
    /\ \A s \in ModStates :
         justify[s] = IF Negative(W, s.den) THEN loop[s] ELSE justify[JustifyStep(s)]
    /\ \A num, den : UModSi(num, den) = IF den = 0 THEN 0 ELSE justify[ModStart(num, den)]
  BY UModSiUnfolds
<1>2. CASE d = 0
  BY <1>1, <1>2
<1>3. CASE d # 0
  <2>1. d \in Words(W) \ {0}
    BY <1>3
  <2>2. PICK M \in Nat \ {0} : M = 2^W
    BY PowPositive
  <2>3. \A s \in ModStates : s.qbit \in 0 .. M - 1 /\ s.den \in 0 .. M - 1
    BY <2>2 DEF ModStates, Words
  <2> DEFINE L == {k \in Nat : \A s \in ModStates :
                              s.qbit <= k /\ ModLoopInv(n, d, s) => loop[s] = n % d}
             J == {k \in Nat : \A s \in ModStates :
                              M - s.den <= k /\ JustifyInv(n, d, s) => justify[s] = n % d}
  <2>4. 0 \in L
    <3>1. ASSUME NEW s \in ModStates, s.qbit <= 0, ModLoopInv(n, d, s) PROVE loop[s] = n % d
      <4>1. s.qbit = 0
        BY <2>3, <3>1
      <4>2. QED
        BY <1>1, <2>1, <3>1, <4>1, ModEnd
    <3>2. QED
      BY <3>1
  <2>5. ASSUME NEW k \in Nat, k \in L PROVE k + 1 \in L
    <3>1. ASSUME NEW s \in ModStates, s.qbit <= k + 1, ModLoopInv(n, d, s) PROVE loop[s] = n % d
      <4>1. CASE s.qbit = 0
        BY <1>1, <2>1, <3>1, <4>1, ModEnd
      <4>2. CASE s.qbit # 0
        <5>1. ModLoopInv(n, d, ModStep(s))
          BY <2>1, <3>1, <4>2, ModStepInv
        <5>2. ModStep(s) \in ModStates /\ ModStep(s).qbit < s.qbit
          BY <4>2, ModStepTypes
        <5>3. ModStep(s).qbit <= k
          BY <2>3, <3>1, <5>2
        <5>4. QED
          BY <1>1, <2>5, <4>2, <5>1, <5>2, <5>3
      <4>3. QED
        BY <4>1, <4>2
    <3>2. QED
      BY <3>1
  <2>6. \A s \in ModStates : ModLoopInv(n, d, s) => loop[s] = n % d
    <3>1. Nat \subseteq L
      <4> HIDE DEF L
      <4>1. QED
        BY <2>4, <2>5, SetInduction
    <3>2. M \in L
      BY <3>1
    <3>3. \A s \in ModStates : s.qbit <= M
      BY <2>3
    <3>4. QED
      BY <3>2, <3>3
  <2>7. 0 \in J
    BY <2>3
  <2>8. ASSUME NEW k \in Nat, k \in J PROVE k + 1 \in J
    <3>1. ASSUME NEW s \in ModStates, M - s.den <= k + 1, JustifyInv(n, d, s)
          PROVE justify[s] = n % d
      <4>1. CASE Negative(W, s.den)
        <5>1. ModLoopInv(n, d, s)
          BY <2>1, <3>1, <4>1, JustifiedInv
        <5>2. QED
          BY <1>1, <2>6, <4>1, <5>1
      <4>2. CASE ~Negative(W, s.den)
        <5>1. JustifyInv(n, d, JustifyStep(s))
          BY <2>1, <3>1, <4>2, JustifyStepInv
        <5>2. JustifyStep(s) \in ModStates /\ JustifyStep(s).den = 2 * s.den
          BY <4>2, ModStepTypes
        <5>3. s.den # 0
          <6>1. s.den = d * s.qbit /\ s.qbit # 0
            BY <3>1 DEF JustifyInv, ModInv
          <6>2. PICK x \in Nat \ {0}, y \in Nat \ {0} : x = d /\ y = s.qbit
            BY <2>1, <2>2, <2>3, <6>1 DEF Words
          <6>3. x * y # 0
            OBVIOUS
          <6>4. QED
            BY <6>1, <6>2, <6>3
        <5>4. M - JustifyStep(s).den <= k
          BY <2>3, <3>1, <5>2, <5>3
        <5>5. QED
          BY <1>1, <2>8, <4>2, <5>1, <5>2, <5>4
      <4>3. QED
        BY <4>1, <4>2
    <3>2. QED
      BY <3>1
  <2>9. \A s \in ModStates : JustifyInv(n, d, s) => justify[s] = n % d
    <3>1. Nat \subseteq J
      <4> HIDE DEF J
      <4>1. QED
        BY <2>7, <2>8, SetInduction
    <3>2. M \in J
      BY <3>1
    <3>3. \A s \in ModStates : M - s.den <= M
      BY <2>3
    <3>4. QED
      BY <3>2, <3>3
  <2>10. JustifyInv(n, d, ModStart(n, d))
    BY <2>1, ModStartInv
  <2>11. ModStart(n, d) \in ModStates
    BY <2>10 DEF JustifyInv, ModInv
  <2>12. QED
    BY <1>1, <1>3, <2>9, <2>10, <2>11
<1>4. QED
  BY <1>2, <1>3

-----------------------------------------------------------------------------
(* __udivmoddi4: double words in two halves.                                *)

\* A double word has as many values as there are pairs of words.
LEMMA Square == 2 * W \in Nat \ {0} /\ 2^(2 * W) = 2^W * 2^W /\ 2^W \in Nat \ {0} /\ 2^W >= 16
<1>1. W \in Nat /\ W >= 4 /\ W \in 0 .. 2 * W /\ 2 * W \in Nat /\ 2 * W - W = W
  BY WordBits
<1>2. 2^(2 * W) = 2^W * 2^(2 * W - W) /\ 2^W \in Nat \ {0}
  BY <1>1, PowSplit
<1>3. 2^4 <= 2^W
  BY <1>1, PowMonotone
<1>4. 2^4 = 16
  <2>1. 2^1 = 2 /\ 2^(1 + 1) = 2 * 2^1 /\ 2^(2 + 1) = 2 * 2^2 /\ 2^(3 + 1) = 2 * 2^3
    BY PowSucc
  <2>2. QED
    BY <2>1
<1>5. QED
  BY <1>1, <1>2, <1>3, <1>4

\* A double word is its two halves.
LEMMA Halves ==
  ASSUME NEW x \in Words(2 * W)
  PROVE  High(x) \in Words(W) /\ Low(x) \in Words(W) /\ x = High(x) * 2^W + Low(x)
<1>1. PICK M \in Nat \ {0} : M = 2^W /\ 2^(2 * W) = M * M
  BY Square
<1>2. x \in 0 .. M * M - 1
  BY <1>1 DEF Words
<1>3. M * M \in Nat /\ x \in Nat /\ x < M * M
  BY <1>2
<1>4. PICK h \in Nat, l \in 0 .. M - 1 : h = x \div M /\ l = x % M /\ x = h * M + l
  <2>1. x \in Int /\ x >= 0
    BY <1>3
  <2>2. x \div M \in Nat /\ x % M \in 0 .. M - 1 /\ x = (x \div M) * M + (x % M)
    BY <1>1, <2>1, Division
  <2>3. QED
    BY <2>2
<1>5. h < M
  <2> SUFFICES ASSUME h >= M PROVE FALSE
    BY <1>4
  <2>1. h * M >= M * M
    BY <1>4
  <2>2. h * M \in Nat
    BY <1>4
  <2>3. QED
    BY <1>3, <1>4, <2>1, <2>2
<1>6. QED
  BY <1>1, <1>4, <1>5 DEF Words, High, Low

\* Leading zeros of a double word, counted in its halves as the code does.
LEMMA ClzDouble ==
  ASSUME NEW x \in Words(2 * W) \ {0}
  PROVE  Clz(2 * W, x) = IF High(x) # 0 THEN Clz(W, High(x)) ELSE W + Clz(W, Low(x))
<1> W \in Nat \ {0} /\ 2 * W \in Nat \ {0}
  BY WordBits
<1>1. PICK M \in Nat \ {0} : M = 2^W /\ 2^(2 * W) = M * M
  BY Square
<1>2. PICK h \in 0 .. M - 1, l \in 0 .. M - 1 : h = High(x) /\ l = Low(x) /\ x = h * M + l
  BY <1>1, Halves DEF Words
<1>3. h \in Words(W) /\ l \in Words(W)
  BY <1>1, <1>2 DEF Words
<1>4. CASE h # 0
  <2>1. PICK n \in 0 .. W - 1 : n = Clz(W, h) /\ 2^(W - 1 - n) <= h /\ h < 2^(W - n)
    BY <1>3, <1>4, ClzBounds
  <2>2. 2^(W - 1 - n) * 2^W = 2^(2 * W - 1 - n) /\ 2^(W - n) * 2^W = 2^(2 * W - n)
    <3>1. /\ W - 1 - n \in Nat /\ W - n \in Nat /\ W - 1 - n + W = 2 * W - 1 - n
          /\ W - n + W = 2 * W - n
      BY <2>1
    <3>2. 2^(W - 1 - n + W) = 2^(W - 1 - n) * 2^W /\ 2^(W - n + W) = 2^(W - n) * 2^W
      BY <3>1, PowAdd
    <3>3. QED
      BY <3>1, <3>2
  <2>3. PICK A \in Nat, B \in Nat : A = 2^(W - 1 - n) /\ B = 2^(W - n)
    <3>1. W - 1 - n \in Nat /\ W - n \in Nat
      BY <2>1
    <3>2. QED
      BY <3>1, PowPositive
  <2>4. A * M <= h * M /\ (h + 1) * M <= B * M
    BY <1>2, <2>1, <2>3
  <2>5. (h + 1) * M = h * M + M /\ h * M \in Nat /\ A * M \in Nat /\ B * M \in Nat
    BY <1>2, <2>3
  <2>6. A * M <= x /\ x < B * M
    BY <1>2, <2>4, <2>5
  <2>7. n \in 0 .. 2 * W - 1
    BY <2>1
  <2>8. 2^(2 * W - 1 - n) <= x /\ x < 2^(2 * W - n)
    BY <1>1, <2>2, <2>3, <2>6
  <2>9. Clz(2 * W, x) = n
    BY <2>7, <2>8, ClzUnique
  <2>10. QED
    BY <1>2, <1>4, <2>1, <2>9
<1>5. CASE h = 0
  <2>1. x = l /\ l # 0
    BY <1>2, <1>5
  <2>2. PICK n \in 0 .. W - 1 : n = Clz(W, l) /\ 2^(W - 1 - n) <= l /\ l < 2^(W - n)
    BY <1>3, <2>1, ClzBounds
  <2>3. W + n \in 0 .. 2 * W - 1 /\ 2 * W - 1 - (W + n) = W - 1 - n /\ 2 * W - (W + n) = W - n
    BY <2>2
  <2>4. Clz(2 * W, x) = W + n
    BY <2>1, <2>2, <2>3, ClzUnique
  <2>5. QED
    BY <1>2, <1>5, <2>2, <2>4
<1>6. QED
  BY <1>4, <1>5

\* h and l are the halves of a double word, M = P * D the number of words
Parts(P, D, M, h, l) ==
  /\ P \in Nat \ {0} /\ D \in Nat \ {0} /\ M = P * D
  /\ h \in 0 .. M - 1 /\ l \in 0 .. M - 1

\* where their bits go: down by as many places as P, up by as many as D
Shifts(P, D, M, h, l) ==
  /\ (h * D) % M = (h % P) * D /\ (l * D) % M = (l % P) * D
  /\ (h * M + l) \div P = (h \div P) * M + ((h % P) * D + (l \div P))
  /\ (h * M + l) % P = l % P
  /\ h \div P \in 0 .. D - 1 /\ l \div P \in 0 .. D - 1

\* Shifting a double word half by half, what one half loses put into the other.
LEMMA HalvesShifted ==
  ASSUME NEW P, NEW D, NEW M, NEW h, NEW l, Parts(P, D, M, h, l)
  PROVE  Shifts(P, D, M, h, l)
<1> USE DEF Parts
<1>1. M \in Nat \ {0} /\ h \in Nat /\ l \in Nat
  OBVIOUS
<1>2. ASSUME NEW x \in 0 .. M - 1
      PROVE  \E q \in 0 .. D - 1, r \in 0 .. P - 1 : x = q * P + r /\ x \div P = q /\ x % P = r
  <2>1. x \in Int /\ x >= 0
    BY <1>1
  <2>2. x \div P \in Nat /\ x % P \in 0 .. P - 1 /\ x = (x \div P) * P + (x % P)
    BY <2>1, Division
  <2>3. PICK q \in Nat, r \in 0 .. P - 1 : q = x \div P /\ r = x % P /\ x = q * P + r
    BY <2>2
  <2>4. q < D
    <3> SUFFICES ASSUME q >= D PROVE FALSE
      BY <2>3
    <3>1. q * P >= D * P /\ D * P = P * D /\ q * P \in Nat
      BY <2>3
    <3>2. QED
      BY <3>1, <2>3, <1>1
  <2>5. QED
    BY <2>3, <2>4
<1>3. PICK q \in 0 .. D - 1, r \in 0 .. P - 1 : h = q * P + r /\ h \div P = q /\ h % P = r
  BY <1>2
<1>4. PICK p \in 0 .. D - 1, s \in 0 .. P - 1 : l = p * P + s /\ l \div P = p /\ l % P = s
  BY <1>2
<1>5. ASSUME NEW i \in 0 .. P - 1 PROVE i * D \in 0 .. M - D
  <2>1. i * D <= (P - 1) * D /\ (P - 1) * D = P * D - D /\ i * D \in Nat
    BY <1>5
  <2>2. QED
    BY <2>1
<1>6. ASSUME NEW x \in Nat, NEW i \in 0 .. D - 1, NEW j \in 0 .. P - 1, x = i * P + j
      PROVE  (x * D) % M = j * D
  <2>1. x * D = i * (P * D) + j * D
    <3>1. (i * P + j) * D = i * (P * D) + j * D
      OBVIOUS
    <3>2. QED
      BY <1>6, <3>1
  <2>2. PICK y \in Int, z \in Int : y = x * D /\ z = j * D
    BY <1>6
  <2>3. z \in 0 .. M - 1
    BY <1>5, <2>2, <1>1
  <2>4. y = i * M + z /\ i \in Int
    BY <2>1, <2>2
  <2>5. y % M = z
    <3> HIDE DEF Parts
    <3>1. QED
      BY <1>1, <2>2, <2>3, <2>4, DivisionUnique
  <2>6. QED
    BY <2>2, <2>5
<1>7. (h * D) % M = r * D /\ (l * D) % M = s * D
  <2> HIDE DEF Parts
  <2>1. h \in Nat /\ q \in 0 .. D - 1 /\ r \in 0 .. P - 1 /\ h = q * P + r
    BY <1>1, <1>3
  <2>2. l \in Nat /\ p \in 0 .. D - 1 /\ s \in 0 .. P - 1 /\ l = p * P + s
    BY <1>1, <1>4
  <2>3. (h * D) % M = r * D
    BY <2>1, <1>6
  <2>4. (l * D) % M = s * D
    BY <2>2, <1>6
  <2>5. QED
    BY <2>3, <2>4
<1>8. h * M + l = (q * M + (r * D + p)) * P + s
  <2>1. h * M = (h * D) * P
    BY <1>1
  <2>2. h * D = q * M + r * D
    <3>1. (q * P + r) * D = q * (P * D) + r * D
      BY <1>3
    <3>2. QED
      BY <3>1, <1>3
  <2>3. PICK x \in Int, y \in Int : x = q * M /\ y = r * D
    BY <1>1, <1>3
  <2>4. h * M = (x + y) * P
    BY <2>1, <2>2, <2>3
  <2>5. (x + y) * P + (p * P + s) = (x + (y + p)) * P + s
    BY <1>3, <1>4, <2>3
  <2>6. QED
    BY <1>4, <2>3, <2>4, <2>5
<1>9. (h * M + l) \div P = q * M + (r * D + p) /\ (h * M + l) % P = s
  <2>1. PICK x \in Int, y \in Int : x = h * M + l /\ y = q * M + (r * D + p)
    BY <1>1, <1>3, <1>4
  <2>2. QED
    BY <1>8, <2>1, DivisionUnique
<1>10. r * D + p \in 0 .. M - 1 /\ r * D \in 0 .. M - D /\ s * D \in 0 .. M - D
  BY <1>1, <1>3, <1>4, <1>5
<1>11. QED
  BY <1>3, <1>4, <1>7, <1>9, <1>10 DEF Shifts

\* The registers of a division of double words, as __udivmoddi4 puts them together from
\* the halves for a shift by at most a word
LEMMA ShortShift ==
  ASSUME NEW n \in Words(2 * W), NEW k \in 1 .. W
  PROVE  /\ Double(Shl(W, Low(n), W - k), 0) = (n % 2^k) * 2^(2 * W - k)
         /\ Double(Shr(High(n), k), Shl(W, High(n), W - k) + Shr(Low(n), k)) = n \div 2^k
         /\ Low(n) % 2^k = n % 2^k
         /\ k = W => Shr(High(n), k) = 0 /\ Shr(Low(n), k) = 0
<1> W \in Nat \ {0}
  BY WordBits
<1>1. PICK P \in Nat \ {0}, D \in Nat \ {0}, M \in Nat \ {0} :
        P = 2^k /\ D = 2^(W - k) /\ M = 2^W /\ M = P * D
  <2>1. k \in 0 .. W
    OBVIOUS
  <2>2. QED
    BY <2>1, PowSplit, PowPositive
<1>2. PICK h \in 0 .. M - 1, l \in 0 .. M - 1 : h = High(n) /\ l = Low(n) /\ n = h * M + l
  BY <1>1, Halves DEF Words
<1>3. /\ (h * D) % M = (h % P) * D /\ (l * D) % M = (l % P) * D
      /\ (h * M + l) \div P = (h \div P) * M + ((h % P) * D + (l \div P))
      /\ (h * M + l) % P = l % P
      /\ h \div P \in 0 .. D - 1 /\ l \div P \in 0 .. D - 1
  <2>1. Parts(P, D, M, h, l)
    BY <1>1, <1>2 DEF Parts
  <2>2. Shifts(P, D, M, h, l)
    BY <2>1, HalvesShifted
  <2>3. QED
    BY <2>2 DEF Shifts
<1>4. 2^(2 * W - k) = M * D
  <2>1. W - k \in Nat /\ W + (W - k) = 2 * W - k
    OBVIOUS
  <2>2. 2^(W + (W - k)) = 2^W * 2^(W - k)
    BY <2>1, PowAdd
  <2>3. QED
    BY <2>1, <2>2, <1>1
<1>5. /\ Shl(W, l, W - k) = (l % P) * D /\ Shl(W, h, W - k) = (h % P) * D /\ Shr(h, k) = h \div P
      /\ Shr(l, k) = l \div P
  BY <1>1, <1>3 DEF Shl, Shr, Wrap
<1>6. Double(Shl(W, l, W - k), 0) = (l % P) * (M * D)
  <2>1. PICK x \in Nat : x = l % P
    BY <1>2
  <2>2. (x * D) * M + 0 = x * (M * D)
    BY <2>1
  <2>3. QED
    BY <1>1, <1>5, <2>1, <2>2 DEF Double
<1>7. Double(Shr(h, k), Shl(W, h, W - k) + Shr(l, k)) = n \div P
  BY <1>1, <1>2, <1>3, <1>5 DEF Double
<1>8. k = W => D = 1
  <2>1. W - W = 0 /\ 2^0 = 1
    OBVIOUS
  <2>2. QED
    BY <2>1, <1>1
<1>9. k = W => h \div P = 0 /\ l \div P = 0
  BY <1>3, <1>8
<1>10. QED
  BY <1>1, <1>2, <1>3, <1>4, <1>5, <1>6, <1>7, <1>9

\* and by more.
LEMMA LongShift ==
  ASSUME NEW n \in Words(2 * W), NEW j \in 0 .. W - 1
  PROVE  /\ Double(Shl(W, High(n), W - j) + Shr(Low(n), j), Shl(W, Low(n), W - j))
              = (n % 2^(W + j)) * 2^(W - j)
         /\ Double(0, Shr(High(n), j)) = n \div 2^(W + j)
         /\ j = 0 => Double(Low(n), 0) = (n % 2^(W + j)) * 2^(W - j)
<1> W \in Nat \ {0}
  BY WordBits
<1>1. PICK P \in Nat \ {0}, D \in Nat \ {0}, M \in Nat \ {0} :
        P = 2^j /\ D = 2^(W - j) /\ M = 2^W /\ M = P * D
  <2>1. j \in 0 .. W
    OBVIOUS
  <2>2. QED
    BY <2>1, PowSplit, PowPositive
<1>2. PICK h \in 0 .. M - 1, l \in 0 .. M - 1 : h = High(n) /\ l = Low(n) /\ n = h * M + l
  BY <1>1, Halves DEF Words
<1>3. (h * D) % M = (h % P) * D /\ (l * D) % M = (l % P) * D
  <2>1. Parts(P, D, M, h, l)
    BY <1>1, <1>2 DEF Parts
  <2>2. Shifts(P, D, M, h, l)
    BY <2>1, HalvesShifted
  <2>3. QED
    BY <2>2 DEF Shifts
<1>4. 2^(W + j) = M * P
  <2>1. W \in Nat /\ j \in Nat
    OBVIOUS
  <2>2. QED
    BY <2>1, <1>1, PowAdd
<1>5. /\ Shl(W, l, W - j) = (l % P) * D /\ Shl(W, h, W - j) = (h % P) * D /\ Shr(h, j) = h \div P
      /\ Shr(l, j) = l \div P
  BY <1>1, <1>3 DEF Shl, Shr, Wrap
<1>6. PICK q \in Nat, r \in 0 .. P - 1 : q = h \div P /\ r = h % P /\ h = q * P + r
  <2>1. h \in Int /\ h >= 0
    BY <1>2
  <2>2. h \div P \in Nat /\ h % P \in 0 .. P - 1 /\ h = (h \div P) * P + (h % P)
    BY <2>1, Division
  <2>3. QED
    BY <2>2
<1>7. PICK p \in Nat, s \in 0 .. P - 1 : p = l \div P /\ s = l % P /\ l = p * P + s
  <2>1. l \in Int /\ l >= 0
    BY <1>2
  <2>2. l \div P \in Nat /\ l % P \in 0 .. P - 1 /\ l = (l \div P) * P + (l % P)
    BY <2>1, Division
  <2>3. QED
    BY <2>2
<1>8. n \div (M * P) = q /\ n % (M * P) = r * M + l
  <2>1. n = q * (M * P) + (r * M + l)
    <3>1. (q * P + r) * M = q * (M * P) + r * M
      BY <1>6
    <3>2. PICK x \in Int, y \in Int : x = q * (M * P) /\ y = r * M
      BY <1>6
    <3>3. n = x + y + l
      BY <3>1, <3>2, <1>2, <1>6
    <3>4. QED
      BY <3>2, <3>3, <1>2
  <2>2. r * M + l \in 0 .. M * P - 1
    <3>1. r * M <= (P - 1) * M /\ (P - 1) * M = M * P - M /\ r * M \in Nat
      BY <1>6
    <3>2. QED
      BY <3>1, <1>2
  <2>3. PICK m \in Nat \ {0}, x \in Int : m = M * P /\ x = r * M + l
    BY <2>2
  <2>4. q * m \in Int /\ x \in 0 .. m - 1 /\ n = q * m + x
    BY <2>1, <2>2, <2>3, <1>6
  <2>6. n \in Int /\ q \in Int
    BY <2>3, <2>4, <1>6
  <2>5. n \div m = q /\ n % m = x
    <3>1. PICK z \in Int : z = n
      BY <2>6
    <3>2. z = q * m + x /\ q \in Int
      BY <3>1, <2>4, <2>6
    <3>3. z \div m = q /\ z % m = x
      <4>1. Quotients(z, m, q, x)
        BY <3>2, <2>3, <2>4 DEF Quotients
      <4>2. QED
        BY <4>1, QuotientsUnique
    <3>4. QED
      BY <3>1, <3>3
  <2>7. QED
    BY <2>3, <2>5
<1>9. Double(Shl(W, h, W - j) + Shr(l, j), Shl(W, l, W - j)) = (r * M + l) * D
  <2>1. (r * D + p) * M + s * D = (r * M + l) * D
    <3>1. (r * D) * M = (r * M) * D /\ p * M = (p * P) * D
      <4>1. r \in Int /\ D \in Int /\ M \in Int /\ p \in Int /\ P \in Int
        BY <1>6, <1>7
      <4>2. (r * D) * M = (r * M) * D /\ p * (P * D) = (p * P) * D
        BY <4>1, Factors
      <4>3. QED
        BY <4>2, <1>1
    <3>2. (r * D + p) * M = (r * M) * D + (p * P) * D
      <4>1. PICK x \in Int : x = r * D
        BY <1>6
      <4>2. (x + p) * M = x * M + p * M
        BY <1>7
      <4>3. QED
        BY <3>1, <4>1, <4>2
    <3>3. (r * M + (p * P + s)) * D = (r * M) * D + (p * P) * D + s * D
      BY <1>6, <1>7
    <3>4. QED
      BY <3>2, <3>3, <1>7
  <2>2. QED
    BY <2>1, <1>1, <1>5, <1>6, <1>7 DEF Double
<1>10. Double(0, Shr(h, j)) = q
  <2>1. 0 * M + q = q
    BY <1>6
  <2>2. QED
    BY <2>1, <1>1, <1>5, <1>6 DEF Double
<1>11. j = 0 => Double(l, 0) = (r * M + l) * D
  <2> SUFFICES ASSUME j = 0 PROVE Double(l, 0) = (r * M + l) * D
    OBVIOUS
  <2>1. P = 1 /\ D = M /\ r = 0
    <3>1. 2^0 = 1 /\ W - 0 = W
      OBVIOUS
    <3>2. P = 1 /\ D = M
      BY <3>1, <1>1
    <3>3. QED
      BY <3>2, <1>6
  <2>2. l * M + 0 = (0 * M + l) * M
    BY <1>2
  <2>3. QED
    BY <2>1, <2>2, <1>1 DEF Double
<1>12. QED
  BY <1>1, <1>2, <1>4, <1>8, <1>9, <1>10, <1>11

\* a division of double words at its loop, or past it
DoubleEntry(n, d, entry) ==
  \/ entry = Returned(IF d = 0 THEN 0 ELSE n \div d, IF d = 0 THEN 0 ELSE n % d)
  \/ /\ d # 0 /\ DivInv(2 * W, n, d, entry)
     /\ entry = [q |-> entry.q, r |-> entry.r, carry |-> 0, sr |-> entry.sr]

\* Shifts of words are naturals.
LEMMA ShiftsAreNatural ==
  \A x \in Words(W) : \A j \in Nat : Shl(W, x, j) \in Nat /\ Shr(x, j) \in Nat
<1> SUFFICES ASSUME NEW x \in Words(W), NEW j \in Nat
             PROVE  Shl(W, x, j) \in Nat /\ Shr(x, j) \in Nat
  OBVIOUS
<1>1. PICK M \in Nat \ {0}, P \in Nat \ {0} : M = 2^W /\ P = 2^j
  BY WordBits, PowPositive
<1>2. x \in Nat
  BY <1>1 DEF Words
<1>3. PICK y \in Int : y = x * P
  BY <1>2
<1>4. y % M \in 0 .. M - 1
  BY Division
<1>5. x \div P \in Nat
  <2>1. x \in Int /\ x >= 0
    BY <1>2
  <2>2. QED
    BY <2>1, Division
<1>6. QED
  BY <1>1, <1>3, <1>4, <1>5 DEF Shl, Shr, Wrap

\* A divisor that is a multiple of 2^W,
LEMMA DivByHighCases ==
  ASSUME NEW n \in Words(2 * W), NEW d \in Words(2 * W), High(n) # 0, Low(d) = 0, d # 0
  PROVE  DoubleEntry(n, d, DivByHigh(n, d))
<1> W \in Nat \ {0} /\ 2 * W \in Nat \ {0}
  BY WordBits
<1>1. PICK M \in Nat \ {0} : M = 2^W /\ 2^(2 * W) = M * M
  BY Square
<1>2. PICK h \in 0 .. M - 1, l \in 0 .. M - 1 : h = High(n) /\ l = Low(n) /\ n = h * M + l
  <2>1. High(n) \in Words(W) /\ Low(n) \in Words(W) /\ n = High(n) * 2^W + Low(n)
    BY Halves
  <2>2. QED
    BY <1>1, <2>1 DEF Words
<1>3. PICK g \in 0 .. M - 1 : g = High(d) /\ d = g * M
  <2>1. High(d) \in 0 .. M - 1 /\ d = High(d) * M + 0
    BY <1>1, Halves DEF Words
  <2>2. QED
    BY <2>1
<1>4. g # 0 /\ h # 0 /\ n # 0 /\ n \in Nat /\ d \in Nat
  <2>1. 0 * M = 0 /\ h * M \in Nat /\ h * M >= h /\ g * M \in Nat
    BY <1>2, <1>3
  <2>2. QED
    BY <2>1, <1>2, <1>3
<1>5. PICK x \in 0 .. W - 1, y \in 0 .. W - 1 :
        /\ x = Clz(W, h) /\ y = Clz(W, g)
        /\ x = Clz(2 * W, n) /\ y = Clz(2 * W, d)
  <2>1. h \in Words(W) \ {0} /\ g \in Words(W) \ {0}
    BY <1>1, <1>4 DEF Words
  <2>2. Clz(W, h) \in 0 .. W - 1 /\ Clz(W, g) \in 0 .. W - 1
    BY <2>1, ClzBounds
  <2>3. Clz(2 * W, n) = Clz(W, h) /\ Clz(2 * W, d) = Clz(W, g)
    BY <1>2, <1>3, <1>4, ClzDouble
  <2>4. QED
    BY <2>2, <2>3
<1>6. CASE PowerOfTwo(W, g)
  <2>1. PICK k \in 0 .. W - 1 : g = 2^k
    BY <1>6 DEF PowerOfTwo
  <2>2. Ctz(W, g) = k
    BY <2>1, CtzOfPower
  <2>3. PICK q \in Nat, r \in 0 .. g - 1 : q = h \div g /\ r = h % g /\ h = q * g + r
    <3>1. h \in Int /\ h >= 0 /\ g \in Nat \ {0}
      BY <1>2, <1>3, <1>4
    <3>2. h \div g \in Nat /\ h % g \in 0 .. g - 1 /\ h = (h \div g) * g + (h % g)
      BY <3>1, Division
    <3>3. QED
      BY <3>2
  <2>4. DivByHigh(n, d) = Returned(q, r * M + l)
    BY <1>1, <1>2, <1>3, <1>6, <2>1, <2>2, <2>3 DEF DivByHigh, Shr, Double
  <2>5. n = q * d + (r * M + l)
    <3>1. (q * g + r) * M = q * (g * M) + r * M
      BY <1>3, <2>3
    <3>2. PICK u \in Int, v \in Int : u = q * (g * M) /\ v = r * M
      BY <1>3, <2>3
    <3>3. n = u + v + l
      BY <3>1, <3>2, <1>2, <2>3
    <3>4. QED
      BY <3>2, <3>3, <1>2, <1>3
  <2>6. r * M + l \in 0 .. d - 1
    <3>1. r * M <= (g - 1) * M /\ (g - 1) * M = g * M - M /\ r * M \in Nat
      BY <1>3, <2>3
    <3>2. QED
      BY <3>1, <1>2, <1>3, <1>4
  <2>7. Quotients(n, d, q, r * M + l)
    BY <1>4, <2>3, <2>5, <2>6 DEF Quotients
  <2>8. n \div d = q /\ n % d = r * M + l
    BY <2>7, QuotientsUnique
  <2>9. QED
    BY <2>4, <2>8 DEF DoubleEntry
<1>7. CASE ~PowerOfTwo(W, g) /\ y < x
  <2>1. n < d
    BY <1>4, <1>5, <1>7, Shorter
  <2>2. n \div d = 0 /\ n % d = n
    BY <1>4, <2>1, Smaller
  <2>3. y - x + 1 - 1 < 0
    BY <1>7
  <2>4. DivByHigh(n, d) = Returned(0, n)
    BY <1>2, <1>3, <1>5, <1>7, <2>3 DEF DivByHigh
  <2>5. QED
    BY <2>2, <2>4 DEF DoubleEntry
<1>8. CASE ~PowerOfTwo(W, g) /\ x <= y
  <2>1. y # W - 1
    <3> SUFFICES ASSUME y = W - 1 PROVE FALSE
      OBVIOUS
    <3>1. g \in Words(W) \ {0}
      BY <1>1, <1>4 DEF Words
    <3>2. g < 2^(W - y)
      BY <3>1, <1>5, ClzBounds
    <3>3. W - y = 1 /\ 2^1 = 2 /\ 2^0 = 1
      OBVIOUS
    <3>4. g = 2^0
      BY <1>3, <1>4, <3>2, <3>3
    <3>5. 0 \in 0 .. W - 1
      OBVIOUS
    <3>6. QED
      BY <1>8, <3>4, <3>5 DEF PowerOfTwo
  <2>2. PICK k \in 1 .. W : k = y - x + 1 /\ k - 1 \in 0 .. W - 2
    BY <1>8, <2>1
  <2>3. DivByHigh(n, d) = [q |-> Double(Shl(W, l, W - k), 0),
                           r |-> Double(Shr(h, k), Shl(W, h, W - k) + Shr(l, k)),
                           carry |-> 0, sr |-> k]
    BY <1>2, <1>3, <1>5, <1>8, <2>2 DEF DivByHigh, LoopFrom
  <2>4. /\ Double(Shl(W, l, W - k), 0) = (n % 2^k) * 2^(2 * W - k)
        /\ Double(Shr(h, k), Shl(W, h, W - k) + Shr(l, k)) = n \div 2^k
    BY <1>2, ShortShift
  <2>5. DivInv(2 * W, n, d,
               [q |-> (n % 2^k) * 2^(2 * W - k), r |-> n \div 2^k, carry |-> 0, sr |-> k])
    <3>1. /\ n \in Words(2 * W) \ {0} /\ d \in Words(2 * W) \ {0} /\ k \in 1 .. 2 * W
          /\ k = Clz(2 * W, d) - Clz(2 * W, n) + 1
      BY <1>4, <1>5, <2>2
    <3>2. QED
      BY <3>1, DivEntry
  <2>6. QED
    BY <2>3, <2>4, <2>5 DEF DoubleEntry
<1>9. QED
  BY <1>5, <1>6, <1>7, <1>8

\* one below 2^W, where u is what a shift by the whole width may give,
LEMMA DivByLowCases ==
  ASSUME NEW n \in Words(2 * W), NEW d \in Words(2 * W), NEW u \in Words(W), High(n) # 0,
         High(d) = 0, Low(d) # 0
  PROVE  DoubleEntry(n, d, DivByLow(n, d, u))
<1> W \in Nat \ {0} /\ 2 * W \in Nat \ {0}
  BY WordBits
<1>1. PICK M \in Nat \ {0} : M = 2^W /\ 2^(2 * W) = M * M
  BY Square
<1>2. PICK h \in Words(W), l \in Words(W) : h = High(n) /\ l = Low(n)
  BY Halves
<1>3. d \in Words(W) \ {0} /\ d = Low(d)
  <2>1. High(d) \in Words(W) /\ Low(d) \in Words(W) /\ d = High(d) * 2^W + Low(d)
    BY Halves
  <2>2. Low(d) \in Int /\ 0 * M + Low(d) = Low(d)
    BY <1>1, <2>1 DEF Words
  <2>3. QED
    BY <1>1, <2>1, <2>2
<1>4. n # 0 /\ n \in Nat /\ d \in Nat
  <2>1. 0 \div M = 0
    OBVIOUS
  <2>2. n \in 0 .. M * M - 1 /\ d \in 0 .. M * M - 1
    BY <1>1 DEF Words
  <2>3. QED
    BY <1>1, <2>1, <2>2 DEF High
<1>5. PICK x \in 0 .. W - 1, y \in 0 .. W - 1 :
        /\ x = Clz(W, h) /\ y = Clz(W, d)
        /\ x = Clz(2 * W, n) /\ W + y = Clz(2 * W, d)
  <2>1. h # 0
    BY <1>2
  <2>2. Clz(W, h) \in 0 .. W - 1 /\ Clz(W, d) \in 0 .. W - 1
    BY <1>2, <1>3, <2>1, ClzBounds
  <2>3. Clz(2 * W, n) = Clz(W, h) /\ Clz(2 * W, d) = W + Clz(W, d)
    BY <1>2, <1>3, <1>4, ClzDouble
  <2>4. QED
    BY <2>2, <2>3
<1>6. CASE d = 1
  <2>1. n \div d = n /\ n % d = 0
    BY <1>4, <1>6
  <2>2. DivByLow(n, d, u) = Returned(n, 0)
    BY <1>3, <1>6 DEF DivByLow
  <2>3. QED
    BY <1>6, <2>1, <2>2 DEF DoubleEntry
<1>7. CASE d # 1 /\ PowerOfTwo(W, d)
  <2>1. PICK k \in 0 .. W - 1 : d = 2^k
    BY <1>7 DEF PowerOfTwo
  <2>2. k # 0
    <3>1. 2^0 = 1
      OBVIOUS
    <3>2. QED
      BY <3>1, <1>7, <2>1
  <2>3. Ctz(W, d) = k
    BY <2>1, CtzOfPower
  <2>4. DivByLow(n, d, u) = Returned(Double(Shr(h, k), Shl(W, h, W - k) + Shr(l, k)), l % d)
    BY <1>2, <1>3, <1>7, <2>3 DEF DivByLow
  <2>5. Double(Shr(h, k), Shl(W, h, W - k) + Shr(l, k)) = n \div d /\ l % d = n % d
    BY <1>2, <2>1, <2>2, ShortShift
  <2>6. QED
    BY <1>3, <2>4, <2>5 DEF DoubleEntry
<1>8. CASE d # 1 /\ ~PowerOfTwo(W, d)
  <2>1. y # W - 1
    <3> SUFFICES ASSUME y = W - 1 PROVE FALSE
      OBVIOUS
    <3>1. d < 2^(W - y)
      BY <1>3, <1>5, ClzBounds
    <3>2. W - y = 1 /\ 2^1 = 2
      OBVIOUS
    <3>3. QED
      BY <1>3, <1>4, <1>8, <3>1, <3>2
  <2>2. PICK k \in 2 .. 2 * W - 1 : k = 1 + W + y - x
    BY <2>1
  <2>3. DivInv(2 * W, n, d,
               [q |-> (n % 2^k) * 2^(2 * W - k), r |-> n \div 2^k, carry |-> 0, sr |-> k])
    <3>1. /\ n \in Words(2 * W) \ {0} /\ d \in Words(2 * W) \ {0} /\ k \in 1 .. 2 * W
          /\ k = Clz(2 * W, d) - Clz(2 * W, n) + 1
      BY <1>3, <1>4, <1>5, <2>2
    <3>2. QED
      BY <3>1, DivEntry
  <2>4. \A z \in -W .. W - 1 : Negative(W, z) <=> z < 0
    <3>1. W - 1 \in Nat /\ W - 1 < 2^(W - 1) /\ 2^(W - 1) \in Nat
      BY Exponential, PowPositive
    <3>2. ASSUME NEW z \in -W .. W - 1 PROVE z \in Int /\ -2^(W - 1) <= z /\ z < 2^(W - 1)
      BY <3>1
    <3>3. QED
      BY <3>2, SignBit
  <2>5. /\ Negative(W, k - W - 1) <=> k <= W
        /\ Negative(W, W - k) <=> k > W
        /\ Negative(W, k - W) <=> k < W
        /\ Negative(W, W - k - 1) <=> k >= W
    <3>1. /\ k - W - 1 \in -W .. W - 1 /\ W - k \in -W .. W - 1
          /\ k - W \in -W .. W - 1 /\ W - k - 1 \in -W .. W - 1
      OBVIOUS
    <3>2. /\ Negative(W, k - W - 1) <=> k - W - 1 < 0
          /\ Negative(W, W - k) <=> W - k < 0
          /\ Negative(W, k - W) <=> k - W < 0
          /\ Negative(W, W - k - 1) <=> W - k - 1 < 0
      BY <2>4, <3>1
    <3>3. QED
      BY <3>2
  <2> DEFINE qhigh == Masked(UbShl(l, W - k, u), k - W - 1)
                        + Masked(UbShl(h, 2 * W - k, u) + UbShr(l, k - W, u), W - k)
             qlow == Masked(UbShl(l, 2 * W - k, u), W - k)
             rhigh == Masked(UbShr(h, k, u), k - W)
             rlow == Masked(UbShr(h, k - W, u), W - k - 1)
                       + Masked(UbShl(h, W - k, u) + UbShr(l, k, u), k - W)
  <2>6. DivByLow(n, d, u) = LoopFrom(k, qhigh, qlow, rhigh, rlow)
    BY <1>2, <1>3, <1>5, <1>8, <2>2 DEF DivByLow
  <2>7. Double(qhigh, qlow) = (n % 2^k) * 2^(2 * W - k) /\ Double(rhigh, rlow) = n \div 2^k
    <3>1. \A z \in Nat : z + 0 = z /\ 0 + z = z
      OBVIOUS
    <3>2. \A z \in Words(W) : \A j \in Nat : Shl(W, z, j) \in Nat /\ Shr(z, j) \in Nat
      BY ShiftsAreNatural
    <3>3. CASE k < W
      <4>1. k \in 1 .. W /\ k \in 0 .. W - 1 /\ W - k \in 0 .. W - 1 /\ W - k \in Nat /\ k \in Nat
        BY <3>3
      <4>2. /\ qhigh = Shl(W, l, W - k) + 0 /\ qlow = 0 /\ rhigh = Shr(h, k)
            /\ rlow = 0 + (Shl(W, h, W - k) + Shr(l, k))
        BY <2>5, <3>3, <4>1 DEF Masked, UbShl, UbShr
      <4>3. Shl(W, l, W - k) \in Nat /\ Shl(W, h, W - k) + Shr(l, k) \in Nat
        BY <3>2, <4>1
      <4>4. qhigh = Shl(W, l, W - k) /\ rlow = Shl(W, h, W - k) + Shr(l, k)
        BY <3>1, <4>2, <4>3
      <4>5. QED
        BY <1>2, <4>1, <4>2, <4>4, ShortShift
    <3>4. CASE k = W
      <4>1. /\ k - W = 0 /\ W - k = 0 /\ 0 \in 0 .. W - 1 /\ 0 \in Nat /\ 2 * W - k = W /\ W + 0 = k
            /\ W - 0 = W
        BY <3>4
      <4>2. qhigh = Shl(W, l, 0) + 0 /\ qlow = 0 /\ rhigh = 0 /\ rlow = Shr(h, 0) + 0
        BY <2>5, <3>4, <4>1 DEF Masked, UbShl, UbShr
      <4>3. Shl(W, l, 0) = l /\ Shr(h, 0) \in Nat /\ l \in Nat
        <5>1. 2^0 = 1 /\ l \in 0 .. M - 1
          BY <1>1 DEF Words
        <5>2. (l * 1) % M = l
          BY <5>1
        <5>3. QED
          BY <1>1, <3>2, <4>1, <5>1, <5>2 DEF Shl, Wrap
      <4>4. qhigh = l /\ rlow = Shr(h, 0)
        BY <3>1, <4>2, <4>3
      <4>5. /\ Double(0, Shr(h, 0)) = n \div 2^(W + 0)
            /\ Double(l, 0) = (n % 2^(W + 0)) * 2^(W - 0)
        BY <1>2, <4>1, LongShift
      <4>6. QED
        BY <4>1, <4>2, <4>4, <4>5
    <3>5. CASE k > W
      <4>1. PICK j \in 1 .. W - 1 : j = k - W /\ k = W + j /\ 2 * W - k = W - j
        BY <3>5
      <4>2. j \in 0 .. W - 1 /\ W - j \in 0 .. W - 1 /\ j \in Nat /\ W - j \in Nat
        BY <4>1
      <4>3. /\ qhigh = 0 + (Shl(W, h, W - j) + Shr(l, j)) /\ qlow = Shl(W, l, W - j)
            /\ rhigh = 0 /\ rlow = Shr(h, j) + 0
        BY <2>5, <3>5, <4>1, <4>2 DEF Masked, UbShl, UbShr
      <4>4. Shl(W, h, W - j) + Shr(l, j) \in Nat /\ Shr(h, j) \in Nat
        BY <3>2, <4>2
      <4>5. qhigh = Shl(W, h, W - j) + Shr(l, j) /\ rlow = Shr(h, j)
        BY <3>1, <4>3, <4>4
      <4>6. /\ Double(Shl(W, h, W - j) + Shr(l, j), Shl(W, l, W - j)) = (n % 2^(W + j)) * 2^(W - j)
            /\ Double(0, Shr(h, j)) = n \div 2^(W + j)
        BY <1>2, <4>2, LongShift
      <4>7. QED
        BY <4>1, <4>3, <4>5, <4>6
    <3>6. QED
      BY <3>3, <3>4, <3>5
  <2> HIDE DEF qhigh, qlow, rhigh, rlow
  <2>8. DivByLow(n, d, u) =
          [q |-> (n % 2^k) * 2^(2 * W - k), r |-> n \div 2^k, carry |-> 0, sr |-> k]
    BY <2>6, <2>7 DEF LoopFrom
  <2>9. QED
    BY <1>3, <2>3, <2>8 DEF DoubleEntry
<1>9. QED
  BY <1>6, <1>7, <1>8

\* and one with both halves other than 0: in each case the code is at its loop with the
\* invariant, or returns quotient and remainder.
LEMMA DivByBothCases ==
  ASSUME NEW n \in Words(2 * W), NEW d \in Words(2 * W), NEW u \in Words(W), High(n) # 0,
         High(d) # 0
  PROVE  DoubleEntry(n, d, DivByBoth(n, d, u))
<1> W \in Nat \ {0} /\ 2 * W \in Nat \ {0}
  BY WordBits
<1>1. PICK M \in Nat \ {0} : M = 2^W /\ 2^(2 * W) = M * M
  BY Square
<1>2. PICK h \in Words(W), l \in Words(W), g \in Words(W) : h = High(n) /\ l = Low(n) /\ g = High(d)
  BY Halves
<1>4. n # 0 /\ d # 0 /\ n \in Nat /\ d \in Nat
  <2>1. 0 \div M = 0
    OBVIOUS
  <2>2. n \in 0 .. M * M - 1 /\ d \in 0 .. M * M - 1
    BY <1>1 DEF Words
  <2>3. QED
    BY <1>1, <2>1, <2>2 DEF High
<1>5. PICK x \in 0 .. W - 1, y \in 0 .. W - 1 :
        /\ x = Clz(W, h) /\ y = Clz(W, g)
        /\ x = Clz(2 * W, n) /\ y = Clz(2 * W, d)
  <2>1. h # 0 /\ g # 0
    BY <1>2
  <2>2. Clz(W, h) \in 0 .. W - 1 /\ Clz(W, g) \in 0 .. W - 1
    BY <1>2, <2>1, ClzBounds
  <2>3. Clz(2 * W, n) = Clz(W, h) /\ Clz(2 * W, d) = Clz(W, g)
    BY <1>2, <1>4, ClzDouble
  <2>4. QED
    BY <2>2, <2>3
<1>7. CASE y < x
  <2>1. n < d
    BY <1>4, <1>5, <1>7, Shorter
  <2>2. n \div d = 0 /\ n % d = n
    BY <1>4, <2>1, Smaller
  <2>3. y - x + 1 - 1 < 0
    BY <1>7
  <2>4. DivByBoth(n, d, u) = Returned(0, n)
    BY <1>2, <1>5, <1>7, <2>3 DEF DivByBoth
  <2>5. QED
    BY <1>4, <2>2, <2>4 DEF DoubleEntry
<1>8. CASE x <= y
  <2>2. PICK k \in 1 .. W : k = y - x + 1 /\ k - 1 \in 0 .. W - 1
    BY <1>8
  <2>3. DivByBoth(n, d, u) =
          LoopFrom(k, Shl(W, l, W - k), 0, Masked(UbShr(h, k, u), k - W),
                   Shl(W, h, W - k) + Masked(UbShr(l, k, u), k - W))
    BY <1>2, <1>5, <2>2 DEF DivByBoth
  <2>4. /\ Double(Shl(W, l, W - k), 0) = (n % 2^k) * 2^(2 * W - k)
        /\ Double(Shr(h, k), Shl(W, h, W - k) + Shr(l, k)) = n \div 2^k
        /\ k = W => Shr(h, k) = 0 /\ Shr(l, k) = 0
    BY <1>2, ShortShift
  <2>5. DivInv(2 * W, n, d,
               [q |-> (n % 2^k) * 2^(2 * W - k), r |-> n \div 2^k, carry |-> 0, sr |-> k])
    <3>1. /\ n \in Words(2 * W) \ {0} /\ d \in Words(2 * W) \ {0} /\ k \in 1 .. 2 * W
          /\ k = Clz(2 * W, d) - Clz(2 * W, n) + 1
      BY <1>4, <1>5, <2>2
    <3>2. QED
      BY <3>1, DivEntry
  <2>6. Masked(UbShr(h, k, u), k - W) = Shr(h, k) /\ Masked(UbShr(l, k, u), k - W) = Shr(l, k)
    <3>1. Negative(W, k - W) <=> k < W
      <4>1. k - W \in Int /\ -2^(W - 1) <= k - W /\ k - W < 2^(W - 1)
        <5>1. W - 1 \in Nat /\ W - 1 < 2^(W - 1) /\ 2^(W - 1) \in Nat
          BY Exponential, PowPositive
        <5>2. QED
          BY <5>1
      <4>2. Negative(W, k - W) <=> k - W < 0
        BY <4>1, SignBit
      <4>3. QED
        BY <4>2
    <3>2. CASE k < W
      <4>1. k \in 0 .. W - 1
        BY <3>2
      <4>2. QED
        BY <3>1, <3>2, <4>1 DEF Masked, UbShr
    <3>3. CASE k = W
      BY <2>4, <3>1, <3>3 DEF Masked
    <3>4. QED
      BY <3>2, <3>3
  <2>7. DivByBoth(n, d, u) =
          [q |-> (n % 2^k) * 2^(2 * W - k), r |-> n \div 2^k, carry |-> 0, sr |-> k]
    BY <2>3, <2>4, <2>6 DEF LoopFrom
  <2>8. QED
    BY <1>4, <2>5, <2>7 DEF DoubleEntry
<1>9. QED
  BY <1>5, <1>7, <1>8

\* __udivmoddi4 up to its loop, for all its special cases; in none does the result of an
\* undefined shift matter.
LEMMA UDivModDiEntryCases ==
  ASSUME NEW n \in Words(2 * W), NEW d \in Words(2 * W), NEW u \in Words(W)
  PROVE  DoubleEntry(n, d, UDivModDiEntry(n, d, u))
<1> DEFINE entry == UDivModDiEntry(n, d, u)
<1> W \in Nat \ {0} /\ 2 * W \in Nat \ {0}
  BY WordBits
<1>1. PICK M \in Nat \ {0} : M = 2^W /\ 2^(2 * W) = M * M
  BY Square
<1>2. PICK h \in 0 .. M - 1, l \in 0 .. M - 1 : h = High(n) /\ l = Low(n) /\ n = h * M + l
  <2>1. High(n) \in Words(W) /\ Low(n) \in Words(W) /\ n = High(n) * 2^W + Low(n)
    BY Halves
  <2>2. QED
    BY <1>1, <2>1 DEF Words
<1>3. PICK g \in 0 .. M - 1, k \in 0 .. M - 1 : g = High(d) /\ k = Low(d) /\ d = g * M + k
  <2>1. High(d) \in Words(W) /\ Low(d) \in Words(W) /\ d = High(d) * 2^W + Low(d)
    BY Halves
  <2>2. QED
    BY <1>1, <2>1 DEF Words
<1>4. /\ h \in Words(W) /\ l \in Words(W) /\ g \in Words(W) /\ k \in Words(W)
      /\ 0 * M = 0 /\ 0 \in Words(W)
  BY <1>1 DEF Words
<1>5. n \in Nat /\ d \in Nat /\ (h = 0 => n = l) /\ (g = 0 => d = k) /\ (d = 0 <=> g = 0 /\ k = 0)
  <2>1. h * M \in Nat /\ g * M \in Nat /\ g * M >= g
    BY <1>2, <1>3
  <2>2. PICK x \in Nat, y \in Nat :
         x = h * M /\ y = g * M /\ (h = 0 => x = 0) /\ (g = 0 => y = 0) /\ y >= g
    BY <2>1, <1>4
  <2>3. n = x + l /\ d = y + k
    BY <2>2, <1>2, <1>3
  <2>4. QED
    BY <2>2, <2>3
<1>6. CASE h = 0 /\ g = 0
  <2>1. entry = Returned(UDivSi(n, d), UModSi(n, d))
    BY <1>2, <1>3, <1>5, <1>6 DEF UDivModDiEntry
  <2>2. n \in Words(W) /\ d \in Words(W)
    BY <1>4, <1>5, <1>6
  <2>3. /\ UDivSi(n, d) = (IF d = 0 THEN 0 ELSE n \div d)
        /\ UModSi(n, d) = (IF d = 0 THEN 0 ELSE n % d)
    BY <2>2, UDivSiValue, UModSiValue
  <2>4. QED
    BY <2>1, <2>3 DEF DoubleEntry
<1>7. CASE h = 0 /\ g # 0
  <2>1. entry = Returned(0, n)
    BY <1>2, <1>3, <1>5, <1>7 DEF UDivModDiEntry
  <2>2. n < d
    <3>1. g * M >= M /\ g * M \in Nat
      BY <1>3, <1>7
    <3>2. QED
      BY <3>1, <1>2, <1>3, <1>5, <1>7
  <2>3. n \div d = 0 /\ n % d = n
    BY <1>5, <2>2, Smaller
  <2>4. QED
    BY <1>5, <1>7, <2>1, <2>3 DEF DoubleEntry
<1>8. CASE h # 0 /\ d = 0
  <2>1. entry = Returned(UDivSi(h, 0), UModSi(h, 0))
    BY <1>2, <1>3, <1>5, <1>8 DEF UDivModDiEntry
  <2>2. UDivSi(h, 0) = 0 /\ UModSi(h, 0) = 0
    BY <1>4, UDivSiValue, UModSiValue
  <2>3. QED
    BY <1>8, <2>1, <2>2 DEF DoubleEntry
<1>9. CASE h # 0 /\ l = 0 /\ k = 0 /\ d # 0
  <2>1. entry = Returned(UDivSi(h, g), Double(UModSi(h, g), 0))
    BY <1>2, <1>3, <1>5, <1>9 DEF UDivModDiEntry
  <2>2. g # 0 /\ n = h * M /\ d = g * M
    BY <1>2, <1>3, <1>5, <1>9
  <2>3. PICK q \in Nat, r \in 0 .. g - 1 : q = h \div g /\ r = h % g /\ h = q * g + r
    <3>1. h \in Int /\ h >= 0 /\ g \in Nat \ {0}
      BY <1>2, <1>3, <2>2
    <3>2. h \div g \in Nat /\ h % g \in 0 .. g - 1 /\ h = (h \div g) * g + (h % g)
      BY <3>1, Division
    <3>3. QED
      BY <3>2
  <2>4. entry = Returned(q, r * M)
    <3>1. UDivSi(h, g) = q /\ UModSi(h, g) = r
      BY <1>4, <2>2, <2>3, UDivSiValue, UModSiValue
    <3>2. r * M + 0 = r * M
      BY <2>3
    <3>3. QED
      BY <1>1, <2>1, <3>1, <3>2 DEF Double
  <2>5. Quotients(n, d, q, r * M)
    <3>1. n = q * d + r * M
      <4>1. (q * g + r) * M = q * (g * M) + r * M
        BY <1>3, <2>3
      <4>2. QED
        BY <4>1, <2>2, <2>3
    <3>2. r * M \in 0 .. d - 1
      <4>1. r * M <= (g - 1) * M /\ (g - 1) * M = g * M - M /\ r * M \in Nat
        BY <1>3, <2>3
      <4>2. QED
        BY <4>1, <1>3, <2>2
    <3>3. d # 0 /\ n \in Int
      BY <1>5, <1>9
    <3>4. QED
      BY <1>5, <2>3, <3>1, <3>2, <3>3 DEF Quotients
  <2>6. n \div d = q /\ n % d = r * M
    BY <2>5, QuotientsUnique
  <2>7. QED
    BY <1>9, <2>4, <2>6 DEF DoubleEntry
<1>10. CASE h # 0 /\ l # 0 /\ k = 0 /\ d # 0
  <2>1. entry = DivByHigh(n, d)
    BY <1>2, <1>3, <1>5, <1>10 DEF UDivModDiEntry
  <2>2. QED
    BY <1>2, <1>3, <1>10, <2>1, DivByHighCases
<1>11. CASE h # 0 /\ k # 0 /\ g = 0
  <2>1. entry = DivByLow(n, d, u)
    BY <1>2, <1>3, <1>5, <1>11 DEF UDivModDiEntry
  <2>2. QED
    BY <1>2, <1>3, <1>11, <2>1, DivByLowCases
<1>12. CASE h # 0 /\ k # 0 /\ g # 0
  <2>1. entry = DivByBoth(n, d, u)
    BY <1>2, <1>3, <1>5, <1>12 DEF UDivModDiEntry
  <2>2. QED
    BY <1>2, <1>3, <1>12, <2>1, DivByBothCases
<1>13. QED
  BY <1>5, <1>6, <1>7, <1>8, <1>9, <1>10, <1>11, <1>12

\* __udivmoddi4 divides double words, and returns zeros for a zero divisor.
THEOREM UDivModDiValue ==
  ASSUME NEW n \in Words(2 * W), NEW d \in Words(2 * W), NEW u \in Words(W)
  PROVE  UDivModDi(n, d, u) = Returned(IF d = 0 THEN 0 ELSE n \div d, IF d = 0 THEN 0 ELSE n % d)
<1> 2 * W \in Nat \ {0}
  BY WordBits
<1>1. PICK entry : entry = UDivModDiEntry(n, d, u)
  OBVIOUS
<1>2. UDivModDi(n, d, u) = IF "quotient" \in DOMAIN entry THEN entry
                           ELSE DivModResult(DivLoop(2 * W, d, entry))
  BY <1>1 DEF UDivModDi
<1>3. CASE entry = Returned(IF d = 0 THEN 0 ELSE n \div d, IF d = 0 THEN 0 ELSE n % d)
  BY <1>2, <1>3 DEF Returned
<1>4. CASE /\ d # 0 /\ DivInv(2 * W, n, d, entry)
           /\ entry = [q |-> entry.q, r |-> entry.r, carry |-> 0, sr |-> entry.sr]
  <2>1. "quotient" \notin DOMAIN entry
    BY <1>4
  <2>2. DivInv(2 * W, n, d, DivLoop(2 * W, d, entry)) /\ DivLoop(2 * W, d, entry).sr = 0
    BY <1>4, DivLoopResult
  <2>3. DivModResult(DivLoop(2 * W, d, entry)) = Returned(n \div d, n % d)
    BY <2>2, DivEnd DEF DivModResult
  <2>4. QED
    BY <1>2, <1>4, <2>1, <2>3
<1>5. QED
  BY <1>1, <1>3, <1>4, UDivModDiEntryCases DEF DoubleEntry
=============================================================================
