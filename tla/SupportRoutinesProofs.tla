----------------------- MODULE SupportRoutinesProofs ------------------------
(* The other routines of system.c, multiplication and signed division, and  *)
(* the steps of a call: they keep an invariant that holds what every loop is*)
(* to keep and what is to be returned, for every width and all arguments.   *)
EXTENDS SupportRoutines, SoftDivisionProofs

-----------------------------------------------------------------------------
(* __mulsi3.                                                                *)

\* An iteration of __mulsi3 on numbers, when the lowest bit of a is 0
LEMMA MulStepEven ==
  ASSUME NEW M \in Nat \ {0}, NEW x \in Int, NEW y \in Int, NEW z \in Int, NEW h \in Int,
         NEW u \in Int,
         NEW j \in Int, x = 2 * h, y * 2 = j * M + u
  PROVE  (h * u + z) % M = (x * y + z) % M
<1>1. u = 2 * y - j * M
  OBVIOUS
<1>2. h * u = x * y - (h * j) * M
  <2>1. h * (2 * y - j * M) = (2 * h) * y - (h * j) * M
    OBVIOUS
  <2>2. QED
    BY <1>1, <2>1
<1>3. PICK p \in Int, q \in Int, r \in Int : p = h * u /\ q = x * y /\ r = h * j
  OBVIOUS
<1>4. p = q - r * M
  BY <1>2, <1>3
<1>5. p + z = q + z + (-r) * M /\ -r \in Int /\ p + z \in Int /\ q + z \in Int
  BY <1>4
<1>6. (p + z) % M = (q + z) % M
  <2>1. PICK A \in Int, B \in Int, K \in Int : A = p + z /\ B = q + z /\ K = -r
    BY <1>5
  <2>2. Multiples(A, B, K, M)
    BY <1>5, <2>1 DEF Multiples
  <2>3. A % M = B % M
    BY <2>2, Congruent
  <2>4. QED
    BY <2>1, <2>3
<1>7. QED
  BY <1>3, <1>6

\* and when it is 1.
LEMMA MulStepOdd ==
  ASSUME NEW M \in Nat \ {0}, NEW x \in Int, NEW y \in Int, NEW z \in Int, NEW h \in Int,
         NEW u \in Int,
         NEW v \in Int, NEW j \in Int, NEW k \in Int,
         x = 2 * h + 1, y * 2 = j * M + u, z + y = k * M + v
  PROVE  (h * u + v) % M = (x * y + z) % M
<1>1. u = 2 * y - j * M /\ v = z + y - k * M
  OBVIOUS
<1>2. h * u = (2 * h) * y - (h * j) * M
  <2>1. h * (2 * y - j * M) = (2 * h) * y - (h * j) * M
    OBVIOUS
  <2>2. QED
    BY <1>1, <2>1
<1>3. (2 * h + 1) * y = (2 * h) * y + y
  OBVIOUS
<1>4. PICK p \in Int, q \in Int, r \in Int : p = h * u /\ q = x * y /\ r = h * j
  OBVIOUS
<1>5. p = q - y - r * M
  BY <1>2, <1>3, <1>4
<1>6. p + v = q + z + (-r - k) * M
  BY <1>1, <1>5
<1>7. -r - k \in Int /\ p + v \in Int /\ q + z \in Int
  OBVIOUS
<1>8. (p + v) % M = (q + z) % M
  <2>1. PICK A \in Int, B \in Int, K \in Int : A = p + v /\ B = q + z /\ K = -r - k
    BY <1>7
  <2>2. Multiples(A, B, K, M)
    BY <1>6, <2>1 DEF Multiples
  <2>3. A % M = B % M
    BY <2>2, Congruent
  <2>4. QED
    BY <2>1, <2>3
<1>9. QED
  BY <1>4, <1>8

\* registers of __mulsi3
MulStates(w) == [a : Words(w), b : Words(w), res : Words(w)]

\* An iteration leaves words in the registers, keeps what is added and still to be added,
\* and makes a smaller.
LEMMA MulStepTypes ==
  ASSUME NEW w \in Nat \ {0}, NEW s \in [a : Words(w), b : Words(w), res : Words(w)]
  PROVE  /\ MulStep(w, s) \in [a : Words(w), b : Words(w), res : Words(w)]
         /\ (MulStep(w, s).a * MulStep(w, s).b + MulStep(w, s).res) % 2^w
              = (s.a * s.b + s.res) % 2^w
         /\ s.a # 0 => MulStep(w, s).a < s.a
<1>1. PICK M \in Nat \ {0} : M = 2^w
  BY PowPositive
<1>2. PICK x \in 0 .. M - 1, y \in 0 .. M - 1, z \in 0 .. M - 1 : x = s.a /\ y = s.b /\ z = s.res
  BY <1>1 DEF Words
<1>3. PICK h \in Nat, e \in {0, 1} : x = 2 * h + e /\ h = x \div 2 /\ e = x % 2
  BY <1>2
<1>4. PICK j \in Int : \E r \in 0 .. M - 1 : y * 2 = j * M + r /\ r = (y * 2) % M
  <2>1. y * 2 \in Int
    BY <1>2
  <2>2. QED
    BY <2>1, Modulus
<1>5. PICK k \in Int : \E r \in 0 .. M - 1 : z + y = k * M + r /\ r = (z + y) % M
  <2>1. z + y \in Int
    BY <1>2
  <2>2. QED
    BY <2>1, Modulus
<1>u. PICK u \in 0 .. M - 1 : y * 2 = j * M + u /\ u = (y * 2) % M
  BY <1>4
<1>v. PICK v \in 0 .. M - 1 : z + y = k * M + v /\ v = (z + y) % M
  BY <1>5
<1>6. MulStep(w, s) = [a |-> h, b |-> u, res |-> IF e = 1 THEN v ELSE z]
  <2>1. 2^1 = 2
    OBVIOUS
  <2>2. Shr(s.a, 1) = h /\ Shl(w, s.b, 1) = u /\ Wrap(w, s.res + s.b) = v
    BY <1>1, <1>2, <1>3, <1>u, <1>v, <2>1 DEF Shr, Shl, Wrap
  <2>3. QED
    BY <1>2, <1>3, <2>2 DEF MulStep
<1>7. (h * u + IF e = 1 THEN v ELSE z) % M = (x * y + z) % M
  <2>1. x \in Int /\ y \in Int /\ z \in Int /\ h \in Int /\ u \in Int /\ v \in Int
    BY <1>2, <1>3, <1>u, <1>v
  <2>2. CASE e = 1
    <3>1. x = 2 * h + 1 /\ y * 2 = j * M + u /\ z + y = k * M + v
      BY <2>2, <1>3, <1>u, <1>v
    <3>2. (h * u + v) % M = (x * y + z) % M
      BY <2>1, <3>1, MulStepOdd
    <3>3. QED
      BY <2>2, <3>2
  <2>3. CASE e = 0
    <3>1. x = 2 * h /\ y * 2 = j * M + u
      BY <2>3, <1>3, <1>u
    <3>2. (h * u + z) % M = (x * y + z) % M
      BY <2>1, <3>1, MulStepEven
    <3>3. QED
      BY <2>3, <3>2
  <2>4. QED
    BY <1>3, <2>2, <2>3
<1>8. h \in 0 .. M - 1 /\ (x # 0 => h < x)
  BY <1>2, <1>3
<1>9. h \in Words(w) /\ u \in Words(w) /\ (IF e = 1 THEN v ELSE z) \in Words(w)
  BY <1>1, <1>2, <1>u, <1>v, <1>8 DEF Words
<1>10. QED
  BY <1>1, <1>2, <1>6, <1>7, <1>8, <1>9

\* The loop as a function satisfies its equation.
LEMMA MulSiUnfolds ==
  ASSUME NEW w \in Nat \ {0}
  PROVE  \E loop :
           /\ \A s \in MulStates(w) : loop[s] = IF s.a = 0 THEN s.res ELSE loop[MulStep(w, s)]
           /\ \A x, y : MulSi(w, x, y) = loop[MulStart(x, y)]
<1> DEFINE S == MulStates(w)
           loop[s \in S] == IF s.a = 0 THEN s.res ELSE loop[MulStep(w, s)]
<1>1. \A x, y : MulSi(w, x, y) = loop[MulStart(x, y)]
  BY DEF MulSi, MulStates
<1> DEFINE stop == {s \in S : s.a = 0}
           m == [s \in S |-> s.a]
           step == [s \in S |-> MulStep(w, s)]
           val == [s \in S |-> s.res]
<1>2. 2^w \in Nat
  BY PowPositive
<1>3. Measured(S, 2^w, m, stop, step) /\ val \in [S -> Words(w)]
  <2>1. \A s \in S : s.a \in 0 .. 2^w /\ s.res \in Words(w)
    BY <1>2 DEF MulStates, Words
  <2>2. \A s \in S : MulStep(w, s) \in S /\ (s.a # 0 => MulStep(w, s).a < s.a)
    BY MulStepTypes DEF MulStates
  <2> HIDE DEF S
  <2>3. \A s \in S : m[s] = s.a /\ step[s] = MulStep(w, s)
    OBVIOUS
  <2>4. m \in [S -> 0 .. 2^w] /\ step \in [S -> S] /\ val \in [S -> Words(w)]
    BY <2>1, <2>2
  <2>5. \A s \in S \ stop : m[step[s]] < m[s]
    BY <2>2, <2>3
  <2>6. QED
    BY <1>2, <2>4, <2>5 DEF Measured
<1>4. PICK f : Solves(f, S, Words(w), stop, step, val)
  <2> HIDE DEF S, stop, m, step, val
  <2>1. QED
    BY <1>3, MeasuredRecursion
<1>5. f \in [S -> Words(w)] /\ \A s \in S : f[s] = IF s.a = 0 THEN s.res ELSE f[MulStep(w, s)]
  BY <1>4 DEF Solves
<1> DEFINE P(g) == g = [s \in S |-> IF s.a = 0 THEN s.res ELSE g[MulStep(w, s)]]
<1>6. P(loop)
  <2>1. loop = CHOOSE g : P(g)
    OBVIOUS
  <2>2. P(f)
    <3> HIDE DEF S
    <3>1. QED
      BY <1>5
  <2>3. QED
    <3> HIDE DEF P, loop
    <3>1. QED
      BY <2>1, <2>2, Zenon
<1>7. \A s \in S : loop[s] = IF s.a = 0 THEN s.res ELSE loop[MulStep(w, s)]
  <2> HIDE DEF loop, S
  <2>1. QED
    BY <1>6
<1>8. QED
  <2> HIDE DEF loop
  <2>1. QED
    BY <1>1, <1>7

\* __mulsi3 multiplies, modulo 2^w.
THEOREM MulSiValue ==
  ASSUME NEW w \in Nat \ {0}, NEW x \in Words(w), NEW y \in Words(w)
  PROVE  MulSi(w, x, y) = (x * y) % 2^w
<1>1. PICK loop :
        /\ \A s \in MulStates(w) : loop[s] = IF s.a = 0 THEN s.res ELSE loop[MulStep(w, s)]
        /\ \A u, v : MulSi(w, u, v) = loop[MulStart(u, v)]
  BY MulSiUnfolds
<1> DEFINE Value(s) == (s.a * s.b + s.res) % 2^w
           S == {k \in Nat : \A s \in MulStates(w) : s.a <= k => loop[s] = Value(s)}
<1>2. PICK M \in Nat \ {0} : M = 2^w
  BY PowPositive
<1>3. \A s \in MulStates(w) : s.a \in 0 .. M - 1 /\ s.b \in 0 .. M - 1 /\ s.res \in 0 .. M - 1
  BY <1>2 DEF MulStates, Words
<1>4. ASSUME NEW s \in MulStates(w), s.a = 0 PROVE loop[s] = Value(s)
  <2>1. loop[s] = s.res
    BY <1>1, <1>4
  <2>2. PICK r \in 0 .. M - 1, t \in Int : r = s.res /\ t = s.b
    BY <1>3
  <2>3. 0 * t + r = r /\ r % M = r
    BY <2>2
  <2>4. QED
    BY <1>2, <1>4, <2>1, <2>2, <2>3
<1>5. 0 \in S
  <2>1. \A s \in MulStates(w) : s.a <= 0 => s.a = 0
    BY <1>3
  <2> HIDE DEF Value
  <2>2. QED
    BY <1>4, <2>1
<1>6. ASSUME NEW k \in Nat, k \in S PROVE k + 1 \in S
  <2>1. ASSUME NEW s \in MulStates(w), s.a <= k + 1 PROVE loop[s] = Value(s)
    <3>1. CASE s.a = 0
      BY <1>4, <3>1
    <3>2. CASE s.a # 0
      <4>1. loop[s] = loop[MulStep(w, s)]
        BY <1>1, <3>2
      <4>2. /\ MulStep(w, s) \in MulStates(w) /\ Value(MulStep(w, s)) = Value(s)
            /\ MulStep(w, s).a < s.a
        BY <3>2, MulStepTypes DEF MulStates
      <4>3. MulStep(w, s).a <= k
        BY <1>3, <2>1, <4>2
      <4> HIDE DEF Value
      <4>4. QED
        BY <1>6, <4>1, <4>2, <4>3
    <3>3. QED
      BY <3>1, <3>2
  <2>2. QED
    BY <2>1
<1>7. Nat \subseteq S
  <2> HIDE DEF S
  <2>1. QED
    BY <1>5, <1>6, SetInduction
<1>8. MulStart(x, y) \in MulStates(w) /\ MulStart(x, y) = [a |-> x, b |-> y, res |-> 0]
  <2>1. 0 \in Words(w)
    BY <1>2 DEF Words
  <2>2. QED
    BY <2>1 DEF MulStart, MulStates
<1>9. x \in Nat /\ y \in Nat
  BY <1>2 DEF Words
<1>10. loop[MulStart(x, y)] = Value(MulStart(x, y))
  <2>1. MulStart(x, y).a = x
    BY <1>8
  <2>2. QED
    BY <1>7, <1>8, <1>9, <2>1
<1>11. Value(MulStart(x, y)) = (x * y) % 2^w
  <2>1. x * y + 0 = x * y
    BY <1>9
  <2>2. QED
    BY <1>8, <2>1
<1>12. QED
  BY <1>1, <1>10, <1>11

-----------------------------------------------------------------------------
(* Signed division.                                                         *)

\* Reading a word as a signed number: its sign bit is the sign, and __divsi3's magnitude
\* is the magnitude, that of the most negative number included.
LEMMA SignedValue ==
  ASSUME NEW w \in Nat \ {0}, NEW x \in Words(w)
  PROVE  /\ Negative(w, x) <=> Signed(w, x) < 0
         /\ Signed(w, x) \in Int
         /\ Abs(w, x) = IF Signed(w, x) < 0 THEN -Signed(w, x) ELSE Signed(w, x)
         /\ Abs(w, x) \in Words(w)
         /\ Abs(w, x) = 0 <=> x = 0
<1>1. PICK M \in Nat \ {0}, H \in Nat \ {0} : M = 2^w /\ H = 2^(w - 1) /\ M = 2 * H
  BY PowDown
<1>2. x \in 0 .. M - 1
  BY <1>1 DEF Words
<1>3. x % M = x
  BY <1>2
<1>4. Negative(w, x) <=> x >= H
  BY <1>1, <1>3 DEF Negative, Wrap
<1>5. Signed(w, x) = IF x >= H THEN x - M ELSE x
  BY <1>1, <1>4 DEF Signed
<1>6. x >= H => (-x) % M = M - x
  BY <1>1, <1>2
<1>7. Abs(w, x) = IF x >= H THEN M - x ELSE x
  BY <1>1, <1>4, <1>6 DEF Abs, Negate, Wrap
<1>8. QED
  BY <1>1, <1>2, <1>4, <1>5, <1>7 DEF Words

\* what a signed division is to return
SignedQuotient(w, x, y) == IF y = 0 THEN 0 ELSE Wrap(w, Quotient(Signed(w, x), Signed(w, y)))

\* The quotient of the magnitudes with the sign put back is it.
LEMMA SignFixValue ==
  ASSUME NEW w \in Nat \ {0}, NEW x \in Words(w), NEW y \in Words(w), NEW q,
         q = IF Abs(w, y) = 0 THEN 0 ELSE Abs(w, x) \div Abs(w, y)
  PROVE  SignFix(w, x, y, q) = SignedQuotient(w, x, y)
<1>1. PICK M \in Nat \ {0} : M = 2^w
  BY PowPositive
<1>2. PICK X \in Int, Y \in Int, u \in 0 .. M - 1, v \in 0 .. M - 1 :
        /\ X = Signed(w, x) /\ Y = Signed(w, y) /\ u = Abs(w, x) /\ v = Abs(w, y)
        /\ Negative(w, x) <=> X < 0
        /\ Negative(w, y) <=> Y < 0
        /\ u = (IF X < 0 THEN -X ELSE X) /\ v = (IF Y < 0 THEN -Y ELSE Y)
        /\ v = 0 <=> y = 0
  <2>1. /\ Signed(w, x) \in Int /\ Signed(w, y) \in Int /\ Abs(w, x) \in 0 .. M - 1
        /\ Abs(w, y) \in 0 .. M - 1
    BY <1>1, SignedValue DEF Words
  <2>2. QED
    BY <2>1, SignedValue
<1>3. CASE y = 0
  <2>1. q = 0
    BY <1>2, <1>3
  <2>2. (-0) % M = 0
    OBVIOUS
  <2>3. SignFix(w, x, y, q) = 0
    BY <1>1, <2>1, <2>2 DEF SignFix, Negate, Wrap
  <2>4. QED
    BY <1>3, <2>3 DEF SignedQuotient
<1>4. CASE y # 0
  <2>1. v \in Nat \ {0} /\ q = u \div v
    BY <1>2, <1>4
  <2>2. q \in Nat /\ q < M
    <3>1. PICK Q \in Nat : Q = u \div v /\ u = Q * v + (u % v) /\ u % v \in Nat
      <4>1. u \in Int /\ u >= 0
        OBVIOUS
      <4>2. u \div v \in Nat /\ u % v \in 0 .. v - 1 /\ u = (u \div v) * v + (u % v)
        BY <2>1, <4>1, Division
      <4>3. QED
        BY <2>1, <4>2
    <3>2. Q * v >= Q /\ Q * v \in Nat
      BY <2>1
    <3>3. QED
      BY <2>1, <3>1, <3>2
  <2>3. q % M = q
    BY <2>2
  <2>4. Quotient(X, Y) = IF (X < 0) = (Y < 0) THEN q ELSE -q
    <3> DEFINE m(z) == IF z < 0 THEN -z ELSE z
    <3>1. Quotient(X, Y) = IF (X < 0) = (Y < 0) THEN m(X) \div m(Y) ELSE -(m(X) \div m(Y))
      BY DEF Quotient
    <3>2. m(X) = u /\ m(Y) = v
      BY <1>2
    <3> HIDE DEF m
    <3>3. m(X) \div m(Y) = q
      BY <2>1, <3>2
    <3>4. QED
      BY <3>1, <3>3
  <2>5. SignFix(w, x, y, q) = IF (X < 0) = (Y < 0) THEN q ELSE (-q) % M
    <3>1. (Negative(w, x) # Negative(w, y)) <=> ((X < 0) # (Y < 0))
      BY <1>2 DEF Negative
    <3>2. (Negative(w, x) # Negative(w, y)) => SignFix(w, x, y, q) = (-q) % M
      BY <1>1 DEF SignFix, Negate, Wrap
    <3>3. ~(Negative(w, x) # Negative(w, y)) => SignFix(w, x, y, q) = q
      BY DEF SignFix
    <3>4. QED
      BY <3>1, <3>2, <3>3
  <2>6. SignedQuotient(w, x, y) = Quotient(X, Y) % M
    BY <1>1, <1>2, <1>4 DEF SignedQuotient, Wrap
  <2>7. QED
    BY <2>3, <2>4, <2>5, <2>6
<1>5. QED
  BY <1>3, <1>4

\* __divsi3 divides signed words, rounding to zero,
THEOREM DivSiValue ==
  ASSUME NEW x \in Words(W), NEW y \in Words(W)
  PROVE  DivSi(x, y) = SignedQuotient(W, x, y)
<1> W \in Nat \ {0}
  BY WordBits
<1>1. Abs(W, x) \in Words(W) /\ Abs(W, y) \in Words(W)
  BY SignedValue
<1>2. UDivSi(Abs(W, x), Abs(W, y)) = IF Abs(W, y) = 0 THEN 0 ELSE Abs(W, x) \div Abs(W, y)
  BY <1>1, UDivSiValue
<1>3. QED
  BY <1>2, SignFixValue DEF DivSi

\* and __divdi3 signed double words.
THEOREM DivDiValue ==
  ASSUME NEW x \in Words(2 * W), NEW y \in Words(2 * W), NEW u \in Words(W)
  PROVE  DivDi(x, y, u) = SignedQuotient(2 * W, x, y)
<1> 2 * W \in Nat \ {0}
  BY WordBits
<1>1. Abs(2 * W, x) \in Words(2 * W) /\ Abs(2 * W, y) \in Words(2 * W)
  BY SignedValue
<1>2. UDivDi(Abs(2 * W, x), Abs(2 * W, y), u) =
        IF Abs(2 * W, y) = 0 THEN 0 ELSE Abs(2 * W, x) \div Abs(2 * W, y)
  <2>1. UDivModDi(Abs(2 * W, x), Abs(2 * W, y), u).quotient =
          IF Abs(2 * W, y) = 0 THEN 0 ELSE Abs(2 * W, x) \div Abs(2 * W, y)
    BY <1>1, UDivModDiValue DEF Returned
  <2>2. QED
    BY <2>1 DEF UDivDi
<1>3. QED
  BY <1>2, SignFixValue DEF DivDi

-----------------------------------------------------------------------------
(* __muldi3: half words and half double words.                              *)

\* M words, H half words
SquareOf(M, H) == H \in Nat \ {0} /\ M \in Nat \ {0} /\ M = H * H

\* the halves of a word
Halved(x, H, h, l) == x = h * H + l /\ h = x \div H /\ l = x % H

\* The product of half words is below a word, with a half word added as well.
LEMMA HalfProduct ==
  ASSUME NEW M, NEW H, SquareOf(M, H), NEW x \in 0 .. H - 1, NEW y \in 0 .. H - 1,
         NEW z \in 0 .. H - 1
  PROVE  x * y \in Nat /\ z + x * y < M
<1> USE DEF SquareOf
<1>1. x * y <= (H - 1) * y /\ (H - 1) * y <= (H - 1) * (H - 1)
  OBVIOUS
<1>2. (H - 1) * (H - 1) = H * H - 2 * H + 1
  OBVIOUS
<1>3. x * y \in Nat /\ H * H \in Nat /\ (H - 1) * y \in Nat
  OBVIOUS
<1>4. QED
  BY <1>1, <1>2, <1>3

\* A word has halves.
LEMMA HalvesOfWord ==
  ASSUME NEW M, NEW H, SquareOf(M, H), NEW x \in 0 .. M - 1
  PROVE  \E h \in 0 .. H - 1, l \in 0 .. H - 1 : Halved(x, H, h, l)
<1> USE DEF SquareOf
<1>1. x \in Int /\ x >= 0 /\ x < H * H /\ H * H \in Nat
  OBVIOUS
<1>2. x \div H \in Nat /\ x % H \in 0 .. H - 1 /\ x = (x \div H) * H + (x % H)
  BY <1>1, Division
<1>3. PICK h \in Nat, l \in 0 .. H - 1 : h = x \div H /\ l = x % H /\ x = h * H + l
  BY <1>2
<1>4. h < H
  <2> SUFFICES ASSUME h >= H PROVE FALSE
    BY <1>3
  <2>1. h * H >= H * H /\ h * H \in Nat
    BY <1>3
  <2>2. QED
    BY <2>1, <1>1, <1>3
<1>5. QED
  BY <1>3, <1>4 DEF Halved

\* Products of sums and of differences.
LEMMA Distribute ==
  \A x, y, z \in Int : (x + y) * z = x * z + y * z /\ (x - y) * z = x * z - y * z
OBVIOUS

\* A product from the products of the halves.
LEMMA Schoolbook ==
  \A H, h, l, i, k \in Int :
    (h * H + l) * (i * H + k) = (h * i) * (H * H) + (h * k) * H + (i * l) * H + l * k
<1> SUFFICES ASSUME NEW H \in Int, NEW h \in Int, NEW l \in Int, NEW i \in Int, NEW k \in Int
             PROVE  (h * H + l) * (i * H + k)
                      = (h * i) * (H * H) + (h * k) * H + (i * l) * H + l * k
  OBVIOUS
<1>1. (h * H + l) * (i * H + k) = h * H * (i * H + k) + l * (i * H + k)
  OBVIOUS
<1>2. h * H * (i * H + k) = (h * i) * (H * H) + (h * k) * H
  OBVIOUS
<1>3. l * (i * H + k) = (i * l) * H + l * k
  OBVIOUS
<1>4. QED
  BY <1>1, <1>2, <1>3

\* products of halves, each with the carry of the one before
Carried(H, h, l, i, k, ph, pl, sh, sl, th, tl) ==
  /\ H \in Int /\ h \in Int /\ l \in Int /\ i \in Int /\ k \in Int
  /\ ph \in Int /\ pl \in Int /\ sh \in Int /\ sl \in Int /\ th \in Int /\ tl \in Int
  /\ l * k = ph * H + pl
  /\ ph + h * k = sh * H + sl
  /\ sl + i * l = th * H + tl

\* The four products of the halves, added as __muldsi3 does, make the product.
LEMMA CarriedProduct ==
  ASSUME NEW H, NEW h, NEW l, NEW i, NEW k, NEW ph, NEW pl, NEW sh, NEW sl, NEW th, NEW tl,
         Carried(H, h, l, i, k, ph, pl, sh, sl, th, tl)
  PROVE  (h * H + l) * (i * H + k) = (h * i + sh + th) * (H * H) + (tl * H + pl)
<1>1. /\ H \in Int /\ h \in Int /\ l \in Int /\ i \in Int /\ k \in Int
      /\ ph \in Int /\ pl \in Int /\ sh \in Int /\ sl \in Int /\ th \in Int /\ tl \in Int
  BY DEF Carried
<1>2. PICK Z \in Int, S \in Int, T \in Int, P \in Int, Q \in Int :
        Z = h * i /\ S = h * k /\ T = i * l /\ P = l * k /\ Q = H * H
  BY <1>1
<1>3. PICK A \in Int, B \in Int, C \in Int, D \in Int, E \in Int, I \in Int, J \in Int, K \in Int :
        /\ A = sl * H /\ B = ph * H /\ C = tl * H /\ D = sh * Q
        /\ E = th * Q /\ I = sh * H /\ J = th * H /\ K = Z * Q
  BY <1>1, <1>2
<1>4. S = I + sl - ph /\ T = J + tl - sl /\ P = B + pl
  <2>1. ph + S = I + sl /\ sl + T = J + tl /\ P = B + pl
    BY <1>2, <1>3 DEF Carried
  <2>2. QED
    BY <1>1, <2>1
<1>5. I * H = D /\ J * H = E
  BY <1>1, <1>2, <1>3, Factors
<1>6. S * H = D + A - B
  <2>1. (I + sl) * H = I * H + sl * H
    BY <1>1, Distribute
  <2>2. ((I + sl) - ph) * H = (I + sl) * H - ph * H
    <3>1. I + sl \in Int
      BY <1>1
    <3>2. QED
      BY <1>1, <3>1, Distribute
  <2>3. S = (I + sl) - ph
    BY <1>1, <1>4
  <2>4. S * H = ((I + sl) - ph) * H
    BY <2>3, Zenon
  <2>5. S * H = (D + A) - B
    BY <1>3, <1>5, <2>1, <2>2, <2>4
  <2>6. QED
    BY <2>5
<1>7. T * H = E + C - A
  <2>1. (J + tl) * H = J * H + tl * H
    BY <1>1, Distribute
  <2>2. ((J + tl) - sl) * H = (J + tl) * H - sl * H
    <3>1. J + tl \in Int
      BY <1>1
    <3>2. QED
      BY <1>1, <3>1, Distribute
  <2>3. T = (J + tl) - sl
    BY <1>1, <1>4
  <2>4. T * H = ((J + tl) - sl) * H
    BY <2>3, Zenon
  <2>5. T * H = (E + C) - A
    BY <1>3, <1>5, <2>1, <2>2, <2>4
  <2>6. QED
    BY <2>5
<1>8. (h * H + l) * (i * H + k) = K + S * H + T * H + P
  BY <1>1, <1>2, <1>3, Schoolbook
<1>9. (Z + sh + th) * Q = K + D + E
  <2>1. (Z + sh) * Q = Z * Q + sh * Q
    BY <1>1, Distribute
  <2>2. ((Z + sh) + th) * Q = (Z + sh) * Q + th * Q
    <3>1. Z + sh \in Int
      BY <1>1
    <3>2. QED
      BY <1>1, <3>1, Distribute
  <2>3. QED
    BY <1>3, <2>1, <2>2
<1>10. K + S * H + T * H + P = K + D + E + (C + pl)
  BY <1>1, <1>4, <1>6, <1>7
<1>11. QED
  BY <1>2, <1>3, <1>8, <1>9, <1>10

\* Half words are multiplied without loss.
LEMMA ExactProduct ==
  ASSUME NEW H, SquareOf(2^W, H), NEW x \in 0 .. H - 1, NEW y \in 0 .. H - 1
  PROVE  Low(MulSi(2 * W, x, y)) = x * y
<1> 2 * W \in Nat \ {0}
  BY WordBits
<1>1. PICK M \in Nat \ {0} : M = 2^W /\ 2^(2 * W) = M * M
  BY Square
<1>2. x * y \in Nat /\ x * y < M
  <2>1. 0 \in 0 .. H - 1
    BY DEF SquareOf
  <2>2. 0 + x * y < M /\ x * y \in Nat
    BY <1>1, <2>1, HalfProduct
  <2>3. QED
    BY <2>2
<1>3. H <= M /\ M <= M * M
  BY <1>1 DEF SquareOf
<1>4. x \in Words(2 * W) /\ y \in Words(2 * W)
  <2>1. H \in Int /\ M * M \in Int
    BY DEF SquareOf
  <2>2. QED
    BY <1>1, <1>3, <2>1 DEF Words
<1>5. MulSi(2 * W, x, y) = (x * y) % (M * M)
  BY <1>1, <1>4, MulSiValue
<1>6. PICK p \in Nat : p = x * y /\ p < M
  BY <1>2
<1>7. p % (M * M) = p /\ p % M = p
  <2>1. PICK S \in Nat \ {0} : S = M * M /\ p < S
    BY <1>3, <1>6
  <2>2. p % S = p /\ p % M = p
    BY <1>6, <2>1
  <2>3. QED
    BY <2>1, <2>2
<1>8. QED
  BY <1>1, <1>5, <1>6, <1>7 DEF Low

\* __muldsi3 is the whole product of two words.
LEMMA MulDsiValue ==
  ASSUME NEW x \in Words(W), NEW y \in Words(W)
  PROVE  MulDsi(x, y) = x * y
<1> DEFINE half == W \div 2
<1>1. half \in Nat /\ half + half = W
  BY WordBits
<1>2. PICK H \in Nat \ {0}, M \in Nat \ {0} : H = 2^half /\ M = 2^W /\ SquareOf(M, H)
  <2>1. 2^(half + half) = 2^half * 2^half /\ 2^half \in Nat \ {0} /\ 2^W \in Nat \ {0}
    BY <1>1, PowAdd, PowPositive
  <2>2. SquareOf(2^W, 2^half)
    BY <1>1, <2>1 DEF SquareOf
  <2>3. QED
    BY <2>1, <2>2
<1> HIDE DEF half
<1>h. \A v : v \in 0 .. M - 1 => \E h \in 0 .. H - 1, l \in 0 .. H - 1 : Halved(v, H, h, l)
  BY <1>2, HalvesOfWord
<1>3. PICK h \in 0 .. H - 1, l \in 0 .. H - 1 : Halved(x, H, h, l)
  BY <1>h, <1>2 DEF Words
<1>4. PICK i \in 0 .. H - 1, k \in 0 .. H - 1 : Halved(y, H, i, k)
  BY <1>h, <1>2 DEF Words
<1>5. /\ l * k \in Nat /\ h * k \in Nat /\ i * l \in Nat /\ h * i \in Nat
      /\ \A e \in 0 .. H - 1 : e + l * k < M /\ e + h * k < M /\ e + i * l < M
  <2>1. 0 \in 0 .. H - 1
    OBVIOUS
  <2>2. \A u, v, e \in 0 .. H - 1 : u * v \in Nat /\ e + u * v < M
    BY <1>2, HalfProduct
  <2>3. QED
    BY <2>1, <2>2
<1>6. PICK p \in Nat, s \in Nat, t \in Nat, z \in Nat :
        /\ p = l * k /\ s = h * k /\ t = i * l /\ z = h * i
        /\ p < M /\ \A e \in 0 .. H - 1 : e + s < M /\ e + t < M
  <2>1. 0 \in 0 .. H - 1
    OBVIOUS
  <2>2. 0 + l * k < M
    BY <1>5, <2>1
  <2>3. l * k < M
    BY <1>5, <2>2
  <2>4. QED
    BY <1>5, <2>3
\* the low product, and the two sums of a crossed product and a carry
<1>7. PICK ph \in 0 .. H - 1, pl \in 0 .. H - 1 : Halved(p, H, ph, pl)
  <2>1. p \in 0 .. M - 1
    BY <1>6
  <2>2. QED
    BY <1>h, <2>1
<1>8. PICK sh \in 0 .. H - 1, sl \in 0 .. H - 1 : Halved(ph + s, H, sh, sl)
  <2>1. ph + s \in 0 .. M - 1
    BY <1>6, <1>7
  <2>2. QED
    BY <1>h, <2>1
<1>9. PICK th \in 0 .. H - 1, tl \in 0 .. H - 1 : Halved(sl + t, H, th, tl)
  <2>1. sl + t \in 0 .. M - 1
    BY <1>6, <1>8
  <2>2. QED
    BY <1>h, <2>1
<1>10. x * y = (z + sh + th) * M + (tl * H + pl)
  <2>1. /\ H \in Int /\ h \in Int /\ l \in Int /\ i \in Int /\ k \in Int
        /\ ph \in Int /\ pl \in Int /\ sh \in Int /\ sl \in Int /\ th \in Int /\ tl \in Int
    OBVIOUS
  <2>2. l * k = ph * H + pl /\ ph + h * k = sh * H + sl /\ sl + i * l = th * H + tl
    BY <1>6, <1>7, <1>8, <1>9 DEF Halved
  <2>3. Carried(H, h, l, i, k, ph, pl, sh, sl, th, tl)
    BY <2>1, <2>2 DEF Carried
  <2>4. (h * H + l) * (i * H + k) = (h * i + sh + th) * (H * H) + (tl * H + pl)
    BY <2>3, CarriedProduct
  <2>5. x = h * H + l /\ y = i * H + k /\ M = H * H
    BY <1>2, <1>3, <1>4 DEF Halved, SquareOf
  <2>6. QED
    BY <1>6, <2>4, <2>5, Zenon
<1>11. z + sh + th < M
  <2>1. PICK A \in Nat, B \in Nat : A = z + sh + th /\ B = tl * H + pl
    BY <1>6, <1>7, <1>8, <1>9
  <2>2. SUFFICES ASSUME A >= M PROVE FALSE
    BY <2>1
  <2>3. x \in 0 .. M - 1 /\ y \in 0 .. M - 1
    BY <1>2 DEF Words
  <2>4. SquareOf(M * M, M)
    BY DEF SquareOf
  <2>5. 0 + x * y < M * M
    <3>1. 0 \in 0 .. M - 1
      OBVIOUS
    <3>2. QED
      BY <2>3, <2>4, <3>1, HalfProduct
  <2>6. A * M >= M * M /\ A * M \in Nat /\ M * M \in Nat
    BY <2>1, <2>2
  <2>7. x * y = A * M + B
    BY <1>10, <2>1, Zenon
  <2>8. PICK c \in Nat, e \in Nat : c = A * M /\ e = M * M /\ c >= e
    BY <2>6
  <2>9. 0 + (c + B) < e
    BY <2>5, <2>7, <2>8, Zenon
  <2>10. QED
    BY <2>8, <2>9
<1>12. MulDsi(x, y) = Double(z + sh + th, tl * H + pl)
  <2> DEFINE lo(v) == v % 2^(W \div 2)
             hi(v) == Shr(v, W \div 2)
             product(u, v) == Low(MulSi(2 * W, u, v))
  <2>1. product(l, k) = p /\ product(h, k) = s /\ product(i, l) = t /\ product(h, i) = z
    <3>1. \A u, v \in 0 .. H - 1 : product(u, v) = u * v
      BY <1>2, ExactProduct
    <3> HIDE DEF product
    <3>2. QED
      BY <1>6, <3>1
  <2> HIDE DEF product
  <2>2. \A v, g, f : Halved(v, H, g, f) => lo(v) = f /\ hi(v) = g
    BY <1>2 DEF half, Shr, Halved
  <2> HIDE DEF lo, hi
  <2>3. lo(x) = l /\ hi(x) = h /\ lo(y) = k /\ hi(y) = i
    BY <1>3, <1>4, <2>2
  <2>4. \A v \in Nat : v < M => Low(v) = v
    BY <1>2 DEF Low
  <2>5. \A v \in 0 .. H - 1 : Shl(W, v, half) = v * H
    <3>1. ASSUME NEW v \in 0 .. H - 1 PROVE (v * H) % M = v * H
      <4>1. v * H <= (H - 1) * H /\ (H - 1) * H = H * H - H /\ v * H \in Nat /\ M = H * H
        BY <1>2 DEF SquareOf
      <4>2. PICK e \in Nat : e = v * H /\ e < M
        BY <4>1
      <4>3. e % M = e
        BY <4>2
      <4>4. QED
        BY <4>2, <4>3
    <3>2. QED
      BY <3>1, <1>2 DEF Shl, Wrap
  <2> DEFINE q == product(lo(x), lo(y))
             t1 == Low(hi(q) + product(hi(x), lo(y)))
             low1 == lo(q) + Shl(W, lo(t1), half)
             t2 == Low(hi(low1) + product(hi(y), lo(x)))
             low2 == lo(low1) + Shl(W, lo(t2), half)
  <2>6. MulDsi(x, y) = Double(Low(hi(t1) + hi(t2) + product(hi(x), hi(y))), low2)
    BY DEF MulDsi, half, lo, hi, product
  <2>7. q = p /\ lo(q) = pl /\ hi(q) = ph
    BY <1>7, <2>1, <2>2, <2>3
  <2>8. t1 = ph + s /\ lo(t1) = sl /\ hi(t1) = sh
    <3>1. product(hi(x), lo(y)) = s
      BY <2>1, <2>3
    <3>2. ph + s \in Nat /\ ph + s < M
      BY <1>6, <1>7
    <3>3. t1 = ph + s
      BY <3>1, <3>2, <2>4, <2>7
    <3>4. QED
      BY <3>3, <2>2, <1>8
  <2> HIDE DEF t1, q
  <2>9. low1 = pl + sl * H /\ lo(low1) = pl /\ hi(low1) = sl
    <3>1. low1 = pl + sl * H
      BY <1>8, <2>5, <2>7, <2>8
    <3>2. PICK e \in Int : e = sl * H + pl /\ e = low1
      BY <3>1, <1>7, <1>8
    <3>3. Quotients(e, H, sl, pl)
      BY <3>2, <1>7, <1>8 DEF Quotients
    <3>4. e \div H = sl /\ e % H = pl
      BY <3>3, QuotientsUnique
    <3>5. Halved(low1, H, sl, pl)
      BY <3>2, <3>4 DEF Halved
    <3>6. QED
      BY <2>2, <3>1, <3>5
  <2> HIDE DEF low1
  <2>10. t2 = sl + t /\ lo(t2) = tl /\ hi(t2) = th
    <3>1. product(hi(y), lo(x)) = t
      BY <2>1, <2>3
    <3>2. sl + t \in Nat /\ sl + t < M
      BY <1>6, <1>8
    <3>3. t2 = sl + t
      BY <3>1, <3>2, <2>4, <2>9
    <3>4. QED
      BY <3>3, <2>2, <1>9
  <2> HIDE DEF t2
  <2>11. low2 = tl * H + pl
    <3>1. low2 = pl + tl * H
      BY <1>9, <2>5, <2>9, <2>10
    <3>2. QED
      BY <3>1, <1>7, <1>9
  <2>12. Low(hi(t1) + hi(t2) + product(hi(x), hi(y))) = z + sh + th
    <3>1. hi(t1) + hi(t2) + product(hi(x), hi(y)) = z + sh + th
      <4>1. hi(t1) + hi(t2) + product(hi(x), hi(y)) = sh + th + z
        BY <2>1, <2>3, <2>8, <2>10
      <4>2. QED
        BY <4>1, <1>6, <1>8, <1>9
    <3>2. z + sh + th \in Nat
      BY <1>6, <1>8, <1>9
    <3>3. QED
      BY <3>1, <3>2, <1>11, <2>4
  <2>13. QED
    BY <2>6, <2>11, <2>12
<1>13. QED
  BY <1>2, <1>10, <1>12 DEF Double

\* A word extended by its sign is that word and a multiple of 2^W,
LEMMA SignExtendValue ==
  ASSUME NEW v \in Words(W)
  PROVE  SignExtend(v) \in Words(2 * W) /\ \E j \in Int : SignExtend(v) = v + j * 2^W
<1>1. PICK M \in Nat \ {0} : M = 2^W /\ 2^(2 * W) = M * M
  BY Square
<1>2. v \in 0 .. M - 1 /\ M <= M * M /\ M * M \in Nat
  BY <1>1 DEF Words
<1>3. CASE Negative(W, v)
  <2>1. SignExtend(v) = v + M * M - M
    BY <1>1, <1>3 DEF SignExtend
  <2>2. M # 1
    <3>1. M >= 16
      BY <1>1, Square
    <3>2. QED
      BY <3>1
  <2>3. v + (M - 1) * M = v + M * M - M /\ M - 1 \in Int
    BY <1>2
  <2>4. QED
    BY <1>1, <1>2, <2>1, <2>3 DEF Words
<1>4. CASE ~Negative(W, v)
  <2>1. SignExtend(v) = v /\ v = v + 0 * M
    BY <1>2, <1>4 DEF SignExtend
  <2>2. QED
    BY <1>1, <1>2, <2>1 DEF Words
<1>5. QED
  BY <1>3, <1>4

\* so that a crossed product of __muldi3, of a signed and an unsigned half, differs from
\* that of the unsigned halves by whole words.
LEMMA CrossedProduct ==
  ASSUME NEW v \in Words(W), NEW u \in Words(W)
  PROVE  /\ \E j \in Int : MulSi(2 * W, SignExtend(v), u) = v * u + j * 2^W
         /\ \E j \in Int : MulSi(2 * W, u, SignExtend(v)) = v * u + j * 2^W
<1> 2 * W \in Nat \ {0}
  BY WordBits
<1>1. PICK M \in Nat \ {0} : M = 2^W /\ 2^(2 * W) = M * M
  BY Square
<1>2. PICK s \in Words(2 * W), j \in Int : s = SignExtend(v) /\ s = v + j * M
  BY <1>1, SignExtendValue
<1>3. u \in Int /\ v \in Int /\ s \in Int /\ u \in Words(2 * W)
  <2>1. u \in 0 .. M - 1 /\ v \in 0 .. M - 1 /\ M <= M * M /\ M * M \in Nat
    BY <1>1 DEF Words
  <2>2. QED
    BY <1>1, <2>1 DEF Words
<1>4. /\ MulSi(2 * W, s, u) = (s * u) % (M * M) /\ MulSi(2 * W, u, s) = (u * s) % (M * M)
      /\ u * s = s * u
  BY <1>1, <1>3, MulSiValue
<1>5. PICK S \in Nat \ {0}, p \in Int, o \in Int : S = M * M /\ p = s * u /\ o = v * u
  BY <1>3
<1>6. PICK q \in Int : q = p \div S /\ p = q * S + (p % S)
  BY Division
<1>7. p = o + (j * u) * M
  <2>1. (v + j * M) * u = v * u + (j * M) * u
    BY <1>3
  <2>2. (j * M) * u = (j * u) * M
    BY <1>3, Factors
  <2>3. QED
    BY <1>2, <1>5, <2>1, <2>2
<1>8. p % S = o + (j * u - q * M) * M
  <2>1. q * S = (q * M) * M
    BY <1>5, Factors
  <2>2. PICK A \in Int, B \in Int : A = j * u /\ B = q * M
    BY <1>3
  <2>3. (A - B) * M = A * M - B * M
    BY Distribute
  <2>8. p % S \in 0 .. S - 1
    BY Division
  <2>4. PICK C \in Int, D \in Int, r \in Int : C = A * M /\ D = B * M /\ r = p % S
    <3>1. A * M \in Int /\ B * M \in Int /\ p % S \in Int
      BY <2>8
    <3>2. QED
      BY <3>1
  <2>5. p = o + C /\ p = D + r
    BY <1>6, <1>7, <2>1, <2>2, <2>4
  <2>6. r = o + (C - D)
    BY <2>5
  <2>7. QED
    BY <2>2, <2>3, <2>4, <2>6
<1>9. j * u - q * M \in Int
  BY <1>3
<1>10. QED
  BY <1>1, <1>2, <1>4, <1>5, <1>8, <1>9

\* __muldi3 multiplies double words.
THEOREM MulDiValue ==
  ASSUME NEW x \in Words(2 * W), NEW y \in Words(2 * W)
  PROVE  MulDi(x, y) = (x * y) % 2^(2 * W)
<1>1. PICK M \in Nat \ {0} : M = 2^W /\ 2^(2 * W) = M * M
  BY Square
<1>2. PICK h \in Words(W), l \in Words(W), i \in Words(W), k \in Words(W) :
        /\ h = High(x) /\ l = Low(x) /\ x = h * M + l
        /\ i = High(y) /\ k = Low(y) /\ y = i * M + k
  <2>1. /\ High(x) \in Words(W) /\ Low(x) \in Words(W) /\ x = High(x) * 2^W + Low(x)
        /\ High(y) \in Words(W) /\ Low(y) \in Words(W) /\ y = High(y) * 2^W + Low(y)
    BY Halves
  <2>2. QED
    BY <1>1, <2>1
<1>3. h \in Nat /\ l \in Nat /\ i \in Nat /\ k \in Nat
  BY <1>1, <1>2 DEF Words
<1>4. PICK P \in Nat, S \in Nat, T \in Nat, Z \in Nat :
       P = l * k /\ S = h * k /\ T = i * l /\ Z = h * i
  BY <1>3
<1>5. MulDsi(l, k) = P
  BY <1>2, <1>4, MulDsiValue
<1>6. PICK j \in Int : MulSi(2 * W, SignExtend(h), k) = S + j * M
  <2>1. \E n \in Int : MulSi(2 * W, SignExtend(h), k) = h * k + n * 2^W
    BY CrossedProduct
  <2>2. QED
    BY <2>1, <1>1, <1>4
<1>7. PICK e \in Int : MulSi(2 * W, l, SignExtend(i)) = T + e * M
  <2>1. \E n \in Int : MulSi(2 * W, l, SignExtend(i)) = i * l + n * 2^W
    BY CrossedProduct
  <2>2. QED
    BY <2>1, <1>1, <1>4
<1>8. PICK ph \in Nat, pl \in 0 .. M - 1 : P = ph * M + pl /\ ph = High(P) /\ pl = Low(P)
  <2>1. P \in Int /\ P >= 0
    BY <1>4
  <2>2. P \div M \in Nat /\ P % M \in 0 .. M - 1 /\ P = (P \div M) * M + (P % M)
    BY <2>1, Division
  <2>3. QED
    BY <1>1, <2>2 DEF High, Low
<1>9. PICK q \in Int, m \in 0 .. M - 1 : ph + S + T = q * M + m /\ m = (ph + S + T) % M
  <2>1. ph + S + T \in Int
    BY <1>4, <1>8
  <2>2. QED
    BY <2>1, Modulus
<1>10. MulDi(x, y) = m * M + pl
  <2>1. MulDi(x, y) = Double(Low(ph + (S + j * M) + (T + e * M)), pl)
    BY <1>2, <1>5, <1>6, <1>7, <1>8 DEF MulDi
  <2>2. (ph + (S + j * M) + (T + e * M)) % M = m
    <3>1. PICK A \in Int, B \in Int, C \in Int, D \in Int :
           A = j * M /\ B = e * M /\ C = ph + (S + A) + (T + B) /\ D = ph + S + T
      BY <1>4, <1>8
    <3>2. (j + e) * M = A + B
      BY <3>1, Distribute
    <3>3. C = D + (j + e) * M /\ j + e \in Int
      BY <3>1, <3>2, <1>4, <1>8
    <3>4. Multiples(C, D, j + e, M)
      BY <3>3 DEF Multiples
    <3>5. C % M = D % M
      BY <3>4, Congruent
    <3>6. QED
      BY <3>1, <3>5, <1>9
  <2>3. QED
    BY <1>1, <2>1, <2>2 DEF Double, Low
<1>11. PICK Q \in Nat \ {0} : Q = M * M
  OBVIOUS
<1>12. x * y = (Z + q) * Q + (m * M + pl)
  <2>1. (h * M + l) * (i * M + k) = (h * i) * (M * M) + (h * k) * M + (i * l) * M + l * k
    BY <1>3, Schoolbook
  <2>t. /\ S \in Int /\ T \in Int /\ ph \in Int /\ q \in Int /\ m \in Int /\ Z \in Int /\ P \in Int
        /\ pl \in Int
    BY <1>4, <1>8, <1>9
  <2>2. x * y = Z * Q + S * M + T * M + P
    BY <2>1, <1>2, <1>4, <1>11, Zenon
  <2>3. PICK A \in Int, B \in Int, C \in Int, D \in Int, E \in Int, F \in Int :
          A = S * M /\ B = T * M /\ C = ph * M /\ D = q * M /\ E = m * M /\ F = Z * Q
    <3>1. /\ S * M \in Int /\ T * M \in Int /\ ph * M \in Int /\ q * M \in Int /\ m * M \in Int
          /\ Z * Q \in Int
      BY <2>t
    <3>2. QED
      BY <3>1
  <2>4. C + A + B = D * M + E
    <3>1. (ph + S) * M = C + A
      <4>1. (ph + S) * M = ph * M + S * M
        BY <2>t, Distribute
      <4>2. QED
        BY <2>3, <4>1
    <3>2. ((ph + S) + T) * M = (ph + S) * M + T * M
      <4>1. ph + S \in Int
        BY <1>4, <1>8
      <4>2. QED
        BY <1>4, <4>1, Distribute
    <3>3. (D + m) * M = D * M + m * M
      BY <2>3, <1>9, Distribute
    <3>4. (ph + S) + T = D + m
      BY <1>4, <1>8, <1>9, <2>3
    <3>5. ((ph + S) + T) * M = (D + m) * M
      BY <3>4, Zenon
    <3>6. (C + A) + B = D * M + E
      BY <2>3, <3>1, <3>2, <3>3, <3>5
    <3>7. QED
      BY <3>6
  <2>5. D * M = q * Q
    BY <2>3, <1>9, <1>11, Factors
  <2>6. PICK G \in Int : G = q * Q
    BY <1>9, <1>11
  <2>7. (Z + q) * Q = F + G
    BY <2>3, <2>6, <1>4, <1>9, <1>11, Distribute
  <2>8. x * y = F + A + B + (C + pl)
    <3>1. P = C + pl
      BY <2>3, <1>8
    <3>2. QED
      BY <2>2, <2>3, <3>1, Zenon
  <2>9. x * y = (F + G) + (E + pl)
    <3>1. C + A + B = G + E
      BY <2>4, <2>5, <2>6
    <3>2. QED
      BY <2>3, <2>6, <2>8, <2>t, <3>1
  <2>10. QED
    BY <2>3, <2>7, <2>9
<1>13. m * M + pl \in 0 .. Q - 1
  <2>1. m * M <= (M - 1) * M /\ (M - 1) * M = M * M - M /\ m * M \in Nat
    BY <1>9
  <2>2. QED
    BY <2>1, <1>8, <1>11
<1>14. PICK X \in Int, Y \in Int, K \in Int : X = x * y /\ Y = m * M + pl /\ K = Z + q
  BY <1>4, <1>9, <1>12, <1>13
<1>15. Quotients(X, Q, K, Y)
  BY <1>12, <1>13, <1>14, <1>11 DEF Quotients
<1>16. X % Q = Y
  BY <1>15, QuotientsUnique
<1>17. QED
  BY <1>1, <1>10, <1>11, <1>14, <1>16

-----------------------------------------------------------------------------
(* The invariant of a call.                                                 *)

\* the call of one routine, or none
CallInv ==
  /\ \/ fn \in WordRoutines /\ bits = W
     \/ fn \in DoubleRoutines /\ bits = 2 * W
     \/ fn = "none" /\ bits = W
  /\ a \in Words(bits) /\ b \in Words(bits) /\ undef \in Words(W)

\* where its loop is
LoopInv ==
  \/ at \in {"enter", "done"}
  \/ /\ at = "justify" /\ fn = "umodsi3"
     /\ b # 0 /\ JustifyInv(a, b, regs)
  \/ /\ at = "loop" /\ fn = "umodsi3"
     /\ b # 0 /\ ModLoopInv(a, b, regs)
  \/ /\ at = "loop" /\ fn \in {"udivsi3", "udivmoddi4"}
     /\ DivInv(bits, a, b, regs)
  \/ /\ at = "loop" /\ fn = "mulsi3"
     /\ regs \in MulStates(bits)
     /\ (regs.a * regs.b + regs.res) % 2^bits = (a * b) % 2^bits

\* what the registers of the loop hold, the values they ended with included
RegsInv ==
  \/ regs = << >>
  \/ regs \in MulStates(bits) \union DivStates(bits)
  \/ regs \in ModStates /\ bits = W

\* The inductive invariant of SupportRoutines
RoutineInv == CallInv /\ LoopInv /\ RegsInv /\ ReturnsExpected

\* The widths of the arguments.
LEMMA CallWidths ==
  ASSUME CallInv
  PROVE  /\ bits \in Nat \ {0} /\ W \in Nat \ {0} /\ 2 * W \in Nat \ {0}
         /\ bits \in {W, 2 * W}
         /\ fn \in {"udivsi3", "umodsi3", "none"} => bits = W
         /\ fn \in {"udivmoddi4", "divdi3", "muldi3"} => bits = 2 * W
         /\ fn = "divsi3" => bits = W
<1>1. W \in Nat /\ W # 0 /\ 2 * W \in Nat \ {0}
  BY WordBits
<1>2. QED
  BY <1>1 DEF CallInv, WordRoutines, DoubleRoutines

\* A quotient and a remainder of words are words,
LEMMA ExpectedDivision ==
  ASSUME NEW w \in Nat \ {0}, NEW x \in Words(w), NEW y \in Words(w)
  PROVE  /\ (IF y = 0 THEN 0 ELSE x \div y) \in Words(w)
         /\ (IF y = 0 THEN 0 ELSE x % y) \in Words(w)
<1>1. PICK M \in Nat \ {0} : M = 2^w
  BY PowPositive
<1>2. x \in 0 .. M - 1 /\ y \in 0 .. M - 1
  BY <1>1 DEF Words
<1>3. CASE y = 0
  BY <1>1, <1>3 DEF Words
<1>4. CASE y # 0
  <2>1. x \in Int /\ x >= 0 /\ y \in Nat \ {0}
    BY <1>2, <1>4
  <2>2. x \div y \in Nat /\ x % y \in 0 .. y - 1 /\ x = (x \div y) * y + (x % y)
    BY <2>1, Division
  <2>3. PICK q \in Nat, r \in 0 .. y - 1 : q = x \div y /\ r = x % y /\ x = q * y + r
    BY <2>2
  <2>4. q * y >= q /\ q * y \in Nat
    BY <2>1
  <2>5. q <= x
    BY <2>1, <2>3, <2>4
  <2>6. QED
    BY <1>1, <1>2, <1>4, <2>1, <2>3, <2>5 DEF Words
<1>5. QED
  BY <1>3, <1>4

\* so is what is wrapped,
LEMMA WrapTypes ==
  ASSUME NEW w \in Nat, NEW x \in Int
  PROVE  x % 2^w \in Words(w)
<1>1. PICK M \in Nat \ {0} : M = 2^w
  BY PowPositive
<1>2. x % M \in 0 .. M - 1
  BY Division
<1>3. QED
  BY <1>1, <1>2 DEF Words

\* and so is a signed quotient.
LEMMA SignedQuotientTypes ==
  ASSUME NEW w \in Nat \ {0}, NEW x \in Words(w), NEW y \in Words(w)
  PROVE  SignedQuotient(w, x, y) \in Words(w)
<1>1. PICK M \in Nat \ {0} : M = 2^w
  BY PowPositive
<1>2. CASE y = 0
  BY <1>1, <1>2 DEF SignedQuotient, Words
<1>3. CASE y # 0
  <2>1. PICK X \in Int, Y \in Int : X = Signed(w, x) /\ Y = Signed(w, y) /\ Y # 0
    <3>1. Signed(w, x) \in Int /\ Signed(w, y) \in Int
      BY SignedValue
    <3>2. Signed(w, y) # 0
      <4>1. Abs(w, y) # 0
        BY <1>3, SignedValue
      <4>2. Abs(w, y) = IF Signed(w, y) < 0 THEN -Signed(w, y) ELSE Signed(w, y)
        BY SignedValue
      <4>3. QED
        BY <4>1, <4>2
    <3>3. QED
      BY <3>1, <3>2
  <2>2. Quotient(X, Y) \in Int
    <3> DEFINE m(z) == IF z < 0 THEN -z ELSE z
    <3>1. Quotient(X, Y) = IF (X < 0) = (Y < 0) THEN m(X) \div m(Y) ELSE -(m(X) \div m(Y))
      BY DEF Quotient
    <3>2. m(X) \in Int /\ m(Y) \in Nat \ {0}
      BY <2>1
    <3> HIDE DEF m
    <3>3. m(X) \div m(Y) \in Int
      BY <3>2, Division
    <3>4. QED
      BY <3>1, <3>3
  <2>3. SignedQuotient(w, x, y) = Quotient(X, Y) % 2^w
    BY <1>3, <2>1 DEF SignedQuotient, Wrap
  <2>4. QED
    BY <2>2, <2>3, WrapTypes
<1>4. QED
  BY <1>2, <1>3

\* What a routine is to return consists of words of its width.
LEMMA ExpectedTypes ==
  ASSUME CallInv, fn # "none"
  PROVE  \A v \in DOMAIN Expected : Expected[v] \in Words(bits)
<1>1. bits \in Nat \ {0} /\ a \in Words(bits) /\ b \in Words(bits)
  BY CallWidths DEF CallInv
<1>2. fn \in WordRoutines \union DoubleRoutines
  BY DEF CallInv
<1>3. PICK p, q, r, s : /\ p = (a * b) % 2^bits
                        /\ q = (IF b = 0 THEN 0 ELSE a \div b)
                        /\ r = (IF b = 0 THEN 0 ELSE a % b)
                        /\ s = SignedQuotient(bits, a, b)
  OBVIOUS
<1>4. q \in Words(bits) /\ r \in Words(bits)
  BY <1>1, <1>3, ExpectedDivision
<1>5. p \in Words(bits)
  <2>1. a * b \in Int
    <3>1. a \in Nat /\ b \in Nat
      BY <1>1, PowPositive DEF Words
    <3>2. QED
      BY <3>1
  <2>2. QED
    BY <1>1, <1>3, <2>1, WrapTypes
<1>6. s \in Words(bits)
  BY <1>1, <1>3, SignedQuotientTypes
<1>7. Expected \in {<<p>>, <<q>>, <<r>>, <<s>>, <<q, r>>}
  BY <1>2, <1>3 DEF Expected, WordRoutines, DoubleRoutines, SignedQuotient
<1> HIDE DEF Expected
<1>8. QED
  BY <1>4, <1>5, <1>6, <1>7

-----------------------------------------------------------------------------
(* The steps of a call.                                                     *)

\* A step changes neither the call nor what it is to return.
LEMMA CallKept ==
  ASSUME CallInv, UNCHANGED callVars
  PROVE  CallInv' /\ Expected' = Expected
<1>1. fn' = fn /\ bits' = bits /\ a' = a /\ b' = b /\ undef' = undef
  BY DEF callVars
<1>2. CallInv'
  BY <1>1 DEF CallInv
<1>3. Expected' = Expected
  BY <1>1 DEF Expected
<1>4. QED
  BY <1>2, <1>3

\* A routine that returns what is expected of it keeps the invariant,
LEMMA ReturnInv ==
  ASSUME RoutineInv, NEW values, Return(values), values = Expected
  PROVE  RoutineInv'
<1>1. CallInv' /\ Expected' = Expected
  BY CallKept DEF RoutineInv, Return
<1>2. at' = "done" /\ result' = values /\ regs' = regs /\ bits' = bits
  BY DEF Return, callVars
<1>3. LoopInv'
  BY <1>2 DEF LoopInv
<1>4. RegsInv'
  BY <1>2 DEF RoutineInv, RegsInv
<1>5. ReturnsExpected'
  BY <1>1, <1>2 DEF ReturnsExpected
<1>6. QED
  BY <1>1, <1>3, <1>4, <1>5 DEF RoutineInv

\* and so does one that goes on with registers as the invariant wants them.
LEMMA ContinueInv ==
  ASSUME RoutineInv, NEW where, NEW locals, Continue(where, locals),
         \/ /\ where = "justify" /\ fn = "umodsi3"
            /\ b # 0 /\ JustifyInv(a, b, locals)
         \/ /\ where = "loop" /\ fn = "umodsi3"
            /\ b # 0 /\ ModLoopInv(a, b, locals)
         \/ /\ where = "loop" /\ fn \in {"udivsi3", "udivmoddi4"}
            /\ DivInv(bits, a, b, locals)
         \/ /\ where = "loop" /\ fn = "mulsi3"
            /\ locals \in MulStates(bits)
            /\ (locals.a * locals.b + locals.res) % 2^bits = (a * b) % 2^bits
  PROVE  RoutineInv'
<1>1. CallInv' /\ Expected' = Expected
  BY CallKept DEF RoutineInv, Continue
<1>2. /\ at' = where /\ regs' = locals /\ result' = result
      /\ fn' = fn /\ bits' = bits /\ a' = a /\ b' = b
  BY DEF Continue, callVars
<1>3. LoopInv'
  <2>1. CASE where = "justify" /\ fn = "umodsi3" /\ b # 0 /\ JustifyInv(a, b, locals)
    <3>1. at' = "justify" /\ fn' = "umodsi3" /\ b' # 0 /\ JustifyInv(a', b', regs')
      BY <1>2, <2>1
    <3>2. QED
      BY <3>1 DEF LoopInv
  <2>2. CASE where = "loop" /\ fn = "umodsi3" /\ b # 0 /\ ModLoopInv(a, b, locals)
    <3>1. at' = "loop" /\ fn' = "umodsi3" /\ b' # 0 /\ ModLoopInv(a', b', regs')
      BY <1>2, <2>2
    <3>2. QED
      BY <3>1 DEF LoopInv
  <2>3. CASE where = "loop" /\ fn \in {"udivsi3", "udivmoddi4"} /\ DivInv(bits, a, b, locals)
    <3>1. at' = "loop" /\ fn' \in {"udivsi3", "udivmoddi4"} /\ DivInv(bits', a', b', regs')
      BY <1>2, <2>3
    <3>2. QED
      BY <3>1 DEF LoopInv
  <2>4. CASE /\ where = "loop" /\ fn = "mulsi3" /\ locals \in MulStates(bits)
             /\ (locals.a * locals.b + locals.res) % 2^bits = (a * b) % 2^bits
    <3>1. /\ at' = "loop" /\ fn' = "mulsi3" /\ regs' \in MulStates(bits')
          /\ (regs'.a * regs'.b + regs'.res) % 2^bits' = (a' * b') % 2^bits'
      BY <1>2, <2>4
    <3>2. QED
      BY <3>1 DEF LoopInv
  <2>5. QED
    BY <2>1, <2>2, <2>3, <2>4
<1>4. RegsInv'
  <2>1. locals \in MulStates(bits) \union DivStates(bits) \/ (locals \in ModStates /\ bits = W)
    <3>1. fn = "umodsi3" => bits = W
      BY CallWidths DEF RoutineInv
    <3>2. QED
      BY <3>1 DEF JustifyInv, ModLoopInv, ModInv, DivInv
  <2>2. QED
    BY <1>2, <2>1 DEF RegsInv
<1>5. ReturnsExpected'
  BY <1>1, <1>2 DEF RoutineInv, ReturnsExpected
<1>6. QED
  BY <1>1, <1>3, <1>4, <1>5 DEF RoutineInv

\* The arguments are words.
LEMMA ArgumentTypes ==
  ASSUME RoutineInv
  PROVE  /\ bits \in Nat \ {0} /\ W \in Nat \ {0} /\ 2 * W \in Nat \ {0}
         /\ a \in Words(bits) /\ b \in Words(bits) /\ undef \in Words(W)
         /\ a \in Nat /\ b \in Nat
<1>1. /\ bits \in Nat \ {0} /\ W \in Nat \ {0} /\ 2 * W \in Nat \ {0}
      /\ a \in Words(bits) /\ b \in Words(bits) /\ undef \in Words(W)
  BY CallWidths DEF RoutineInv, CallInv
<1>2. a \in Nat /\ b \in Nat
  BY <1>1, PowPositive DEF Words
<1>3. QED
  BY <1>1, <1>2

\* The steps of __mulsi3 keep the invariant,
LEMMA MulSteps ==
  ASSUME RoutineInv, MulEnter \/ MulLoop \/ MulReturn
  PROVE  RoutineInv'
<1>1. /\ bits \in Nat \ {0} /\ a \in Words(bits) /\ b \in Words(bits) /\ a \in Nat /\ b \in Nat
  BY ArgumentTypes
<1>2. CASE MulEnter
  <2>1. MulStart(a, b) = [a |-> a, b |-> b, res |-> 0]
    BY DEF MulStart
  <2>2. 0 \in Words(bits)
    BY <1>1, PowPositive DEF Words
  <2>3. MulStart(a, b) \in MulStates(bits)
    BY <1>1, <2>1, <2>2 DEF MulStates
  <2>4. a * b + 0 = a * b
    BY <1>1
  <2>5. (MulStart(a, b).a * MulStart(a, b).b + MulStart(a, b).res) % 2^bits = (a * b) % 2^bits
    BY <2>1, <2>4
  <2>6. fn = "mulsi3" /\ Continue("loop", MulStart(a, b))
    BY <1>2 DEF MulEnter
  <2>7. QED
    BY <2>3, <2>5, <2>6, ContinueInv
<1>3. CASE MulLoop
  <2>1. fn = "mulsi3" /\ at = "loop" /\ Continue("loop", MulStep(bits, regs))
    BY <1>3 DEF MulLoop
  <2>2. regs \in MulStates(bits) /\ (regs.a * regs.b + regs.res) % 2^bits = (a * b) % 2^bits
    BY <2>1 DEF RoutineInv, LoopInv
  <2>3. PICK t : t = MulStep(bits, regs)
    OBVIOUS
  <2>4. /\ t \in MulStates(bits)
        /\ (t.a * t.b + t.res) % 2^bits = (regs.a * regs.b + regs.res) % 2^bits
    BY <1>1, <2>2, <2>3, MulStepTypes DEF MulStates
  <2>5. QED
    BY <2>1, <2>2, <2>3, <2>4, ContinueInv
<1>4. CASE MulReturn
  <2>1. fn = "mulsi3" /\ at = "loop" /\ regs.a = 0 /\ Return(<<regs.res>>)
    BY <1>4 DEF MulReturn
  <2>2. regs \in MulStates(bits) /\ (regs.a * regs.b + regs.res) % 2^bits = (a * b) % 2^bits
    BY <2>1 DEF RoutineInv, LoopInv
  <2>3. regs.res = (a * b) % 2^bits
    <3>1. PICK M \in Nat \ {0} : M = 2^bits
      BY <1>1, PowPositive
    <3>2. PICK y \in Int, z \in 0 .. M - 1 : y = regs.b /\ z = regs.res
      BY <2>2, <3>1 DEF MulStates, Words
    <3>3. 0 * y + z = z /\ z % M = z
      BY <3>2
    <3>4. QED
      BY <2>1, <2>2, <3>1, <3>2, <3>3
  <2>4. <<regs.res>> = Expected
    BY <2>1, <2>3 DEF Expected
  <2>5. QED
    BY <2>1, <2>4, ReturnInv
<1>5. QED
  BY <1>2, <1>3, <1>4

\* those of __udivsi3 and __udivmoddi4,
LEMMA DivSteps ==
  ASSUME RoutineInv, UDivEnter \/ UDivModEnter \/ DivIterate \/ DivReturn
  PROVE  RoutineInv'
<1>1. /\ bits \in Nat \ {0} /\ a \in Words(bits) /\ b \in Words(bits) /\ undef \in Words(W)
  BY ArgumentTypes
<1>2. /\ fn = "udivsi3" => bits = W /\ Expected = <<IF b = 0 THEN 0 ELSE a \div b>>
      /\ fn = "udivmoddi4" =>
           bits = 2 * W /\ Expected = IF b = 0 THEN <<0, 0>> ELSE <<a \div b, a % b>>
  BY CallWidths DEF RoutineInv, Expected
<1>3. CASE UDivEnter
  <2>1. fn = "udivsi3"
    BY <1>3 DEF UDivEnter
  <2>2. PICK entry : entry = UDivSiEntry(a, b)
    OBVIOUS
  <2>3. IF "result" \in DOMAIN entry THEN Return(<<entry.result>>) ELSE Continue("loop", entry)
    BY <1>3, <2>2 DEF UDivEnter
  <2>4. \/ entry = [result |-> IF b = 0 THEN 0 ELSE a \div b]
        \/ /\ b # 0 /\ DivInv(W, a, b, entry)
           /\ entry = [q |-> entry.q, r |-> entry.r, carry |-> 0, sr |-> entry.sr]
    BY <1>1, <1>2, <2>1, <2>2, UDivSiEntryCases
  <2>5. CASE entry = [result |-> IF b = 0 THEN 0 ELSE a \div b]
    <3>1. Return(<<entry.result>>)
      BY <2>3, <2>5
    <3>2. <<entry.result>> = Expected
      BY <1>2, <2>1, <2>5
    <3>3. QED
      BY <3>1, <3>2, ReturnInv
  <2>6. CASE /\ b # 0 /\ DivInv(W, a, b, entry)
             /\ entry = [q |-> entry.q, r |-> entry.r, carry |-> 0, sr |-> entry.sr]
    <3>1. "result" \notin DOMAIN entry
      BY <2>6
    <3>2. Continue("loop", entry) /\ DivInv(bits, a, b, entry)
      BY <1>2, <2>1, <2>3, <2>6, <3>1
    <3>3. QED
      BY <2>1, <3>2, ContinueInv
  <2>7. QED
    BY <2>4, <2>5, <2>6
<1>4. CASE UDivModEnter
  <2>1. fn = "udivmoddi4"
    BY <1>4 DEF UDivModEnter
  <2>2. PICK entry : entry = UDivModDiEntry(a, b, undef)
    OBVIOUS
  <2>3. IF "quotient" \in DOMAIN entry THEN Return(<<entry.quotient, entry.remainder>>)
        ELSE Continue("loop", entry)
    BY <1>4, <2>2 DEF UDivModEnter
  <2>4. DoubleEntry(a, b, entry)
    BY <1>1, <1>2, <2>1, <2>2, UDivModDiEntryCases
  <2>5. CASE entry = Returned(IF b = 0 THEN 0 ELSE a \div b, IF b = 0 THEN 0 ELSE a % b)
    <3>1. Return(<<entry.quotient, entry.remainder>>)
      BY <2>3, <2>5 DEF Returned
    <3>2. /\ entry.quotient = (IF b = 0 THEN 0 ELSE a \div b)
          /\ entry.remainder = (IF b = 0 THEN 0 ELSE a % b)
      BY <2>5 DEF Returned
    <3>3. <<entry.quotient, entry.remainder>> = Expected
      BY <1>2, <2>1, <3>2
    <3>4. QED
      BY <3>1, <3>3, ReturnInv
  <2>6. CASE /\ b # 0 /\ DivInv(2 * W, a, b, entry)
             /\ entry = [q |-> entry.q, r |-> entry.r, carry |-> 0, sr |-> entry.sr]
    <3>1. "quotient" \notin DOMAIN entry
      BY <2>6
    <3>2. Continue("loop", entry) /\ DivInv(bits, a, b, entry)
      BY <1>2, <2>1, <2>3, <2>6, <3>1
    <3>3. QED
      BY <2>1, <3>2, ContinueInv
  <2>7. QED
    BY <2>4, <2>5, <2>6 DEF DoubleEntry
<1>5. CASE DivIterate
  <2>1. /\ fn \in {"udivsi3", "udivmoddi4"} /\ at = "loop" /\ regs.sr > 0
        /\ Continue("loop", DivStep(bits, b, regs))
    BY <1>5 DEF DivIterate
  <2>2. DivInv(bits, a, b, regs)
    BY <2>1 DEF RoutineInv, LoopInv
  <2>3. DivInv(bits, a, b, DivStep(bits, b, regs))
    <3>1. regs.sr # 0
      BY <2>1
    <3>2. QED
      BY <1>1, <2>2, <3>1, DivStepInv
  <2>4. QED
    BY <2>1, <2>3, ContinueInv
<1>6. CASE DivReturn
  <2>1. /\ fn \in {"udivsi3", "udivmoddi4"} /\ at = "loop" /\ regs.sr = 0
        /\ Return(IF fn = "udivsi3" THEN <<DivQuotient(bits, regs)>>
                  ELSE <<DivModResult(regs).quotient, DivModResult(regs).remainder>>)
    BY <1>6 DEF DivReturn
  <2>2. DivInv(bits, a, b, regs)
    BY <2>1 DEF RoutineInv, LoopInv
  <2>3. DivQuotient(bits, regs) = a \div b /\ regs.r = a % b /\ b # 0
    BY <1>1, <2>1, <2>2, DivEnd
  <2>4. CASE fn = "udivsi3"
    <3>1. Return(<<a \div b>>) /\ Expected = <<a \div b>>
      BY <1>2, <2>1, <2>3, <2>4
    <3>2. QED
      BY <3>1, ReturnInv
  <2>5. CASE fn = "udivmoddi4"
    <3>1. DivModResult(regs).quotient = a \div b /\ DivModResult(regs).remainder = a % b
      BY <1>2, <2>3, <2>5 DEF DivModResult, Returned
    <3>2. Return(<<a \div b, a % b>>) /\ Expected = <<a \div b, a % b>>
      BY <1>2, <2>1, <2>3, <2>5, <3>1
    <3>3. QED
      BY <3>2, ReturnInv
  <2>6. QED
    BY <2>1, <2>4, <2>5
<1>7. QED
  BY <1>3, <1>4, <1>5, <1>6

\* those of __umodsi3,
LEMMA ModSteps ==
  ASSUME RoutineInv, ModEnter \/ Justify \/ ModLoop \/ ModReturn
  PROVE  RoutineInv'
<1>1. fn = "umodsi3" /\ bits = W
  <2>1. fn = "umodsi3"
    BY DEF ModEnter, Justify, ModLoop, ModReturn
  <2>2. QED
    BY <2>1, CallWidths DEF RoutineInv
<1>2. a \in Words(W) /\ b \in Words(W) /\ W \in Nat \ {0}
  BY <1>1, ArgumentTypes
<1>3. Expected = <<IF b = 0 THEN 0 ELSE a % b>>
  BY <1>1 DEF Expected
<1>4. CASE ModEnter
  <2>1. CASE b = 0
    <3>1. Return(<<0>>) /\ Expected = <<0>>
      BY <1>3, <1>4, <2>1 DEF ModEnter
    <3>2. QED
      BY <3>1, ReturnInv
  <2>2. CASE b # 0
    <3>1. Continue("justify", ModStart(a, b))
      BY <1>4, <2>2 DEF ModEnter
    <3>2. JustifyInv(a, b, ModStart(a, b))
      BY <1>2, <2>2, ModStartInv
    <3>3. QED
      BY <1>1, <2>2, <3>1, <3>2, ContinueInv
  <2>3. QED
    BY <2>1, <2>2
<1>5. CASE Justify
  <2>1. b # 0 /\ JustifyInv(a, b, regs)
    BY <1>1, <1>5 DEF Justify, RoutineInv, LoopInv
  <2>2. CASE Negative(W, regs.den)
    <3>1. Continue("loop", regs) /\ ModLoopInv(a, b, regs)
      BY <1>2, <1>5, <2>1, <2>2, JustifiedInv DEF Justify
    <3>2. QED
      BY <1>1, <2>1, <3>1, ContinueInv
  <2>3. CASE ~Negative(W, regs.den)
    <3>1. Continue("justify", JustifyStep(regs)) /\ JustifyInv(a, b, JustifyStep(regs))
      BY <1>2, <1>5, <2>1, <2>3, JustifyStepInv DEF Justify
    <3>2. QED
      BY <1>1, <2>1, <3>1, ContinueInv
  <2>4. QED
    BY <2>2, <2>3
<1>6. CASE ModLoop
  <2>1. b # 0 /\ ModLoopInv(a, b, regs) /\ regs.qbit # 0 /\ Continue("loop", ModStep(regs))
    BY <1>1, <1>6 DEF ModLoop, RoutineInv, LoopInv
  <2>2. ModLoopInv(a, b, ModStep(regs))
    BY <1>2, <2>1, ModStepInv
  <2>3. QED
    BY <1>1, <2>1, <2>2, ContinueInv
<1>7. CASE ModReturn
  <2>1. b # 0 /\ ModLoopInv(a, b, regs) /\ regs.qbit = 0 /\ Return(<<regs.num>>)
    BY <1>1, <1>7 DEF ModReturn, RoutineInv, LoopInv
  <2>2. regs.num = a % b
    BY <1>2, <2>1, ModEnd
  <2>3. QED
    BY <1>3, <2>1, <2>2, ReturnInv
<1>8. QED
  BY <1>4, <1>5, <1>6, <1>7

\* and those of the routines that call them, by the values of the functions.
LEMMA WrapperSteps ==
  ASSUME RoutineInv, Wrapper
  PROVE  RoutineInv'
<1>1. a \in Words(bits) /\ b \in Words(bits) /\ undef \in Words(W)
  BY ArgumentTypes
<1>2. CASE fn = "divsi3" /\ Return(<<DivSi(a, b)>>)
  <2>1. bits = W
    BY <1>2, CallWidths DEF RoutineInv
  <2>2. DivSi(a, b) = SignedQuotient(W, a, b)
    BY <1>1, <2>1, DivSiValue
  <2>3. <<DivSi(a, b)>> = Expected
    BY <1>2, <2>1, <2>2 DEF Expected, SignedQuotient
  <2>4. QED
    BY <1>2, <2>3, ReturnInv
<1>3. CASE fn = "divdi3" /\ Return(<<DivDi(a, b, undef)>>)
  <2>1. bits = 2 * W
    BY <1>3, CallWidths DEF RoutineInv
  <2>2. DivDi(a, b, undef) = SignedQuotient(2 * W, a, b)
    BY <1>1, <2>1, DivDiValue
  <2>3. <<DivDi(a, b, undef)>> = Expected
    BY <1>3, <2>1, <2>2 DEF Expected, SignedQuotient
  <2>4. QED
    BY <1>3, <2>3, ReturnInv
<1>4. CASE fn = "muldi3" /\ Return(<<MulDi(a, b)>>)
  <2>1. bits = 2 * W
    BY <1>4, CallWidths DEF RoutineInv
  <2>2. MulDi(a, b) = (a * b) % 2^bits
    BY <1>1, <2>1, MulDiValue
  <2>3. <<MulDi(a, b)>> = Expected
    BY <1>4, <2>2 DEF Expected
  <2>4. QED
    BY <1>4, <2>3, ReturnInv
<1>5. QED
  BY <1>2, <1>3, <1>4 DEF Wrapper

\* Every step of a routine keeps the invariant.
LEMMA RoutineStep ==
  ASSUME RoutineInv, srNext \/ UNCHANGED srVars
  PROVE  RoutineInv'
<1>1. CASE srNext
  BY <1>1, MulSteps, DivSteps, ModSteps, WrapperSteps DEF srNext
<1>2. CASE UNCHANGED srVars
  <2>1. UNCHANGED callVars /\ UNCHANGED <<at, regs, result>>
    BY <1>2 DEF srVars
  <2>2. CallInv' /\ Expected' = Expected
    BY <2>1, CallKept DEF RoutineInv
  <2>3. fn' = fn /\ bits' = bits /\ a' = a /\ b' = b /\ at' = at /\ regs' = regs /\ result' = result
    BY <2>1 DEF callVars
  <2>4. LoopInv'
    <3>1. LoopInv
      BY DEF RoutineInv
    <3>2. QED
      BY <2>3, <3>1 DEF LoopInv
  <2>5. RegsInv' /\ ReturnsExpected'
    BY <2>2, <2>3 DEF RoutineInv, RegsInv, ReturnsExpected
  <2>6. QED
    BY <2>2, <2>4, <2>5 DEF RoutineInv
<1>3. QED
  BY <1>1, <1>2

\* A call starts with it.
LEMMA RoutineInit ==
  ASSUME srInit
  PROVE  RoutineInv
<1>1. CallInv
  BY ArgumentsAreWords DEF srInit, Call, CallInv
<1>2. LoopInv /\ RegsInv /\ ReturnsExpected
  BY DEF srInit, LoopInv, RegsInv, ReturnsExpected
<1>3. QED
  BY <1>1, <1>2 DEF RoutineInv

\* It implies what is claimed of the loops.
LEMMA LoopsFollow ==
  ASSUME RoutineInv
  PROVE  LoopInvariant
<1>1. LoopInv
  BY DEF RoutineInv
<1>2. fn = "mulsi3" /\ at = "loop" =>
        (regs.a * regs.b + regs.res) % 2^bits = (a * b) % 2^bits
  BY <1>1 DEF LoopInv
<1>3. ASSUME fn \in {"udivsi3", "udivmoddi4"}, at = "loop" PROVE DivInv(bits, a, b, regs)
  BY <1>1, <1>3 DEF LoopInv
<1>4. ASSUME fn = "umodsi3", at = "justify" PROVE JustifyInv(a, b, regs)
  BY <1>1, <1>4 DEF LoopInv
<1>5. ASSUME fn = "umodsi3", at = "loop" PROVE ModLoopInv(a, b, regs)
  BY <1>1, <1>5 DEF LoopInv
<1>6. QED
  BY <1>2, <1>3, <1>4, <1>5 DEF LoopInvariant, DivInv, JustifyInv, ModLoopInv, ModInv
=============================================================================
