--------------------------- MODULE SoftArithmetic ---------------------------
(***************************************************************************)
(* The integer routines of the processors' system.c, which the compiler    *)
(* calls because the cores have no multiplier and no divider.  Words are   *)
(* naturals below 2^w, read as two's complement where the C code casts to  *)
(* a signed type.  An operator named Step is one iteration of a loop; the  *)
(* same steps are taken by the actions of SupportRoutines and by the       *)
(* recursive functions that give a routine's result.                       *)
(*                                                                         *)
(* A double word (long long) is a word of 2 * W bits.                      *)
(***************************************************************************)
EXTENDS Integers

CONSTANT W    \* bits of an int: 32 in the program

\* W even for __muldsi3, and 2 * W - 1 is representable in a signed word
ASSUME WordBits == W \in Nat /\ W >= 4 /\ W % 2 = 0

Words(w) == 0 .. 2^w - 1
Wrap(w, x) == x % 2^w
Shl(w, x, n) == Wrap(w, x * 2^n)
Shr(x, n) == x \div 2^n
Negative(w, x) == Wrap(w, x) >= 2^(w - 1)
Negate(w, x) == Wrap(w, -x)
Low(x) == x % 2^W
High(x) == x \div 2^W
Double(high, low) == high * 2^W + low

\* __builtin_clz and __builtin_ctz, of a word other than 0
Clz(w, x) == CHOOSE n \in 0 .. w - 1 : 2^(w - 1 - n) <= x /\ x < 2^(w - n)
Ctz(w, x) == CHOOSE n \in 0 .. w - 1 : x % 2^n = 0 /\ x % 2^(n + 1) # 0
PowerOfTwo(w, x) == \E n \in 0 .. w - 1 : x = 2^n

-----------------------------------------------------------------------------
(* __mulsi3: add the shifted b for every bit of a.  long has w bits.        *)

MulStart(a, b) == [a |-> a, b |-> b, res |-> 0]

MulStep(w, s) ==
  [a |-> Shr(s.a, 1), b |-> Shl(w, s.b, 1),
   res |-> IF s.a % 2 = 1 THEN Wrap(w, s.res + s.b) ELSE s.res]

MulSi(w, a, b) ==
  LET loop[s \in [a : Words(w), b : Words(w), res : Words(w)]] ==
        IF s.a = 0 THEN s.res ELSE loop[MulStep(w, s)]
  IN loop[MulStart(a, b)]

-----------------------------------------------------------------------------
(* The loop of __udivsi3 and of __udivmoddi4: shift the pair r:q to the     *)
(* left and subtract d from r when it fits.                                 *)

\* MUTANT of DivStep: the difference without the - 1
DivStepEqual(w, d, s) ==
  LET r == Shl(w, s.r, 1) + Shr(s.q, w - 1)
      fits == Negative(w, d - r)
  IN [q |-> Shl(w, s.q, 1) + s.carry,
      r |-> IF fits THEN Wrap(w, r - d) ELSE r,
      carry |-> IF fits THEN 1 ELSE 0,
      sr |-> s.sr - 1]

DivStep(w, d, s) ==
  LET r == Shl(w, s.r, 1) + Shr(s.q, w - 1)
      fits == Negative(w, d - r - 1)      \* the sign of (int)(d - r - 1)
  IN [q |-> Shl(w, s.q, 1) + s.carry,
      r |-> IF fits THEN Wrap(w, r - d) ELSE r,
      carry |-> IF fits THEN 1 ELSE 0,
      sr |-> s.sr - 1]

DivQuotient(w, s) == Wrap(w, Shl(w, s.q, 1) + s.carry)

DivLoop(w, d, start) ==
  LET loop[s \in [q : Words(w), r : Words(w), carry : 0 .. 1, sr : 0 .. w]] ==
        IF s.sr = 0 THEN s ELSE loop[DivStep(w, d, s)]
  IN loop[start]

\* __udivsi3 up to its loop: a result, or the registers the loop starts with
UDivSiEntry(n, d) ==
  LET sr == Clz(W, d) - Clz(W, n) IN
  IF d = 0 \/ n = 0 THEN [result |-> 0]
  ELSE IF sr < 0 \/ sr > W - 1 THEN [result |-> 0]    \* an unsigned sr is large
  ELSE IF sr = W - 1 THEN [result |-> n]
  ELSE [q |-> Shl(W, n, W - sr - 1), r |-> Shr(n, sr + 1), carry |-> 0, sr |-> sr + 1]

UDivSi(n, d) ==
  LET entry == UDivSiEntry(n, d)
  IN IF "result" \in DOMAIN entry THEN entry.result
     ELSE DivQuotient(W, DivLoop(W, d, entry))

\* a ^ s - s, s the sign spread over the word
Abs(w, x) == IF Negative(w, x) THEN Negate(w, x) ELSE x

SignFix(w, a, b, q) == IF Negative(w, a) # Negative(w, b) THEN Negate(w, q) ELSE q

\* __divsi3
DivSi(a, b) == SignFix(W, a, b, UDivSi(Abs(W, a), Abs(W, b)))

-----------------------------------------------------------------------------
(* __umodsi3: shift the denominator up to the top bit, then subtract it on  *)
(* the way back.  Its result for a zero denominator is 0.                   *)

ModStart(num, den) == [num |-> num, den |-> den, quot |-> 0, qbit |-> 1]

JustifyStep(s) == [s EXCEPT !.den = Shl(W, @, 1), !.qbit = Shl(W, @, 1)]

ModStep(s) ==
  LET fits == s.den <= s.num IN
  [num |-> IF fits THEN s.num - s.den ELSE s.num,
   den |-> Shr(s.den, 1),
   quot |-> IF fits THEN Wrap(W, s.quot + s.qbit) ELSE s.quot,
   qbit |-> Shr(s.qbit, 1)]

UModSi(num, den) ==
  LET locals == [num : Words(W), den : Words(W), quot : Words(W), qbit : Words(W)]
      loop[s \in locals] == IF s.qbit = 0 THEN s.num ELSE loop[ModStep(s)]
      justify[s \in locals] ==
        IF Negative(W, s.den) THEN loop[s] ELSE justify[JustifyStep(s)]
  IN IF den = 0 THEN 0 ELSE justify[ModStart(num, den)]

-----------------------------------------------------------------------------
(* __udivmoddi4: the quotient and, if asked for, the remainder of double    *)
(* words.  Shifts by W or more, or by a negative amount, are undefined in C *)
(* and give the word undef; the code relies on masking them out.            *)

UbShl(x, n, undef) == IF n \in 0 .. W - 1 THEN Shl(W, x, n) ELSE undef
UbShr(x, n, undef) == IF n \in 0 .. W - 1 THEN Shr(x, n) ELSE undef

\* x & ((si_int) m >> (n_uword_bits - 1))
Masked(x, m) == IF Negative(W, m) THEN x ELSE 0

Returned(quotient, remainder) == [quotient |-> quotient, remainder |-> remainder]

LoopFrom(sr, qhigh, qlow, rhigh, rlow) ==
  [q |-> Double(qhigh, qlow), r |-> Double(rhigh, rlow), carry |-> 0, sr |-> sr]

\* n = K X, d = K 0
DivByHigh(n, d) ==
  LET sr == Clz(W, High(d)) - Clz(W, High(n)) + 1 IN
  IF PowerOfTwo(W, High(d)) THEN
    Returned(Shr(High(n), Ctz(W, High(d))), Double(High(n) % High(d), Low(n)))
  ELSE IF sr - 1 < 0 \/ sr - 1 > W - 2 THEN Returned(0, n)
  ELSE LoopFrom(sr, Shl(W, Low(n), W - sr), 0,
                Shr(High(n), sr), Shl(W, High(n), W - sr) + Shr(Low(n), sr))

\* n = K X, d = 0 K
DivByLow(n, d, undef) ==
  LET ctz == Ctz(W, Low(d))
      sr == 1 + W + Clz(W, Low(d)) - Clz(W, High(n))
  IN
  IF Low(d) = 1 THEN Returned(n, 0)
  ELSE IF PowerOfTwo(W, Low(d)) THEN
    Returned(Double(Shr(High(n), ctz), Shl(W, High(n), W - ctz) + Shr(Low(n), ctz)),
             Low(n) % Low(d))
  ELSE LoopFrom(sr,
    Masked(UbShl(Low(n), W - sr, undef), sr - W - 1)
      + Masked(UbShl(High(n), 2 * W - sr, undef) + UbShr(Low(n), sr - W, undef), W - sr),
    Masked(UbShl(Low(n), 2 * W - sr, undef), W - sr),
    Masked(UbShr(High(n), sr, undef), sr - W),
    Masked(UbShr(High(n), sr - W, undef), W - sr - 1)
      + Masked(UbShl(High(n), W - sr, undef) + UbShr(Low(n), sr, undef), sr - W))

\* MUTANT of DivByBoth: the bound of the case before, which shifts one place less
DivByBothShort(n, d, undef) ==
  LET sr == Clz(W, High(d)) - Clz(W, High(n)) + 1 IN
  IF sr - 1 < 0 \/ sr - 1 > W - 2 THEN Returned(0, n)
  ELSE LoopFrom(sr, Shl(W, Low(n), W - sr), 0,
                Masked(UbShr(High(n), sr, undef), sr - W),
                Shl(W, High(n), W - sr) + Masked(UbShr(Low(n), sr, undef), sr - W))

\* n = K X, d = K K
DivByBoth(n, d, undef) ==
  LET sr == Clz(W, High(d)) - Clz(W, High(n)) + 1 IN
  IF sr - 1 < 0 \/ sr - 1 > W - 1 THEN Returned(0, n)
  ELSE LoopFrom(sr, Shl(W, Low(n), W - sr), 0,
                Masked(UbShr(High(n), sr, undef), sr - W),
                Shl(W, High(n), W - sr) + Masked(UbShr(Low(n), sr, undef), sr - W))

\* up to the loop: a result, or the registers the loop starts with
UDivModDiEntry(n, d, undef) ==
  CASE High(n) = 0 /\ High(d) = 0 -> Returned(UDivSi(Low(n), Low(d)), UModSi(Low(n), Low(d)))
    [] High(n) = 0 /\ High(d) # 0 -> Returned(0, Low(n))
    [] High(n) # 0 /\ d = 0 -> Returned(UDivSi(High(n), Low(d)), UModSi(High(n), Low(d)))
    [] High(n) # 0 /\ Low(n) = 0 /\ Low(d) = 0 /\ d # 0 ->
         Returned(UDivSi(High(n), High(d)), Double(UModSi(High(n), High(d)), 0))
    [] High(n) # 0 /\ Low(n) # 0 /\ Low(d) = 0 /\ d # 0 -> DivByHigh(n, d)
    [] High(n) # 0 /\ Low(d) # 0 /\ High(d) = 0 -> DivByLow(n, d, undef)
    [] High(n) # 0 /\ Low(d) # 0 /\ High(d) # 0 -> DivByBoth(n, d, undef)

DivModResult(s) == Returned(DivQuotient(2 * W, s), s.r)

UDivModDi(n, d, undef) ==
  LET entry == UDivModDiEntry(n, d, undef)
  IN IF "quotient" \in DOMAIN entry THEN entry ELSE DivModResult(DivLoop(2 * W, d, entry))

UDivDi(a, b, undef) == UDivModDi(a, b, undef).quotient
UModDi(a, b, undef) == UDivModDi(a, b, undef).remainder

\* __divdi3
DivDi(a, b, undef) == SignFix(2 * W, a, b, UDivDi(Abs(2 * W, a), Abs(2 * W, b), undef))

-----------------------------------------------------------------------------
(* Double products from half-word products.  The partial products are longs *)
(* of 2 * W bits cut to a word.                                             *)

MulDsi(a, b) ==
  LET half == W \div 2
      lo(x) == x % 2^half
      hi(x) == Shr(x, half)
      product(x, y) == Low(MulSi(2 * W, x, y))
      p == product(lo(a), lo(b))
      t1 == Low(hi(p) + product(hi(a), lo(b)))
      low1 == lo(p) + Shl(W, lo(t1), half)
      t2 == Low(hi(low1) + product(hi(b), lo(a)))
      low2 == lo(low1) + Shl(W, lo(t2), half)
  IN Double(Low(hi(t1) + hi(t2) + product(hi(a), hi(b))), low2)

\* the high halves are signed and widen to a long
SignExtend(x) == IF Negative(W, x) THEN x + 2^(2 * W) - 2^W ELSE x

MulDi(a, b) ==
  LET r == MulDsi(Low(a), Low(b))
      cross1 == MulSi(2 * W, SignExtend(High(a)), Low(b))
      cross2 == MulSi(2 * W, Low(a), SignExtend(High(b)))
  IN Double(Low(High(r) + cross1 + cross2), Low(r))
=============================================================================
