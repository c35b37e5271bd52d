-------------------------- MODULE SupportRoutines --------------------------
(***************************************************************************)
(* Calls of the routines of SoftArithmetic, one iteration of a loop per    *)
(* step: whether each loop ends, what holds while it runs, and what is     *)
(* returned.                                                               *)
(***************************************************************************)
EXTENDS SoftArithmetic

CONSTANTS
  Arguments,          \* bound: arguments of the routines on words
  DoubleArguments,    \* bound: arguments of the routines on double words
  Undefined           \* bound: what an undefined shift may give

ASSUME ArgumentsAreWords ==
  /\ Arguments \subseteq Words(W) /\ DoubleArguments \subseteq Words(2 * W)
  /\ Undefined \subseteq Words(W)

VARIABLES
  fn,         \* the routine called
  bits,       \* the width of its arguments
  a, b,       \* its arguments
  undef,      \* outcome of undefined shifts
  at,         \* "enter", "justify", "loop", "done"
  regs,       \* locals of its loop
  result      \* << >>, then what it returns

callVars == <<fn, bits, a, b, undef>>
srVars == <<callVars, at, regs, result>>

WordRoutines == {"mulsi3", "udivsi3", "divsi3", "umodsi3"}
DoubleRoutines == {"mulsi3", "udivmoddi4", "divdi3", "muldi3"}

\* a long is a word on the accelerators' cores, a double word on the others'
Call ==
  \/ /\ fn \in WordRoutines /\ bits = W
     /\ a \in Arguments /\ b \in Arguments
  \/ /\ fn \in DoubleRoutines /\ bits = 2 * W
     /\ a \in DoubleArguments /\ b \in DoubleArguments

srInit ==
  /\ Call
  /\ undef \in Undefined
  /\ at = "enter" /\ regs = << >> /\ result = << >>

Return(values) ==
  /\ at' = "done" /\ result' = values
  /\ UNCHANGED <<callVars, regs>>

Continue(where, locals) ==
  /\ at' = where /\ regs' = locals
  /\ UNCHANGED <<callVars, result>>

-----------------------------------------------------------------------------
MulEnter ==
  /\ fn = "mulsi3" /\ at = "enter"
  /\ Continue("loop", MulStart(a, b))

MulLoop ==
  /\ fn = "mulsi3" /\ at = "loop" /\ regs.a # 0
  /\ Continue("loop", MulStep(bits, regs))

MulReturn ==
  /\ fn = "mulsi3" /\ at = "loop" /\ regs.a = 0
  /\ Return(<<regs.res>>)

UDivEnter ==
  LET entry == UDivSiEntry(a, b) IN
  /\ fn = "udivsi3" /\ at = "enter"
  /\ IF "result" \in DOMAIN entry THEN Return(<<entry.result>>) ELSE Continue("loop", entry)

UDivModEnter ==
  LET entry == UDivModDiEntry(a, b, undef) IN
  /\ fn = "udivmoddi4" /\ at = "enter"
  /\ IF "quotient" \in DOMAIN entry THEN Return(<<entry.quotient, entry.remainder>>)
     ELSE Continue("loop", entry)

DivIterate ==
  /\ fn \in {"udivsi3", "udivmoddi4"} /\ at = "loop" /\ regs.sr > 0
  /\ Continue("loop", DivStep(bits, b, regs))

DivReturn ==
  /\ fn \in {"udivsi3", "udivmoddi4"} /\ at = "loop" /\ regs.sr = 0
  /\ Return(IF fn = "udivsi3" THEN <<DivQuotient(bits, regs)>>
            ELSE <<DivModResult(regs).quotient, DivModResult(regs).remainder>>)

ModEnter ==
  /\ fn = "umodsi3" /\ at = "enter"
  /\ IF b = 0 THEN Return(<<0>>) ELSE Continue("justify", ModStart(a, b))

Justify ==
  /\ fn = "umodsi3" /\ at = "justify"
  /\ IF Negative(W, regs.den) THEN Continue("loop", regs)
     ELSE Continue("justify", JustifyStep(regs))

ModLoop ==
  /\ fn = "umodsi3" /\ at = "loop" /\ regs.qbit # 0
  /\ Continue("loop", ModStep(regs))

ModReturn ==
  /\ fn = "umodsi3" /\ at = "loop" /\ regs.qbit = 0
  /\ Return(<<regs.num>>)

\* the routines that call the ones above
Wrapper ==
  /\ at = "enter"
  /\ \/ fn = "divsi3" /\ Return(<<DivSi(a, b)>>)
     \/ fn = "divdi3" /\ Return(<<DivDi(a, b, undef)>>)
     \/ fn = "muldi3" /\ Return(<<MulDi(a, b)>>)

srNext ==
  \/ MulEnter \/ MulLoop \/ MulReturn
  \/ UDivEnter \/ UDivModEnter \/ DivIterate \/ DivReturn
  \/ ModEnter \/ Justify \/ ModLoop \/ ModReturn
  \/ Wrapper

-----------------------------------------------------------------------------
\* While a loop runs: what a multiplication has still to add and has added
\* make the product; a division's dividend is the quotient so far times the
\* divisor, plus the remainder and the bits not yet shifted in, and the
\* remainder is smaller than the divisor although the comparison is only the
\* sign of a difference that may overflow; in __umodsi3 the shifted divisor
\* stays that multiple of the divisor, no bit of it is lost, and twice it is
\* above what is left of the dividend.
LoopInvariant ==
  /\ fn = "mulsi3" /\ at = "loop" =>
       (regs.a * regs.b + regs.res) % 2^bits = (a * b) % 2^bits
  /\ fn \in {"udivsi3", "udivmoddi4"} /\ at = "loop" =>
       LET done == 2^(bits - regs.sr)
           quotient == 2 * (regs.q % done) + regs.carry
       IN /\ regs.r < b
          /\ a = (quotient * b + regs.r) * 2^regs.sr + regs.q \div done
  /\ fn = "umodsi3" /\ at = "justify" => regs.den = b * regs.qbit
  /\ fn = "umodsi3" /\ at \in {"justify", "loop"} =>
       /\ a = regs.quot * b + regs.num
       /\ IF regs.qbit = 0 THEN regs.num < b
          ELSE regs.den = b * regs.qbit /\ (at = "loop" => regs.num < 2 * regs.den)

Signed(w, x) == IF Negative(w, x) THEN x - 2^w ELSE x

\* the quotient of integers, rounded to zero
Quotient(x, y) ==
  LET magnitude(z) == IF z < 0 THEN -z ELSE z
      q == magnitude(x) \div magnitude(y)
  IN IF (x < 0) = (y < 0) THEN q ELSE -q

Expected ==
  CASE fn \in {"mulsi3", "muldi3"} -> <<(a * b) % 2^bits>>
    [] fn = "udivmoddi4" -> IF b = 0 THEN <<0, 0>> ELSE <<a \div b, a % b>>
    [] fn = "udivsi3" -> IF b = 0 THEN <<0>> ELSE <<a \div b>>
    [] fn = "umodsi3" -> IF b = 0 THEN <<0>> ELSE <<a % b>>
    [] fn \in {"divsi3", "divdi3"} ->
         IF b = 0 THEN <<0>> ELSE <<Wrap(bits, Quotient(Signed(bits, a), Signed(bits, b)))>>

\* What a routine returns is the product, quotient or remainder of its
\* arguments as C defines it, whatever an undefined shift gives; dividing by
\* zero returns zero, and the most negative number divided by -1 wraps.
ReturnsExpected == result # << >> => result = Expected
=============================================================================
