------------------------------- MODULE Arithmetic -------------------------------
(****************************************************************************)
(* What the operators are for: integer arithmetic, with no gate and no      *)
(* loop over bits.  A word of width w is a number below 2^w.  These         *)
(* definitions are the specification that the others are compared with.    *)
(****************************************************************************)
EXTENDS Integers

Pow2[k \in Nat] == IF k = 0 THEN 1 ELSE 2 * Pow2[k - 1]

Wrap(n, w) == n % Pow2[w]
SignedOf(n, w) == IF 2 * n >= Pow2[w] THEN n - Pow2[w] ELSE n
(* A word read at another width, from its signed or unsigned value.        *)
ReadAs(n, from, to, signed) == Wrap(IF signed THEN SignedOf(n, from) ELSE n, to)
BitOf(n, i) == (n \div Pow2[i]) % 2 = 1
Truth(b) == IF b THEN 1 ELSE 0

Magnitude(n) == IF n < 0 THEN -n ELSE n
(* Signed division truncates toward zero, the remainder has the dividend's  *)
(* sign.                                                                   *)
TowardZero(a, b) ==
  LET q == Magnitude(a) \div Magnitude(b) IN IF (a < 0) # (b < 0) THEN -q ELSE q
RemainderOf(a, b) == a - TowardZero(a, b) * b

(* By zero, both back ends of the Verilator path divide magnitudes to all   *)
(* ones and give the quotient the sign of the operands.                    *)
Quotient(a, b, w, signed) ==
  LET A == IF signed THEN SignedOf(a, w) ELSE a
      B == IF signed THEN SignedOf(b, w) ELSE b
  IN IF B = 0 THEN IF A < 0 THEN Wrap(1, w) ELSE Pow2[w] - 1
     ELSE Wrap(TowardZero(A, B), w)
ModuloOf(a, b, w, signed) ==
  IF signed THEN Wrap(RemainderOf(SignedOf(a, w), SignedOf(b, w)), w) ELSE a % b

BitwiseOf(operation(_, _), a, b, w) ==
  LET low[k \in 0 .. w] ==
        IF k = 0 THEN 0
        ELSE low[k - 1] + Truth(operation(BitOf(a, k - 1), BitOf(b, k - 1))) * Pow2[k - 1]
  IN low[w]
AndOf(a, b, w) == BitwiseOf(LAMBDA x, y : x /\ y, a, b, w)
OrOf(a, b, w) == BitwiseOf(LAMBDA x, y : x \/ y, a, b, w)
XorOf(a, b, w) == BitwiseOf(LAMBDA x, y : x # y, a, b, w)
Ones[n \in Nat] == IF n = 0 THEN 0 ELSE (n % 2) + Ones[n \div 2]

(* n, a number of w bits, written count times.                             *)
Copies(n, w, count) ==
  LET copies[k \in 0 .. count] == IF k = 0 THEN 0 ELSE copies[k - 1] * Pow2[w] + n IN copies[count]

ShiftedLeft(n, amount, w) == Wrap(n * Pow2[amount], w)
ShiftedRight(n, amount, w, signed) ==
  Wrap((IF signed THEN SignedOf(n, w) ELSE n) \div Pow2[amount], w)

RotatedLeft(n, amount, w) ==
  LET turn == amount % w IN Wrap(n * Pow2[turn], w) + n \div Pow2[w - turn]

(* The operations of the comb dialect.  Where one has no result, it has any. *)
CombOf(operator, a, b, w, any) ==
  CASE operator = "Add" -> Wrap(a + b, w)
    [] operator = "Sub" -> Wrap(a - b, w)
    [] operator = "Mul" -> Wrap(a * b, w)
    [] operator = "DivUnsigned" -> IF b = 0 THEN any ELSE a \div b
    [] operator = "DivSigned" -> IF b = 0 THEN any ELSE Quotient(a, b, w, TRUE)
    [] operator = "ModUnsigned" -> IF b = 0 THEN any ELSE ModuloOf(a, b, w, FALSE)
    [] operator = "ModSigned" -> IF b = 0 THEN any ELSE ModuloOf(a, b, w, TRUE)
    [] operator = "And" -> AndOf(a, b, w)
    [] operator = "Or" -> OrOf(a, b, w)
    [] operator = "Xor" -> XorOf(a, b, w)
    [] operator = "ShiftLeft" -> ShiftedLeft(a, b, w)
    [] operator = "ShiftRightSigned" -> ShiftedRight(a, b, w, TRUE)
    [] operator = "ShiftRightUnsigned" -> ShiftedRight(a, b, w, FALSE)

PartOf(n, offset, w) == (n \div Pow2[offset]) % Pow2[w]
WithPart(n, offset, w, part) == n + (part - PartOf(n, offset, w)) * Pow2[offset]

Compares(predicate, a, b) ==
  CASE predicate = "Equals" -> a = b
    [] predicate = "NotEquals" -> a # b
    [] predicate = "LessThan" -> a < b
    [] predicate = "GreaterThan" -> a > b
    [] predicate = "LessThanOrEqual" -> a <= b
    [] predicate = "GreaterThanOrEqual" -> a >= b
================================================================================
