----------------------------------- MODULE Ops -----------------------------------
(****************************************************************************)
(* The word-level builders of formal-utils.  The variable vector of an FSM  *)
(* under construction is the sequence of its drivers (variable k is element *)
(* k + 1), a word is a sequence of values with bit 0 first, and a builder   *)
(* returns the vector with its gates appended and what they compute.        *)
(****************************************************************************)
EXTENDS Fsm, Arithmetic, SequencesExt

False == Const(FALSE)
True == Const(TRUE)
Not(v) == Xor(v, TRUE)
NotAll(a) == [k \in DOMAIN a |-> Not(a[k])]
Zeros(w) == [k \in 1 .. w |-> False]
Built(ds, out) == [ds |-> ds, out |-> out]

(* What is built next, given what has been built: the statements of a       *)
(* builder in their order.                                                 *)
Then(built, next(_)) == next(built)

(* usize_values, unsigned: the low w bits of a number.                     *)
WordOf(n, w) == [k \in 1 .. w |-> Const(BitOf(n, k - 1))]

\* Mutant: the inputs of the gate stay in the order they are given in.
GateUnsorted(ds, type, a, b) ==
  Built(Append(ds, [kind |-> "gate", sign |-> TRUE, type |-> type, a |-> a, b |-> b]), Lit(Len(ds), TRUE))

Gate(ds, type, a, b) == Built(Append(ds, GateDriver(TRUE, type, a, b)), Lit(Len(ds), TRUE))

(* A loop: step for each of the numbers 1 .. n, lowest first.              *)
EachBit(step(_, _), base, n) ==
  LET after[k \in 0 .. n] == IF k = 0 THEN base ELSE step(after[k - 1], k) IN after[n]

(* add_variable_gate: the last two inputs are replaced by a gate of them.  *)
GateChain(ds, type, inputs) ==
  LET n == Len(inputs)
  IN EachBit(LAMBDA s, k : Gate(s.ds, type, s.out, inputs[n - k]), Built(ds, inputs[n]), n - 1)

(* A word of width w, bit after bit.                                       *)
BuildWord(ds, bit(_, _), w) ==
  EachBit(LAMBDA s, k : Then(bit(s.ds, k), LAMBDA g : Built(g.ds, Append(s.out, g.out))),
          Built(ds, <<>>), w)

--------------------------------------------------------------------------------
(* Constants and equal or complementary operands need no gate.             *)
XorGate(ds, a, b) ==
  IF a.index = NoVar THEN Built(ds, Xor(b, a.sign))
  ELSE IF b.index = NoVar THEN Built(ds, Xor(a, b.sign))
  ELSE IF a.index = b.index THEN Built(ds, Const(a # b))
  ELSE Then(Gate(ds, "And", a, b), LAMBDA and :
       Then(Gate(and.ds, "Or", a, b), LAMBDA or :
       Gate(or.ds, "And", or.out, Not(and.out))))

(* b when select holds, else a.                                            *)
MuxGate(ds, a, b, select) ==
  IF select.index = NoVar THEN Built(ds, IF select.sign THEN b ELSE a)
  ELSE IF a = b THEN Built(ds, a)
  ELSE IF a.index = NoVar /\ b.index = NoVar THEN Built(ds, Xor(select, a.sign))
  ELSE IF a = select THEN Gate(ds, "And", b, select)
  ELSE IF b = Not(select) THEN Gate(ds, "And", a, Not(select))
  ELSE Then(Gate(ds, "And", a, Not(select)), LAMBDA fromA :
       Then(Gate(fromA.ds, "And", b, select), LAMBDA fromB :
       Gate(fromB.ds, "Or", fromA.out, fromB.out)))

Mux(ds, a, b, select) == BuildWord(ds, LAMBDA d, k : MuxGate(d, a[k], b[k], select), Len(a))

--------------------------------------------------------------------------------
FullAdder(ds, a, b, carry) ==
  Then(XorGate(ds, a, b), LAMBDA xor :
  Then(XorGate(xor.ds, xor.out, carry), LAMBDA sum :
  Then(Gate(sum.ds, "And", a, b), LAMBDA ab :
  Then(Gate(ab.ds, "And", a, carry), LAMBDA ac :
  Then(Gate(ac.ds, "And", b, carry), LAMBDA bc :
  Then(GateChain(bc.ds, "Or", <<ab.out, ac.out, bc.out>>), LAMBDA or :
  [ds |-> or.ds, out |-> sum.out, carry |-> or.out]))))))

RippleAdder(ds, a, b, carry) ==
  Then(EachBit(LAMBDA s, k : Then(FullAdder(s.ds, a[k], b[k], s.carry), LAMBDA bit :
                             [bit EXCEPT !.out = Append(s.out, @)]),
               [ds |-> ds, out |-> <<>>, carry |-> carry], Len(a)), LAMBDA sum :
  Built(sum.ds, sum.out))

Addition(ds, a, b) == RippleAdder(ds, a, b, False)
Subtraction(ds, a, b) == RippleAdder(ds, a, NotAll(b), True)
Negation(ds, a) == Subtraction(ds, Zeros(Len(a)), a)
ConditionalNegation(ds, a, negate) ==
  Then(Negation(ds, a), LAMBDA negated : Mux(negated.ds, a, negated.out, negate))

Multiplication(ds, a, b) ==
  LET w == Len(a)
  IN EachBit(LAMBDA s, k :
               Then(BuildWord(s.ds, LAMBDA e, i : IF i < k THEN Built(e, False)
                                                  ELSE Gate(e, "And", a[i - k + 1], b[k]), w), LAMBDA partial :
               Addition(partial.ds, s.out, partial.out)),
             Built(ds, Zeros(w)), w)

--------------------------------------------------------------------------------
Equals(ds, a, b) ==
  EachBit(LAMBDA s, k : Then(XorGate(s.ds, a[k], b[k]), LAMBDA xor :
                             Gate(xor.ds, "And", s.out, Not(xor.out))),
          Built(ds, True), Len(a))

LessThan(ds, a, b) ==
  EachBit(LAMBDA s, k :
            Then(XorGate(s.ds, a[k], b[k]), LAMBDA xor :
            Then(Gate(xor.ds, "And", Not(xor.out), s.out), LAMBDA lower :
            Then(Gate(lower.ds, "And", Not(a[k]), b[k]), LAMBDA here :
            Gate(here.ds, "Or", lower.out, here.out)))),
          Built(ds, False), Len(a))

Negated(g) == Built(g.ds, Not(g.out))
Comparison(ds, a, b, predicate) ==
  Then(CASE predicate \in {"Equals", "NotEquals"} -> Equals(ds, a, b)
         [] predicate \in {"LessThan", "GreaterThanOrEqual"} -> LessThan(ds, a, b)
         [] predicate \in {"GreaterThan", "LessThanOrEqual"} -> LessThan(ds, b, a), LAMBDA holds :
  IF predicate \in {"NotEquals", "LessThanOrEqual", "GreaterThanOrEqual"} THEN Negated(holds) ELSE holds)

--------------------------------------------------------------------------------
(* Restoring division from the highest bit, with a remainder one bit wider. *)
UnsignedDivision(ds, dividend, divisor) ==
  LET w == Len(dividend)
      wide == Append(divisor, False)
      Shift(s, k) == <<dividend[w - k + 1]>> \o Front(s.rest)
  IN Then(EachBit(LAMBDA s, k :
                    Then(Comparison(s.ds, Shift(s, k), wide, "GreaterThanOrEqual"), LAMBDA fits :
                    Then(Subtraction(fits.ds, Shift(s, k), wide), LAMBDA less :
                    Then(Mux(less.ds, Shift(s, k), less.out, fits.out), LAMBDA rest :
                    [ds |-> rest.ds, rest |-> rest.out, out |-> <<fits.out>> \o s.out]))),
                  [ds |-> ds, rest |-> Zeros(w + 1), out |-> <<>>], w), LAMBDA end :
     Built(end.ds, end.out))

SignedDivision(ds, dividend, divisor) ==
  Then(ConditionalNegation(ds, dividend, Last(dividend)), LAMBDA above :
  Then(ConditionalNegation(above.ds, divisor, Last(divisor)), LAMBDA below :
  Then(UnsignedDivision(below.ds, above.out, below.out), LAMBDA quotient :
  Then(XorGate(quotient.ds, Last(dividend), Last(divisor)), LAMBDA negative :
  ConditionalNegation(negative.ds, quotient.out, negative.out)))))

(* create_unsigned_remainder and create_signed_remainder, of their quotient.*)
Remainder(quotient, dividend, divisor) ==
  Then(Multiplication(quotient.ds, quotient.out, divisor), LAMBDA product :
  Subtraction(product.ds, dividend, product.out))

--------------------------------------------------------------------------------
(* create_select: pairs are halved by one bit of the index after another.  *)
Halved(ds, level, mux(_, _, _)) ==
  BuildWord(ds, LAMBDA d, k : mux(d, level[2 * k - 1], level[2 * k]), Len(level) \div 2)
Select(ds, choices, index) ==
  Then(EachBit(LAMBDA s, k : Halved(s.ds, s.out, LAMBDA d, a, b : MuxGate(d, a, b, index[k])),
               Built(ds, choices), Len(index)), LAMBDA last :
  Built(last.ds, last.out[1]))

(* The next distance of a rotation, kept below the width.                  *)
Twice(distance, w) == IF distance >= w - distance THEN distance - (w - distance)
                      ELSE distance + distance

Shifted(a, distance, operation) ==
  LET w == Len(a)
      At(k, fill) == IF k \in 1 .. w THEN a[k] ELSE fill
  IN [k \in 1 .. w |->
        CASE operation = "ShiftLeft" -> At(k - distance, False)
          [] operation = "ShiftRight" -> At(k + distance, False)
          [] operation = "ShiftRightArithmetic" -> At(k + distance, a[w])
          [] operation = "RotateLeft" -> a[((k - 1 + w - distance) % w) + 1]
          [] operation = "RotateRight" -> a[((k - 1 + distance) % w) + 1]]

(* One stage for each bit of the amount, which may have more bits than the *)
(* width needs.                                                            *)
Shifter(ds, a, amount, operation) ==
  LET w == Len(a)
      rotates == operation \in {"RotateLeft", "RotateRight"}
      Distance(s, k) == IF rotates THEN s.turn ELSE Pow2[k - 1]
  IN Then(EachBit(LAMBDA s, k :
                    Then(Mux(s.ds, s.out, Shifted(s.out, Distance(s, k), operation), amount[k]), LAMBDA stage :
                    [ds |-> stage.ds, out |-> stage.out, turn |-> Twice(s.turn, w)]),
                  [ds |-> ds, out |-> a, turn |-> 1 % w], Len(amount)), LAMBDA end :
     Built(end.ds, end.out))
================================================================================
