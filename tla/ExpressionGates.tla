----------------------------- MODULE ExpressionGates -----------------------------
(****************************************************************************)
(* Expressions and assignment targets of the Verilator AST as verilator-    *)
(* formal turns them into gates, one node at a time: the operands are the   *)
(* words that its operands became.  w is the width of the node.            *)
(****************************************************************************)
EXTENDS Ops

ResizeValues(value, w, signed) ==
  [k \in 1 .. w |-> IF k <= Len(value) THEN value[k]
                    ELSE IF signed /\ value # <<>> THEN Last(value) ELSE False]

TruthyGate(ds, value) ==
  IF Len(value) = 1 THEN Built(ds, value[1]) ELSE GateChain(ds, "Or", value)

EqualsConstantWithoutOr(ds, value, n) ==
  LET constant == WordOf(n, Len(value))
  IN GateChain(ds, "And", [k \in DOMAIN value |-> IF constant[k] = True THEN value[k] ELSE Not(value[k])])

MuxValueWithoutOr(ds, l, r, select) ==
  Then(Gate(ds, "And", l, Not(select)), LAMBDA left :
  Then(Gate(left.ds, "And", r, select), LAMBDA right :
  Negated(Gate(right.ds, "And", Not(left.out), Not(right.out)))))
MuxWithoutOr(ds, l, r, select) ==
  BuildWord(ds, LAMBDA d, k : MuxValueWithoutOr(d, l[k], r[k], select), Len(l))

SelectWithoutOr(ds, choices, index) ==
  Then(EachBit(LAMBDA s, k : Halved(s.ds, s.out, LAMBDA d, a, b : MuxValueWithoutOr(d, a, b, index[k])),
               Built(ds, choices), Len(index)), LAMBDA last :
  Built(last.ds, last.out[1]))

--------------------------------------------------------------------------------
(* unary_expression.                                                       *)
UnaryGates(ds, operator, value, w) ==
  LET xor == EachBit(LAMBDA s, k : XorGate(s.ds, s.out, value[k]), Built(ds, False), Len(value))
      Bitwise1(g) == Built(g.ds, <<g.out>>)
  IN CASE operator = "BitwiseNot" -> Built(ds, NotAll(value))
       [] operator = "Negate" -> Negation(ds, value)
       [] operator = "ReduceAnd" -> Bitwise1(GateChain(ds, "And", value))
       [] operator = "ReduceOr" -> Bitwise1(GateChain(ds, "Or", value))
       [] operator = "ReduceXor" -> Bitwise1(xor)
       [] operator = "LogicalNot" -> Bitwise1(Negated(TruthyGate(ds, value)))
       [] operator = "ZeroExtend" -> Built(ds, ResizeValues(value, w, FALSE))
       [] operator = "SignExtend" -> Built(ds, ResizeValues(value, w, TRUE))

FlipSign(word) == [word EXCEPT ![Len(word)] = Not(Last(word))]
Predicate(operator) ==
  CASE operator = "Equal" -> "Equals"
    [] operator = "NotEqual" -> "NotEquals"
    [] operator \in {"LessThanUnsigned", "LessThanSigned"} -> "LessThan"
    [] operator \in {"LessThanOrEqualUnsigned", "LessThanOrEqualSigned"} -> "LessThanOrEqual"
    [] operator \in {"GreaterThanUnsigned", "GreaterThanSigned"} -> "GreaterThan"
    [] operator \in {"GreaterThanOrEqualUnsigned", "GreaterThanOrEqualSigned"} -> "GreaterThanOrEqual"
SignedComparisons == {"LessThanSigned", "LessThanOrEqualSigned", "GreaterThanSigned",
                      "GreaterThanOrEqualSigned"}
Comparisons == {"Equal", "NotEqual", "LessThanUnsigned", "LessThanOrEqualUnsigned",
                "GreaterThanUnsigned", "GreaterThanOrEqualUnsigned"} \cup SignedComparisons

(* Signed comparisons are unsigned ones of operands with the sign flipped. *)
CompareGates(ds, operator, lhs, rhs) ==
  LET w == Max({Len(lhs), Len(rhs)})
      signed == operator \in SignedComparisons
      Wide(value) == IF signed THEN FlipSign(ResizeValues(value, w, TRUE)) ELSE ResizeValues(value, w, FALSE)
  IN Then(Comparison(ds, Wide(lhs), Wide(rhs), Predicate(operator)), LAMBDA result :
     Built(result.ds, <<result.out>>))

PowerAtLeast[w \in Nat] == IF w <= 1 THEN 0 ELSE 1 + PowerAtLeast[(w + 1) \div 2]

\* Mutant: bits of the amount above the useful ones are dropped.
ShiftWithoutSaturation(ds, operator, value, amount, w) ==
  LET wide == ResizeValues(value, w, FALSE)
      useful == PowerAtLeast[w]
      fill == IF operator = "ShiftRightArithmetic" THEN Last(wide) ELSE False
      padded == [k \in 1 .. Pow2[useful] |-> IF k <= w THEN wide[k] ELSE fill]
  IN Then(Shifter(ds, padded, ResizeValues(amount, useful, FALSE), operator), LAMBDA shifted :
     Built(shifted.ds, SubSeq(shifted.out, 1, w)))

(* The value is padded to a power of two, so that the useful bits of the    *)
(* amount address every distance, and amounts beyond them saturate.  A      *)
(* single bit has no useful bits and is returned as it is.                 *)
ShiftGates(ds, operator, value, amount, w) ==
  LET wide == ResizeValues(value, w, FALSE)
      useful == PowerAtLeast[w]
      fill == IF operator = "ShiftRightArithmetic" THEN Last(wide) ELSE False
      padded == [k \in 1 .. Pow2[useful] |-> IF k <= w THEN wide[k] ELSE fill]
  IN IF useful = 0 THEN Built(ds, wide)
     ELSE Then(Shifter(ds, padded, ResizeValues(amount, useful, FALSE), operator), LAMBDA shifted :
          IF Len(amount) <= useful THEN Built(shifted.ds, SubSeq(shifted.out, 1, w))
          ELSE Then(TruthyGate(shifted.ds, SubSeq(amount, useful + 1, Len(amount))), LAMBDA oversized :
               Mux(oversized.ds, SubSeq(shifted.out, 1, w), [k \in 1 .. w |-> fill], oversized.out)))

(* binary_expression.                                                      *)
BinaryGates(ds, operator, lhs, rhs, w, signed) ==
  LET L(s) == ResizeValues(lhs, w, s)
      R(s) == ResizeValues(rhs, w, s)
      Each(gate(_, _, _)) == BuildWord(ds, LAMBDA d, k : gate(d, L(FALSE)[k], R(FALSE)[k]), w)
      Logical(type) == Then(TruthyGate(ds, lhs), LAMBDA left :
                       Then(TruthyGate(left.ds, rhs), LAMBDA right :
                       Then(Gate(right.ds, type, left.out, right.out), LAMBDA g :
                       Built(g.ds, <<g.out>>))))
  IN CASE operator = "BitwiseAnd" -> Each(LAMBDA d, a, b : Gate(d, "And", a, b))
       [] operator = "BitwiseOr" -> Each(LAMBDA d, a, b : Gate(d, "Or", a, b))
       [] operator = "BitwiseXor" -> Each(XorGate)
       [] operator = "Add" -> Addition(ds, L(signed), R(signed))
       [] operator = "Subtract" -> Subtraction(ds, L(signed), R(signed))
       [] operator = "MultiplyUnsigned" -> Multiplication(ds, L(FALSE), R(FALSE))
       [] operator = "MultiplySigned" -> Multiplication(ds, L(TRUE), R(TRUE))
       [] operator = "DivideUnsigned" -> UnsignedDivision(ds, L(FALSE), R(FALSE))
       [] operator = "DivideSigned" -> SignedDivision(ds, L(TRUE), R(TRUE))
       [] operator \in Comparisons -> CompareGates(ds, operator, lhs, rhs)
       [] operator = "LogicalAnd" -> Logical("And")
       [] operator = "LogicalOr" -> Logical("Or")
       [] operator \in {"ShiftLeft", "ShiftRight", "ShiftRightArithmetic"} ->
            ShiftGates(ds, operator, lhs, rhs, w)
       [] operator = "Concat" -> Built(ds, rhs \o lhs)

ConditionalGates(ds, condition, then, else, w) ==
  Then(TruthyGate(ds, condition), LAMBDA select :
  Mux(select.ds, ResizeValues(else, w, FALSE), ResizeValues(then, w, FALSE), select.out))

ReplicateGates(ds, value, count) == Built(ds, EachBit(LAMBDA s, k : s \o value, <<>>, count))

--------------------------------------------------------------------------------
(****************************************************************************)
(* Parts of vectors and elements of arrays, read and written.  An offset    *)
(* or index is a word, except that a SEL at a literal offset is a number.   *)
(****************************************************************************)
SelectLiteral(value, at, w) == SubSeq(value, at + 1, at + w)

(* select_value: bits beyond the vector read as zero.                      *)
SelectGates(ds, value, offset, w) ==
  LET useful == PowerAtLeast[Len(value)]
      ChoicesOf(bit) == [c \in 1 .. Pow2[useful] |->
                         IF c + bit - 1 <= Len(value) THEN value[c + bit - 1] ELSE False]
      Choose(d, bit) == SelectWithoutOr(d, ChoicesOf(bit), ResizeValues(offset, useful, FALSE))
  IN Then(BuildWord(ds, Choose, w), LAMBDA chosen :
     IF Len(offset) <= useful THEN chosen
     ELSE Then(TruthyGate(chosen.ds, SubSeq(offset, useful + 1, Len(offset))), LAMBDA oversized :
          Mux(oversized.ds, chosen.out, Zeros(w), oversized.out)))

(* Range as an iterator: the declared indices from left to right.          *)
Declared(layout, k) == IF layout.left <= layout.right THEN layout.left + k - 1 ELSE layout.left - k + 1
Elements(layout) == IF layout.left <= layout.right THEN layout.right - layout.left + 1
                    ELSE layout.left - layout.right + 1
Element(layout, array, k) == SubSeq(array, (k - 1) * layout.width + 1, k * layout.width)
Overwritten(word, offset, value) ==
  [k \in DOMAIN word |-> IF k - offset \in DOMAIN value THEN value[k - offset] ELSE word[k]]

ArraySelectGates(ds, array, index, layout) ==
  LET step(s, k) ==
        Then(EqualsConstantWithoutOr(s.ds, index, Declared(layout, k)), LAMBDA selected :
        MuxWithoutOr(selected.ds, s.out, Element(layout, array, k), selected.out))
  IN EachBit(step, Built(ds, Zeros(layout.width)), Elements(layout))

(* A target is a path from the variable to the part that is written: the    *)
(* first step applies to the variable.  read_target.                       *)
Descend(ds, word, step) ==
  CASE step.kind = "literal" -> Built(ds, SelectLiteral(word, step.offset, step.width))
    [] step.kind = "select" -> SelectGates(ds, word, step.offset, step.width)
    [] step.kind = "element" -> ArraySelectGates(ds, word, step.offset, step.layout)
ReadTarget(ds, word, path) == 
  EachBit(LAMBDA s, k : Descend(s.ds, s.out, path[k]), Built(ds, word), Len(path))

(* Every place the offset may mean, one after the other.                   *)
SelectWriteGates(ds, word, step, value) ==
  LET candidates == Len(word) - step.width + 1
      at(s, k) ==
        Then(EqualsConstantWithoutOr(s.ds, step.offset, k - 1), LAMBDA selected :
        MuxWithoutOr(selected.ds, s.out, Overwritten(word, k - 1, value), selected.out))
  IN EachBit(at, Built(ds, word), candidates)
ElementWriteGates(ds, word, step, value) ==
  LET layout == step.layout
      at(s, k) ==
        Then(EqualsConstantWithoutOr(s.ds, step.offset, Declared(layout, k)), LAMBDA selected :
        MuxWithoutOr(selected.ds, s.out, Overwritten(word, (k - 1) * layout.width, value), selected.out))
  IN EachBit(at, Built(ds, word), Elements(layout))

(* assign: the part is put into what surrounds it, from the inside out.     *)
AssignGates(ds, variable, path, value) ==
  LET Overwrite(around, step, part) ==
        CASE step.kind = "literal" -> Built(around.ds, Overwritten(around.out, step.offset, part))
          [] step.kind = "select" -> SelectWriteGates(around.ds, around.out, step, part)
          [] step.kind = "element" -> ElementWriteGates(around.ds, around.out, step, part)
      at(s, k) == LET last == Len(path) - k + 1
                  IN Overwrite(ReadTarget(s.ds, variable, SubSeq(path, 1, last - 1)), path[last], s.out)
  IN Then(EachBit(at, Built(ds, value), Len(path)), LAMBDA whole :
     Built(whole.ds, ResizeValues(whole.out, Len(variable), FALSE)))
================================================================================
