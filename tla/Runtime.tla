--------------------------------- MODULE Runtime ---------------------------------
(****************************************************************************)
(* The runtime of the generated simulator: Bits<WIDTH, S>, as a sequence of *)
(* Booleans with bit 0 first, and its operations.  A panic is a value that  *)
(* no word has.  No state.                                                 *)
(****************************************************************************)
EXTENDS Arithmetic, Sequences, FiniteSetsExt

Panic == <<>>
OutOfRange == -1

(* Bits::bit: beyond the width there are zeros.                            *)
Bit(b, i) == i \in 0 .. Len(b) - 1 /\ b[i + 1]
FromFn(w, bit(_)) == [k \in 1 .. w |-> bit(k - 1)]
FromNumber(n, w) == FromFn(w, LAMBDA i : BitOf(n, i))
FromBool(b) == <<b>>
Number(b) ==
  LET low[k \in 0 .. Len(b)] == IF k = 0 THEN 0 ELSE low[k - 1] + (IF b[k] THEN Pow2[k - 1] ELSE 0)
  IN low[Len(b)]
TruthyBits(b) == \E k \in DOMAIN b : b[k]

Resize(b, w, signed) ==
  FromFn(w, LAMBDA i : IF i < Len(b) THEN Bit(b, i) ELSE signed /\ Bit(b, Len(b) - 1))
BitNot(b) == FromFn(Len(b), LAMBDA i : ~Bit(b, i))
ReduceAnd(b) == FromBool(\A k \in DOMAIN b : b[k])
ReduceOr(b) == FromBool(TruthyBits(b))
ReduceXor(b) == FromBool(Quantify(DOMAIN b, LAMBDA k : b[k]) % 2 = 1)
Bitwise(a, b, w, operation(_, _)) == FromFn(w, LAMBDA i : operation(Bit(a, i), Bit(b, i)))

(****************************************************************************)
(* Storage: numbers wrap at the width of the storage, then are masked to    *)
(* the width of the type.  The widths of this model are stored in a u8, a    *)
(* single bit in a bool, whose arithmetic is masked to a bit just so.       *)
(****************************************************************************)
Capacity == 8
Stored(n, w) == FromNumber(n % Pow2[Capacity], w)
Add(a, b) == Stored(Number(a) + Number(b), Len(a))
Sub(a, b) == Stored(Number(a) - Number(b), Len(a))
Mul(a, b) == Stored(Number(a) * Number(b), Len(a))
DivUnsigned(a, b) ==
  Stored(IF Number(b) = 0 THEN Pow2[Capacity] - 1 ELSE Number(a) \div Number(b), Len(a))

Negate(b) == Sub(FromNumber(0, Len(b)), b)
NegateIf(b, negative) == IF negative THEN Negate(b) ELSE b
DivSigned(a, b) ==
  LET signA == Bit(a, Len(a) - 1)
      signB == Bit(b, Len(b) - 1)
  IN NegateIf(DivUnsigned(NegateIf(a, signA), NegateIf(b, signB)), signA # signB)

(* From the highest bit down, the first bit that differs decides.          *)
Cmp(a, b, signed) ==
  LET w == Max({Len(a), Len(b)})
      wideA == Resize(a, w, signed)
      wideB == Resize(b, w, signed)
      differ == {k \in 1 .. w : wideA[k] # wideB[k]}
  IN IF differ = {} THEN "Equal"
     ELSE IF wideA[Max(differ)] # (signed /\ Max(differ) = w) THEN "Greater" ELSE "Less"

(* The fill is the sign of a value that is already as wide as the result.  *)
Shift(b, amount, w, right, arithmetic) ==
  LET fill == arithmetic /\ Bit(b, w - 1)
      distance == Number(amount)
      value == Resize(b, w, FALSE)
  IN IF distance >= w THEN FromFn(w, LAMBDA i : fill)
     ELSE IF right THEN FromFn(w, LAMBDA i : IF i + distance < w THEN Bit(value, i + distance) ELSE fill)
     ELSE FromFn(w, LAMBDA i : Bit(value, i - distance))

ConcatBits(l, r, w) == FromFn(w, LAMBDA i : IF i < Len(r) THEN Bit(r, i) ELSE Bit(l, i - Len(r)))
ReplicateBits(b, w, count) == FromFn(w, LAMBDA i : i < Len(b) * count /\ Bit(b, i % Len(b)))
SelectBits(b, offset, w) == FromFn(w, LAMBDA i : Bit(b, offset + i))

(* A write that would reach beyond the vector is skipped as a whole.       *)
AssignSelect(b, offset, w, value) ==
  IF offset + w > Len(b) THEN b
  ELSE FromFn(Len(b), LAMBDA i : IF i \in offset .. offset + w - 1 THEN Bit(value, i - offset)
                                 ELSE Bit(b, i))

\* Mutant: the index of an array that is declared downwards counts from below.
OffsetFromRight(index, layout) ==
  IF index \notin layout.left .. layout.right \cup layout.right .. layout.left THEN OutOfRange
  ELSE layout.width * (index - Min({layout.left, layout.right}))

ArrayOffset(index, layout) ==
  IF index \in layout.left .. layout.right THEN layout.width * (index - layout.left)
  ELSE IF index \in layout.right .. layout.left THEN layout.width * (layout.left - index)
  ELSE OutOfRange

--------------------------------------------------------------------------------
(****************************************************************************)
(* The same expressions and targets as simulator-rust generates them: calls *)
(* of the runtime on the values of the operands.  A panic of an operand is  *)
(* one of the expression, but a conditional evaluates one branch only.     *)
(****************************************************************************)

Strictly(operands, value) == IF Panic \in operands THEN Panic ELSE value

(* resize_read.                                                            *)
ResizeRead(b, w, signed) == IF Len(b) = w THEN b ELSE Resize(b, w, signed)

UnaryCalls(operator, b, w) ==
  CASE operator = "BitwiseNot" -> BitNot(b)
    [] operator = "Negate" -> Negate(b)
    [] operator = "ReduceAnd" -> ReduceAnd(b)
    [] operator = "ReduceOr" -> ReduceOr(b)
    [] operator = "ReduceXor" -> ReduceXor(b)
    [] operator = "LogicalNot" -> FromBool(~TruthyBits(b))
    [] operator = "ZeroExtend" -> ResizeRead(b, w, FALSE)
    [] operator = "SignExtend" -> ResizeRead(b, w, TRUE)

(* The comparisons that an Ordering satisfies.                             *)
Satisfied(ordering) ==
  CASE ordering = "Less" -> {"LessThan", "LessThanOrEqual"}
    [] ordering = "Equal" -> {"LessThanOrEqual", "GreaterThanOrEqual"}
    [] ordering = "Greater" -> {"GreaterThan", "GreaterThanOrEqual"}

Orderings == {"LessThan", "LessThanOrEqual", "GreaterThan", "GreaterThanOrEqual"}

(* binary_expression.                                                      *)
BinaryCalls(operator, a, b, w, signed) ==
  LET A(s) == ResizeRead(a, w, s)
      B(s) == ResizeRead(b, w, s)
      both == Max({Len(a), Len(b)})
      equal == ResizeRead(a, both, FALSE) = ResizeRead(b, both, FALSE)
      Compared(kind) == FromBool(operator \in {c \o kind : c \in Satisfied(Cmp(a, b, kind = "Signed"))})
  IN CASE operator = "BitwiseAnd" -> Bitwise(a, b, w, LAMBDA x, y : x /\ y)
       [] operator = "BitwiseOr" -> Bitwise(a, b, w, LAMBDA x, y : x \/ y)
       [] operator = "BitwiseXor" -> Bitwise(a, b, w, LAMBDA x, y : x # y)
       [] operator = "Add" -> Add(A(signed), B(signed))
       [] operator = "Subtract" -> Sub(A(signed), B(signed))
       [] operator = "MultiplyUnsigned" -> Mul(A(FALSE), B(FALSE))
       [] operator = "MultiplySigned" -> Mul(A(TRUE), B(TRUE))
       [] operator = "DivideUnsigned" -> DivUnsigned(A(FALSE), B(FALSE))
       [] operator = "DivideSigned" -> DivSigned(A(TRUE), B(TRUE))
       [] operator = "Equal" -> FromBool(equal)
       [] operator = "NotEqual" -> FromBool(~equal)
       [] operator \in {c \o "Unsigned" : c \in Orderings} -> Compared("Unsigned")
       [] operator \in {c \o "Signed" : c \in Orderings} -> Compared("Signed")
       [] operator = "LogicalAnd" -> FromBool(TruthyBits(a) /\ TruthyBits(b))
       [] operator = "LogicalOr" -> FromBool(TruthyBits(a) \/ TruthyBits(b))
       [] operator = "ShiftLeft" -> Shift(a, b, w, FALSE, FALSE)
       [] operator = "ShiftRight" -> Shift(a, b, w, TRUE, FALSE)
       [] operator = "ShiftRightArithmetic" -> Shift(a, b, w, TRUE, TRUE)
       [] operator = "Concat" -> ConcatBits(a, b, w)

ConditionalCalls(condition, then, else, w) ==
  IF condition = Panic THEN Panic
  ELSE LET taken == IF TruthyBits(condition) THEN then ELSE else
       IN Strictly({taken}, ResizeRead(taken, w, FALSE))

ArraySelectCalls(array, index, layout) ==
  LET offset == ArrayOffset(Number(index), layout)
  IN IF offset = OutOfRange THEN Panic ELSE SelectBits(array, offset, layout.width)

(* emit_target: the sum of the offsets along the path, and assign_select.   *)
StepOffset(step) ==
  CASE step.kind = "literal" -> step.offset
    [] step.kind = "select" -> Number(step.offset)
    [] step.kind = "element" -> ArrayOffset(Number(step.offset), step.layout)
WidthOf(step) == IF step.kind = "element" THEN step.layout.width ELSE step.width

AssignCalls(variable, path, value) ==
  LET offset == MapThenSumSet(LAMBDA k : StepOffset(path[k]), DOMAIN path)
  IN IF path = <<>> THEN ResizeRead(value, Len(variable), FALSE)
     ELSE IF \E k \in DOMAIN path : StepOffset(path[k]) = OutOfRange THEN Panic
     ELSE AssignSelect(variable, offset, WidthOf(path[Len(path)]), value)
================================================================================
