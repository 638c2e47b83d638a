-------------------------------- MODULE CombGates --------------------------------
(****************************************************************************)
(* The operations of CIRCT's comb and hw dialects as circt-formal lowers    *)
(* them, on the words their operands became.  undefined is the word of free *)
(* inputs that stands for the result where the operation has none.         *)
(****************************************************************************)
EXTENDS Ops

Divisions == {"DivUnsigned", "DivSigned", "ModUnsigned", "ModSigned"}
ArrayOperations == {"ArrayGet", "ArrayInject"}

\* Mutant: only an array whose size is no power of two has indices to spare.
NeedsUndefinedButOne(operator, size) ==
  \/ operator \in Divisions
  \/ operator \in ArrayOperations /\ \A k \in 0 .. size : size # Pow2[k]

(* Which operations get synthetic inputs before any latch or gate exists.   *)
NeedsUndefined(operator, size) ==
  \/ operator \in Divisions
  \/ operator \in ArrayOperations /\ (size = 1 \/ (\A k \in 0 .. size : size # Pow2[k]))

ShiftOf(operator) ==
  CASE operator = "ShiftLeft" -> "ShiftLeft"
    [] operator = "ShiftRightSigned" -> "ShiftRightArithmetic"
    [] operator = "ShiftRightUnsigned" -> "ShiftRight"

(* One step of the fold over the operands.                                 *)
CombStep(ds, operator, a, b) ==
  LET Each(gate(_, _, _)) == BuildWord(ds, LAMBDA d, k : gate(d, a[k], b[k]), Len(a))
  IN CASE operator = "Add" -> Addition(ds, a, b)
       [] operator = "Sub" -> Subtraction(ds, a, b)
       [] operator = "Mul" -> Multiplication(ds, a, b)
       [] operator \in Divisions ->
            Then(IF operator \in {"DivSigned", "ModSigned"} THEN SignedDivision(ds, a, b)
                 ELSE UnsignedDivision(ds, a, b), LAMBDA quotient :
            IF operator \in {"ModSigned", "ModUnsigned"} THEN Remainder(quotient, a, b) ELSE quotient)
       [] operator = "Xor" -> Each(XorGate)
       [] operator \in {"And", "Or"} -> Each(LAMBDA d, x, y : GateChain(d, operator, <<x, y>>))
       [] operator \in {"ShiftLeft", "ShiftRightSigned", "ShiftRightUnsigned"} ->
            Shifter(ds, a, b, ShiftOf(operator))

CombGate(ds, operator, operands, undefined) ==
  Then(EachBit(LAMBDA s, k : CombStep(s.ds, operator, s.out, operands[k + 1]),
               Built(ds, operands[1]), Len(operands) - 1), LAMBDA folded :
  IF operator \notin Divisions THEN folded
  ELSE Then(GateChain(folded.ds, "And", NotAll(operands[2])), LAMBDA zero :
       Mux(zero.ds, folded.out, undefined, zero.out)))

(* What it computes of the numbers that the operands stand for.            *)
CombMeans(operator, numbers, w, any) ==
  EachBit(LAMBDA a, k : CombOf(operator, a, numbers[k + 1], w, any), numbers[1], Len(numbers) - 1)

FlipSignOf(word) == [word EXCEPT ![Len(word)] = Not(Last(word))]
ICmpGate(ds, predicate, signed, a, b) ==
  Then(Comparison(ds, IF signed THEN FlipSignOf(a) ELSE a, IF signed THEN FlipSignOf(b) ELSE b, predicate),
       LAMBDA result : Built(result.ds, <<result.out>>))

CombMux(ds, condition, true, false) == Mux(ds, false, true, condition[1])

(* hw.array_create and comb.concat: the last operand is the lowest.         *)
ConcatGate(ds, operands) == Built(ds, EachBit(LAMBDA s, k : operands[k] \o s, <<>>, Len(operands)))
ReplicateGate(ds, word, w) == Built(ds, EachBit(LAMBDA s, k : s \o word, <<>>, w \div Len(word)))
(* comb.extract, hw.union_extract (a member at its offset) and hw.bitcast.  *)
ExtractGate(ds, word, offset, w) == Built(ds, SubSeq(word, offset + 1, offset + w))

(****************************************************************************)
(* Arrays: each index is compared in turn.  width is an element's.         *)
(****************************************************************************)
Slot(array, i, width) == SubSeq(array, i * width + 1, (i + 1) * width)
IndexIs(ds, index, i) == Comparison(ds, index, WordOf(i, Len(index)), "Equals")
WithUndefined(s, index, size, undefined) ==
  Then(Comparison(s.ds, index, WordOf(size - 1, Len(index)), "LessThanOrEqual"), LAMBDA valid :
  Mux(valid.ds, undefined, s.out, valid.out))

ArrayGet(ds, array, index, size, undefined) ==
  LET width == Len(array) \div size
      step(s, k) == Then(IndexIs(s.ds, index, k - 1), LAMBDA select :
                         Mux(select.ds, s.out, Slot(array, k - 1, width), select.out))
  IN Then(EachBit(step, Built(ds, Zeros(width)), size), LAMBDA found :
     IF NeedsUndefined("ArrayGet", size) THEN WithUndefined(found, index, size, undefined) ELSE found)

ArrayInject(ds, array, index, value, size, undefined) ==
  LET width == Len(value)
      step(s, k) ==
        Then(IndexIs(s.ds, index, k - 1), LAMBDA select :
        Then(Mux(select.ds, Slot(s.out, k - 1, width), value, select.out), LAMBDA slot :
        Built(slot.ds, [i \in DOMAIN array |->
                          IF i - (k - 1) * width \in 1 .. width THEN slot.out[i - (k - 1) * width] ELSE s.out[i]])))
  IN Then(EachBit(step, Built(ds, array), size), LAMBDA updated :
     IF NeedsUndefined("ArrayInject", size) THEN WithUndefined(updated, index, size, undefined) ELSE updated)
================================================================================
