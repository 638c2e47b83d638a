-------------------------------- MODULE Operators --------------------------------
(****************************************************************************)
(* Word-level expressions built one node at a time over an FSM that only    *)
(* grows, by verilator-formal and, from the same nodes, by simulator-rust;  *)
(* or by circt-formal.  Each word carries the values that the design gives  *)
(* it, for every assignment to the inputs, and the simulator's values.     *)
(****************************************************************************)
EXTENDS ExpressionGates, CombGates, Runtime

CONSTANT
  Operands  \* records: the number of inputs, the front end, the words over the inputs that
            \* nodes are built on, a word of undefined inputs, and how many nodes to build

OperandsAssumption ==
  \A o \in Operands : /\ o.inputs \in Nat
                      /\ o.front \in {"verilator", "circt", "library"}
                      /\ o.words \in Seq(Seq(Values(o.inputs)) \ {<<>>}) \ {<<>>}
                      /\ o.undefined \in Seq(Values(o.inputs))
ASSUME OperandsAssumption

VARIABLES
  given,  \* the member of Operands
  ds,     \* the drivers of the FSM under construction
  words,  \* sequence of words: the bits, what it means, what the simulator computes, and the
          \* assignments under which it took an index or offset outside of what is indexed
  node    \* the operator of the last node, and whether some node lost a shift amount

vars == <<given, ds, words, node>>

Assignments == 0 .. Pow2[given.inputs] - 1

(* The assignments under which a value holds, from those of the variables, *)
(* and under which the variable holds that d drives, from those before it.  *)
Where(holds, v) ==
  IF v.index = NoVar THEN IF v.sign THEN Assignments ELSE {}
  ELSE IF v.sign THEN holds[v.index + 1] ELSE Assignments \ holds[v.index + 1]
DrivenBy(holds, d) ==
  LET both == IF d.type = "And" THEN Where(holds, d.a) \cap Where(holds, d.b)
              ELSE Where(holds, d.a) \cup Where(holds, d.b)
  IN IF d.kind = "input" THEN {e \in Assignments : BitOf(e, Len(holds))}
     ELSE IF d.sign THEN both ELSE Assignments \ both

(* For each variable, in groups of Group of them.                          *)
Group == 32
Settled(drivers) ==
  LET one(holds, k) == IF Len(holds) = Len(drivers) THEN holds
                       ELSE Append(holds, DrivenBy(holds, drivers[Len(holds) + 1]))
      more(holds, g) == IF Len(holds) = Len(drivers) THEN holds ELSE EachBit(one, holds, Group)
  IN EachBit(more, <<>>, Len(drivers) \div Group + 1)
ValueIn(holds, bits, e) ==
  Number([k \in DOMAIN bits |-> bits[k].sign = (bits[k].index = NoVar \/ e \in holds[bits[k].index + 1])])

(* A word over the inputs: each of its bits is a constant or a literal.     *)
InputWord(bits) ==
  LET Value(e) == [k \in DOMAIN bits |-> bits[k].sign = (bits[k].index = NoVar \/ BitOf(e, bits[k].index))]
  IN [bits |-> bits, means |-> [e \in Assignments |-> Number(Value(e))],
      calls |-> [e \in Assignments |-> Value(e)], outside |-> {}]

Init ==
  /\ given \in Operands
  /\ ds = [k \in 1 .. given.inputs |-> InputDriver]
  /\ words = [k \in DOMAIN given.words |-> InputWord(given.words[k])]
  /\ node = [operator |-> "none", loses |-> FALSE]

Width(k) == Len(words[k].bits)
CanBuild(front) == given.front = front /\ Len(words) < Len(given.words) + given.nodes
(* The operands of a node: after the first node, one of them is the last.   *)
Fresh(operands) == Len(words) = Len(given.words) \/ Len(words) \in operands

(* verilator-formal returns a value of one bit unshifted, whatever the      *)
(* amount (convert.rs:942); its word and what is built on it are excused.   *)
LosesAmount(operator, w) ==
  given.front = "verilator" /\ operator \in {"ShiftLeft", "ShiftRight", "ShiftRightArithmetic"} /\ w = 1

(* One more node: its gates, what it means, and the calls that compute it.  *)
Node(operator, built, means(_), calls(_), outside) ==
  /\ ds' = built.ds
  /\ words' = Append(words, [bits |-> built.out, means |-> [e \in Assignments |-> means(e)],
                             calls |-> [e \in Assignments |-> calls(e)], outside |-> outside])
  /\ node' = [operator |-> operator, loses |-> node.loses \/ LosesAmount(operator, Len(built.out))]
  /\ UNCHANGED given

M(k, e) == words[k].means[e]
R(k, e) == words[k].calls[e]
Outside(operands) == UNION {words[k].outside : k \in operands}

--------------------------------------------------------------------------------
(* The Verilator path.  Calls on operands that panicked panic.             *)
UnaryMeans(operator, n, from, w) ==
  CASE operator = "BitwiseNot" -> Pow2[from] - 1 - n
    [] operator = "Negate" -> Wrap(-n, from)
    [] operator = "ReduceAnd" -> Truth(n = Pow2[from] - 1)
    [] operator = "ReduceOr" -> Truth(n # 0)
    [] operator = "ReduceXor" -> Ones[n] % 2
    [] operator = "LogicalNot" -> Truth(n = 0)
    [] operator = "ZeroExtend" -> n
    [] operator = "SignExtend" -> ReadAs(n, from, w, TRUE)
UnaryOperators == {"BitwiseNot", "Negate", "ReduceAnd", "ReduceOr", "ReduceXor", "LogicalNot"}

Unary == \E k \in DOMAIN words, operator \in UnaryOperators \cup {"ZeroExtend", "SignExtend"} :
  \E w \in IF operator \in UnaryOperators THEN {Width(k)} ELSE Width(k) .. 3 :
    /\ CanBuild("verilator") /\ Fresh({k})
    /\ Node(operator, UnaryGates(ds, operator, words[k].bits, w),
            LAMBDA e : UnaryMeans(operator, M(k, e), Width(k), w),
            LAMBDA e : Strictly({R(k, e)}, UnaryCalls(operator, R(k, e), w)),
            Outside({k}))

BitwiseOperators == {"BitwiseAnd", "BitwiseOr", "BitwiseXor"}
SignlessOperators == BitwiseOperators \cup {"MultiplyUnsigned", "MultiplySigned", "DivideUnsigned", "DivideSigned"}
ShiftOperators == {"ShiftLeft", "ShiftRight", "ShiftRightArithmetic"}
LogicalOperators == {"LogicalAnd", "LogicalOr"}

(* from and other are the widths of the operands a and b.                   *)
BinaryMeans(operator, a, from, b, other, w, signed) ==
  LET A(s) == ReadAs(a, from, w, s)
      B(s) == ReadAs(b, other, w, s)
      Compared(s) ==
        Truth(Compares(Predicate(operator), IF s THEN SignedOf(a, from) ELSE a,
                                                         IF s THEN SignedOf(b, other) ELSE b))
  IN CASE operator = "BitwiseAnd" -> AndOf(A(FALSE), B(FALSE), w)
       [] operator = "BitwiseOr" -> OrOf(A(FALSE), B(FALSE), w)
       [] operator = "BitwiseXor" -> XorOf(A(FALSE), B(FALSE), w)
       [] operator = "Add" -> Wrap(A(signed) + B(signed), w)
       [] operator = "Subtract" -> Wrap(A(signed) - B(signed), w)
       [] operator = "MultiplyUnsigned" -> Wrap(A(FALSE) * B(FALSE), w)
       [] operator = "MultiplySigned" ->
            Wrap(SignedOf(a, from) * SignedOf(b, other), w)
       [] operator = "DivideUnsigned" -> Quotient(A(FALSE), B(FALSE), w, FALSE)
       [] operator = "DivideSigned" -> Quotient(A(TRUE), B(TRUE), w, TRUE)
       [] operator \in Comparisons -> Compared(operator \in SignedComparisons)
       [] operator = "LogicalAnd" -> Truth(a # 0 /\ b # 0)
       [] operator = "LogicalOr" -> Truth(a # 0 \/ b # 0)
       [] operator = "ShiftLeft" -> ShiftedLeft(A(FALSE), b, w)
       [] operator = "ShiftRight" -> ShiftedRight(A(FALSE), b, w, FALSE)
       [] operator = "ShiftRightArithmetic" -> ShiftedRight(A(FALSE), b, w, TRUE)
       [] operator = "Concat" -> a * Pow2[other] + b

BinaryNode(operator, j, k, w, signed) ==
  /\ CanBuild("verilator") /\ Fresh({j, k})
  /\ Node(operator,
          BinaryGates(ds, operator, words[j].bits, words[k].bits, w, signed),
          LAMBDA e : BinaryMeans(operator, M(j, e), Width(j), M(k, e), Width(k), w, signed),
          LAMBDA e : Strictly({R(j, e), R(k, e)}, BinaryCalls(operator, R(j, e), R(k, e), w, signed)),
          Outside({j, k}))

Binary == \E j, k \in DOMAIN words :
  \/ \E operator \in SignlessOperators \cup ShiftOperators, w \in {Width(j), Width(k)} :
       BinaryNode(operator, j, k, w, FALSE)
  \/ \E operator \in {"Add", "Subtract"}, signed \in BOOLEAN, w \in {Width(j), Width(k), 3} :
       BinaryNode(operator, j, k, w, signed)
  \/ \E operator \in Comparisons \cup LogicalOperators : BinaryNode(operator, j, k, 1, FALSE)
  \/ BinaryNode("Concat", j, k, Width(j) + Width(k), FALSE)

Conditional == \E c, j, k \in DOMAIN words : \E w \in {Width(j), Width(k)} :
  /\ CanBuild("verilator") /\ Fresh({c, j, k})
  /\ Node("Conditional",
          ConditionalGates(ds, words[c].bits, words[j].bits, words[k].bits, w),
          LAMBDA e : Wrap(IF M(c, e) # 0 THEN M(j, e) ELSE M(k, e), w),
          LAMBDA e : ConditionalCalls(R(c, e), R(j, e), R(k, e), w),
          Outside({c}) \cup {e \in Assignments : e \in Outside({IF M(c, e) # 0 THEN j ELSE k})})

Replicate == \E k \in DOMAIN words, count \in 1 .. 3 :
  /\ CanBuild("verilator") /\ Fresh({k})
  /\ Node("Replicate", ReplicateGates(ds, words[k].bits, count),
          LAMBDA e : Copies(M(k, e), Width(k), count),
          LAMBDA e : Strictly({R(k, e)}, ReplicateBits(R(k, e), count * Width(k), count)),
          Outside({k}))

--------------------------------------------------------------------------------
(* Parts and elements.  Verilator makes an index wide enough for what it    *)
(* indexes, and wider where it computes one.                               *)
WideEnough(k, highest) == highest < Pow2[Width(k)]
(* Ways to declare a variable of width w as an array, upwards and downwards.*)
Arrays(w) ==
  LET Downwards(l) == [l EXCEPT !.left = l.right, !.right = l.left]
      upwards == {[left |-> low, right |-> low + n - 1, width |-> w \div n] :
                    low \in 0 .. 1, n \in {m \in 2 .. w : w % m = 0}}
  IN upwards \cup {Downwards(l) : l \in upwards}
Highest(layout) == Max({layout.left, layout.right})
Position(step, n) ==
  IF step.kind # "element" THEN n
  ELSE IF n \in step.layout.left .. step.layout.right THEN step.layout.width * (n - step.layout.left)
  ELSE IF n \in step.layout.right .. step.layout.left THEN step.layout.width * (step.layout.left - n)
  ELSE OutOfRange

SelectPart == \E j, k \in DOMAIN words : \E w \in 1 .. Width(j) :
  /\ CanBuild("verilator") /\ Fresh({j, k})
  /\ Node("Select", SelectGates(ds, words[j].bits, words[k].bits, w),
          LAMBDA e : PartOf(M(j, e), M(k, e), w),
          LAMBDA e : Strictly({R(j, e), R(k, e)}, SelectBits(R(j, e), Number(R(k, e)), w)),
          Outside({j, k}))

LiteralSelect == \E j \in DOMAIN words : \E at \in 0 .. Width(j) - 1 : \E w \in 1 .. Width(j) - at :
  /\ CanBuild("verilator") /\ Fresh({j})
  /\ Node("LiteralSelect", Built(ds, SelectLiteral(words[j].bits, at, w)),
          LAMBDA e : PartOf(M(j, e), at, w),
          LAMBDA e : Strictly({R(j, e)}, SelectBits(R(j, e), at, w)),
          Outside({j}))

ArraySelect == \E j, k \in DOMAIN words : \E layout \in Arrays(Width(j)) :
  LET At(e) == Position([kind |-> "element", layout |-> layout], M(k, e)) IN
  /\ CanBuild("verilator") /\ Fresh({j, k}) /\ WideEnough(k, Highest(layout))
  /\ Node("ArraySelect", ArraySelectGates(ds, words[j].bits, words[k].bits, layout),
          LAMBDA e : IF At(e) = OutOfRange THEN 0 ELSE PartOf(M(j, e), At(e), layout.width),
          LAMBDA e : IF Panic \in {R(j, e), R(k, e)} THEN Panic
                     ELSE ArraySelectCalls(R(j, e), R(k, e), layout),
          Outside({j, k}) \cup {e \in Assignments : At(e) = OutOfRange})

(****************************************************************************)
(* Assignments to a part of variable j.  The offset of a step is a number   *)
(* (literal) or the number of a word.  The word built is the variable       *)
(* after the assignment.                                                   *)
(****************************************************************************)
Step(kind, offset, w, layout) == [kind |-> kind, offset |-> offset, width |-> w, layout |-> layout]
StepsOn(w) ==
  {Step("literal", at, part, <<>>) : at \in 0 .. w - 1, part \in 1 .. w}
    \cup {Step("select", k, part, <<>>) : k \in DOMAIN words, part \in 1 .. w}
    \cup {Step("element", k, layout.width, layout) : k \in DOMAIN words, layout \in Arrays(w)}
Buildable(step, w) ==
  CASE step.kind = "literal" -> step.offset + step.width <= w
    [] step.kind = "select" -> WideEnough(step.offset, w - step.width)
    [] step.kind = "element" -> WideEnough(step.offset, Highest(step.layout))
Paths(w) ==
  LET first == {s \in StepsOn(w) : Buildable(s, w)}
      Second(f) == {s \in StepsOn(f.width) : s.kind # "element" /\ Buildable(s, f.width)}
  IN {<<>>} \cup {<<f>> : f \in first}
       \cup UNION {{<<f, s>> : s \in Second(f)} : f \in {x \in first : x.kind = "element"}}
With(path, offset(_)) ==
  [k \in DOMAIN path |-> IF path[k].kind = "literal" THEN path[k]
                         ELSE [path[k] EXCEPT !.offset = offset(@)]]
WordsOf(path) == {path[k].offset : k \in {i \in DOMAIN path : path[i].kind # "literal"}}

(* Where the part begins, if every step stays within the one before.        *)
PlaceOfPart(path, w) ==
  LET At(k) == Position(path[k], path[k].offset)
      Stays(k) == At(k) # OutOfRange /\ At(k) + path[k].width <= (IF k = 1 THEN w ELSE path[k - 1].width)
  IN IF \A k \in DOMAIN path : Stays(k) THEN MapThenSumSet(At, DOMAIN path) ELSE OutOfRange

Assign == \E j, v \in DOMAIN words : \E path \in Paths(Width(j)) :
  LET In(e) == With(path, LAMBDA k : M(k, e))
      place == [e \in Assignments |-> PlaceOfPart(In(e), Width(j))]
      operands == {j, v} \cup WordsOf(path)
  IN /\ CanBuild("verilator") /\ Fresh(operands)
     /\ path # <<>> => Width(v) = Last(path).width
     /\ Node("Assign", AssignGates(ds, words[j].bits, With(path, LAMBDA k : words[k].bits), words[v].bits),
             LAMBDA e : IF path = <<>> THEN ReadAs(M(v, e), Width(v), Width(j), FALSE)
                        ELSE IF place[e] = OutOfRange THEN M(j, e)
                        ELSE WithPart(M(j, e), place[e], Width(v), M(v, e)),
             LAMBDA e : IF Panic \in {R(k, e) : k \in operands} THEN Panic
                        ELSE AssignCalls(R(j, e), With(path, LAMBDA k : R(k, e)), R(v, e)),
             Outside(operands) \cup
               {e \in Assignments : place[e] = OutOfRange /\ (Len(path) > 1 \/ path[1].kind = "element")})

--------------------------------------------------------------------------------
(* The CIRCT path.  Where an operation has no result, the design has any:   *)
(* the value of the undefined inputs.                                      *)
Undefined(w) == SubSeq(given.undefined, 1, w)
AnyValue(w, e) == InputWord(Undefined(w)).means[e]
CirctNode(operator, built, means(_)) == Node(operator, built, means, LAMBDA e : Panic, {})

Variadic == {"Add", "Mul", "And", "Or", "Xor"}
Dyadic == Divisions \cup {"Sub", "ShiftLeft", "ShiftRightSigned", "ShiftRightUnsigned"}

Comb == \E operator \in Variadic \cup Dyadic, j, k, l \in DOMAIN words, n \in 1 .. 3 :
  LET operands == SubSeq(<<j, k, l>>, 1, n)
      w == Width(j)
  IN /\ CanBuild("circt") /\ Fresh({j, k, l}) /\ Width(k) = w /\ Width(l) = w
     /\ operator \in Dyadic => n = 2
     /\ operator \in Divisions => w <= Len(given.undefined)
     /\ CirctNode(operator,
          CombGate(ds, operator, [i \in DOMAIN operands |-> words[operands[i]].bits], Undefined(w)),
          LAMBDA e : CombMeans(operator, [i \in DOMAIN operands |-> M(operands[i], e)], w, AnyValue(w, e)))

ICmp == \E predicate \in {"Equals", "NotEquals", "LessThan", "GreaterThan", "LessThanOrEqual", "GreaterThanOrEqual"},
           signed \in BOOLEAN, j, k \in DOMAIN words :
  LET Read(i, e) == IF signed THEN SignedOf(M(i, e), Width(i)) ELSE M(i, e) IN
  /\ CanBuild("circt") /\ Fresh({j, k}) /\ Width(j) = Width(k)
  /\ signed => predicate \notin {"Equals", "NotEquals"}
  /\ CirctNode(predicate, ICmpGate(ds, predicate, signed, words[j].bits, words[k].bits),
               LAMBDA e : Truth(Compares(predicate, Read(j, e), Read(k, e))))

MuxNode == \E c, j, k \in DOMAIN words :
  /\ CanBuild("circt") /\ Fresh({c, j, k}) /\ Width(c) = 1 /\ Width(j) = Width(k)
  /\ CirctNode("Mux", CombMux(ds, words[c].bits, words[j].bits, words[k].bits),
               LAMBDA e : IF M(c, e) = 1 THEN M(j, e) ELSE M(k, e))

Wiring == \E j, k \in DOMAIN words :
  /\ CanBuild("circt") /\ Fresh({j, k})
  /\ \/ CirctNode("Concat", ConcatGate(ds, <<words[j].bits, words[k].bits>>),
                  LAMBDA e : M(j, e) * Pow2[Width(k)] + M(k, e))
     \/ \E count \in 1 .. 3 :
          /\ j = k
          /\ CirctNode("Replicate", ReplicateGate(ds, words[j].bits, count * Width(j)),
                       LAMBDA e : Copies(M(j, e), Width(j), count))
     \/ \E at \in 0 .. Width(j) - 1 : \E w \in 1 .. Width(j) - at :
          /\ j = k
          /\ CirctNode("Extract", ExtractGate(ds, words[j].bits, at, w),
                       LAMBDA e : PartOf(M(j, e), at, w))

(* validate_op: the index has as many bits as the size needs, one at least. *)
IndexWidth(size) == CHOOSE w \in 1 .. size : size <= Pow2[w] /\ (w = 1 \/ size > Pow2[w - 1])
ArrayNode == \E j, k, v \in DOMAIN words : \E size \in {n \in 1 .. Width(j) : Width(j) % n = 0} :
  LET w == Width(j) \div size IN
  /\ CanBuild("circt") /\ Fresh({j, k, v}) /\ Width(k) = IndexWidth(size)
  /\ \/ /\ v = k
        /\ NeedsUndefined("ArrayGet", size) => w <= Len(given.undefined)
        /\ CirctNode("ArrayGet", ArrayGet(ds, words[j].bits, words[k].bits, size, Undefined(w)),
                     LAMBDA e : IF M(k, e) < size THEN PartOf(M(j, e), w * M(k, e), w) ELSE AnyValue(w, e))
     \/ /\ Width(v) = w
        /\ NeedsUndefined("ArrayInject", size) => Width(j) <= Len(given.undefined)
        /\ CirctNode("ArrayInject",
             ArrayInject(ds, words[j].bits, words[k].bits, words[v].bits, size, Undefined(Width(j))),
             LAMBDA e : IF M(k, e) < size THEN WithPart(M(j, e), w * M(k, e), w, M(v, e))
                        ELSE AnyValue(Width(j), e))

(* What FsmOps offers besides and no converter asks for.                    *)
Uncalled == \E j, k \in DOMAIN words :
  /\ CanBuild("library") /\ Fresh({j, k})
  /\ \/ CirctNode("RotateLeft", Shifter(ds, words[j].bits, words[k].bits, "RotateLeft"),
                  LAMBDA e : RotatedLeft(M(j, e), M(k, e), Width(j)))
     \/ CirctNode("RotateRight", Shifter(ds, words[j].bits, words[k].bits, "RotateRight"),
                  LAMBDA e : RotatedLeft(M(j, e), -M(k, e), Width(j)))
     \/ LET bit == Select(ds, words[j].bits, words[k].bits) IN
        /\ Width(j) = Pow2[Width(k)]
        /\ CirctNode("Select", Built(bit.ds, <<bit.out>>),
                     LAMBDA e : PartOf(M(j, e), M(k, e), 1))

Complete == Len(words) = Len(given.words) + given.nodes /\ UNCHANGED vars

Next == \/ Unary \/ Binary \/ Conditional \/ Replicate
        \/ SelectPart \/ LiteralSelect \/ ArraySelect \/ Assign
        \/ Comb \/ ICmp \/ MuxNode \/ Wiring \/ ArrayNode
        \/ Uncalled
        \/ Complete

Spec == Init /\ [][Next]_vars

--------------------------------------------------------------------------------
(* The vector holds ordered gates over the inputs, sorted as Gate sorts     *)
(* them, and words refer to what it holds.                                 *)
TypeOK ==
  /\ \A k \in DOMAIN ds : ds[k].kind = "gate" =>
       \A v \in {ds[k].a, ds[k].b} : v \in Values(k - 1) /\ Precedes(ds[k].a, ds[k].b)
  /\ \A k \in DOMAIN words :
       /\ \A i \in DOMAIN words[k].bits : words[k].bits[i] \in Values(Len(ds))
       /\ \A e \in Assignments : words[k].means[e] \in 0 .. Pow2[Width(k)] - 1

LastWord == words[Len(words)]
Agrees == LET holds == Settled(ds)
          IN \A e \in Assignments : ValueIn(holds, LastWord.bits, e) = LastWord.means[e]

(* The gates of an expression or assignment of the Verilator path compute   *)
(* what it means in integer arithmetic, for every operand: the carries,    *)
(* divisions by zero and by the smallest value, shifts beyond the width,   *)
(* operands that are constants, equal or complementary, offsets beyond a   *)
(* vector and indices beyond an array included.                            *)
FormalMeans == given.front = "verilator" /\ ~node.loses => Agrees

(* The generated simulator computes the same numbers for it, and panics     *)
(* only if an index it really evaluates is outside the declared range.     *)
RuntimeMeans ==
  given.front = "verilator" =>
    \A e \in Assignments \ LastWord.outside :
      /\ LastWord.calls[e] # Panic
      /\ Number(LastWord.calls[e]) = LastWord.means[e]

(* The gates of a CIRCT operation compute what it means, and the value of   *)
(* its undefined inputs exactly where it has no result: division by zero   *)
(* and an index beyond the array.  So do the rotations and the selector     *)
(* that FsmOps also has.                                                   *)
CirctMeans == given.front # "verilator" => Agrees
================================================================================
