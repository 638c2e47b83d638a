----------------------------------- MODULE Rtl -----------------------------------
(****************************************************************************)
(* The typed AST of verilator-parser: variables, expressions, assignment    *)
(* targets and statements, and collect_accesses.  An expression is one      *)
(* operator on variables and a part of a variable is one bit: the order of  *)
(* effects does not depend on what the operators compute.                   *)
(****************************************************************************)
EXTENDS Integers, SequencesExt

(* A value is its bits, bit 0 the lowest.                                 *)
Bits(w) == [0 .. w - 1 -> {0, 1}]
Zero(w) == [k \in 0 .. w - 1 |-> 0]
Number(b) == MapThenSumSet(LAMBDA k : b[k] * 2 ^ k, DOMAIN b)
Truthy(b) == \E k \in DOMAIN b : b[k] = 1

--------------------------------------------------------------------------------
(* Expressions.  Element is a bit of a vector at a variable offset, or an *)
(* element of an unpacked array of bits; BitOf is one at a constant.      *)
Constant(b) == [op |-> "constant", of |-> <<>>, value |-> b]
Operation(op, of) == [op |-> op, of |-> of, value |-> <<>>]
Variable(v) == Operation("variable", <<v>>)
Not(v) == Operation("not", <<v>>)
ExclusiveOr(v, w) == Operation("xor", <<v, w>>)
BitOf(v, k) == [op |-> "bit", of |-> <<v>>, value |-> k]
Element(v, i) == Operation("element", <<v, i>>)

Operands(e) == Range(e.of)

Eval(e, env) ==
  LET arg(k) == env[e.of[k]]
  IN CASE e.op = "constant" -> e.value
       [] e.op = "variable" -> arg(1)
       [] e.op = "not" -> [k \in DOMAIN arg(1) |-> 1 - arg(1)[k]]
       [] e.op = "xor" -> [k \in DOMAIN arg(1) |-> (arg(1)[k] + arg(2)[k]) % 2]
       [] e.op = "bit" -> [k \in {0} |-> arg(1)[e.value]]
       [] e.op = "element" ->
            LET i == Number(arg(2))
            IN [k \in {0} |-> IF i \in DOMAIN arg(1) THEN arg(1)[i] ELSE 0]

--------------------------------------------------------------------------------
(* Targets: a whole variable, or bit lane of the element of stride bits at*)
(* the offset at (an ArrayElement, or a Select of one).                   *)
Whole(v) == [var |-> v, whole |-> TRUE, at |-> Constant(Zero(1)), stride |-> 1, lane |-> 0]
Part(v, at, stride, lane) ==
  [var |-> v, whole |-> FALSE, at |-> at, stride |-> stride, lane |-> lane]

Offset(t, env) == Number(Eval(t.at, env)) * t.stride + t.lane

(* The value of the target's variable when bits are assigned and it was   *)
(* old; env gives the offset, and an offset outside of it writes nothing. *)
\* Mutant: a part outside of the variable is written all the same.
WrittenBeyond(t, old, bits, env) ==
  IF t.whole THEN bits
  ELSE [k \in DOMAIN old \cup {Offset(t, env)} |->
          IF k = Offset(t, env) THEN bits[0] ELSE old[k]]

Written(t, old, bits, env) ==
  IF t.whole THEN bits
  ELSE [k \in DOMAIN old |-> IF k = Offset(t, env) THEN bits[0] ELSE old[k]]

--------------------------------------------------------------------------------
(* Statements.  A process or a continuous assignment is a sequence of them.*)
Assignment(nonblocking, t, e) ==
  [kind |-> "assign", nonblocking |-> nonblocking, target |-> t, value |-> e]
If(e, then, else) ==
  [kind |-> "if", condition |-> e, then |-> then, else |-> else]

(* All statements in a sequence, those in branches included.              *)
RECURSIVE Within(_)
Within(stmts) ==
  UNION {{s} \cup (IF s.kind = "if" THEN Within(s.then) \cup Within(s.else) ELSE {}) :
           s \in Range(stmts)}

(* collect_accesses.  An assignment to a part reads the rest of the       *)
(* variable.                                                              *)
ReadsHere(s) ==
  IF s.kind = "if" THEN Operands(s.condition)
  ELSE Operands(s.value) \cup
       (IF s.target.whole THEN {} ELSE {s.target.var} \cup Operands(s.target.at))
Assignments(stmts) == {s \in Within(stmts) : s.kind = "assign"}
Reads(stmts) == UNION {ReadsHere(s) : s \in Within(stmts)}
Writes(stmts) == {s.target.var : s \in Assignments(stmts)}
ReadsOfAll(processes) == UNION {Reads(processes[k]) : k \in DOMAIN processes}
WritesOfAll(processes) == UNION {Writes(processes[k]) : k \in DOMAIN processes}

(****************************************************************************)
(* A design: width of each variable, arrays, inputs without the clock and   *)
(* outputs, the sampled variables with their expressions, the wires that    *)
(* Verilator keeps for properties, the history registers it makes for       *)
(* assertions, and its blocks.                                              *)
(****************************************************************************)
Vars(d) == DOMAIN d.width
Sampled(d) == DOMAIN d.sampled
PropertyKinds == {"assertions", "assumptions", "covers"}
WiresOf(d, kind) == SelectSeq(d.properties, LAMBDA p : p.kind = kind)
ZeroEnvironment(d) == [v \in Vars(d) |-> Zero(d.width[v])]
TypedOn(d, vs, f) == DOMAIN f = vs /\ \A v \in vs : f[v] \in Bits(d.width[v])
Valuations(d, vs) ==
  {f \in [vs -> UNION {Bits(d.width[v]) : v \in vs}] : TypedOn(d, vs, f)}
ReadsOfSampled(d) == UNION {Operands(d.sampled[v]) : v \in Sampled(d)}
================================================================================
