---------------------------------- MODULE Fsm ----------------------------------
(****************************************************************************)
(* The data of the formal-utils crate: signed variables, values, gates,    *)
(* latches and the FSM that holds them, with the three-valued meaning the   *)
(* simulator gives a gate.  No state: every other module is built on these  *)
(* operators.                                                               *)
(****************************************************************************)
EXTENDS Integers, Sequences, FiniteSets

(****************************************************************************)
(* A Value is a constant or a signed variable.  Both are one record: index  *)
(* NoVar stands for Value::Constant(sign), any other index for              *)
(* Value::Var(Var::from((sign, index))), index counted from 0.              *)
(****************************************************************************)
NoVar == -1
Const(b) == [index |-> NoVar, sign |-> b]
Lit(i, s) == [index |-> i, sign |-> s]
Values(n) == [index : {NoVar} \cup 0 .. n - 1, sign : BOOLEAN]

Xor(v, b) == [v EXCEPT !.sign = (v.sign # b)]

(* The total order of Ord for Value: constants first, then by index, and   *)
(* false (negative) before true (positive).                                *)
Precedes(v, w) == \/ v.index < w.index
                  \/ v.index = w.index /\ (w.sign \/ ~v.sign)

(****************************************************************************)
(* Drivers.  Option<bool> is "0", "1" or "X" (None).                        *)
(****************************************************************************)
Ternary == {"0", "1", "X"}
FlipTernary(t, b) == IF b THEN CASE t = "0" -> "1" [] t = "1" -> "0" [] OTHER -> "X"
                          ELSE t

NoDriver == [kind |-> "none"]
InputDriver == [kind |-> "input"]
LatchDriver(s, in, r) == [kind |-> "latch", sign |-> s, input |-> in, reset |-> r]
LatchDrivers(n) == [kind : {"latch"}, sign : BOOLEAN, input : Values(n), reset : Ternary]
GateDrivers(n) == [kind : {"gate"}, sign : BOOLEAN, type : {"And", "Or"},
                   a : Values(n), b : Values(n)]
Drivers(n) == {NoDriver, InputDriver} \cup LatchDrivers(n) \cup GateDrivers(n)

SortInputs(g) == IF Precedes(g.a, g.b) THEN g ELSE [g EXCEPT !.a = g.b, !.b = g.a]
GateDriver(s, t, a, b) ==
  SortInputs([kind |-> "gate", sign |-> s, type |-> t, a |-> a, b |-> b])

(****************************************************************************)
(* An FSM: its variable vector (driver and label of each index) and the     *)
(* four lists of values it exposes.  A label is a number, NoLabel is None.  *)
(****************************************************************************)
Lists == {"outputs", "asserts", "assumes", "covers"}
NoLabel == 0
Machine(n) == [size : {n}, driver : [0 .. n - 1 -> Drivers(n)],
               label : [0 .. n - 1 -> Nat], refs : [Lists -> Seq(Values(n))]]
WellFormed(m) == m.size \in Nat /\ m \in Machine(m.size)
VarsOf(m) == 0 .. m.size - 1

Kind(m, k) == {i \in VarsOf(m) : m.driver[i].kind = k}
Gates(m) == Kind(m, "gate")
Latches(m) == Kind(m, "latch")
Inputs(m) == Kind(m, "input")
Driven(m) == VarsOf(m) \ Kind(m, "none")

(****************************************************************************)
(* The layout normalize_ordering and the rebuilds of apply_reset give an    *)
(* FSM: inputs, latches and gates in this order, each in the order they had.*)
(****************************************************************************)
Below(S, i) == Cardinality({j \in S : j < i})
Grouped(inputs, latches, gates, i) ==
  CASE i \in inputs -> Below(inputs, i)
    [] i \in latches -> Cardinality(inputs) + Below(latches, i)
    [] i \in gates -> Cardinality(inputs) + Cardinality(latches) + Below(gates, i)

(* A value and a driver, with every variable renamed by to.                *)
Renamed(v, to) == IF v.index = NoVar THEN v ELSE Lit(to[v.index], v.sign)
RenamedDriver(d, to) ==
  CASE d.kind = "gate" -> GateDriver(d.sign, d.type, Renamed(d.a, to), Renamed(d.b, to))
    [] d.kind = "latch" -> [d EXCEPT !.input = Renamed(d.input, to)]
    [] OTHER -> d

GateInputs(d) == {d.a, d.b}
(* The gates that gate g reads.                                            *)
Deps(m, g) == {v.index : v \in GateInputs(m.driver[g])} \cap Gates(m)

(****************************************************************************)
(* FSM::verify: every referenced variable is driven, and, when ordering is  *)
(* verified too, a gate reads only lower indices.                          *)
(****************************************************************************)
IsDriven(m, v) == v.index = NoVar \/ v.index \in Driven(m)
OrderedGates(m) == \A g \in Gates(m) : \A v \in GateInputs(m.driver[g]) : v.index < g
FullyDriven(m) ==
  /\ \A g \in Gates(m) : /\ \A v \in GateInputs(m.driver[g]) : IsDriven(m, v)
                         /\ Precedes(m.driver[g].a, m.driver[g].b)
  /\ \A l \in Latches(m) : IsDriven(m, m.driver[l].input)
  /\ \A list \in Lists : \A k \in DOMAIN m.refs[list] : IsDriven(m, m.refs[list][k])
Verify(m) == FullyDriven(m) /\ OrderedGates(m)

(****************************************************************************)
(* GateType::eval: an input at the controlling value decides, otherwise one *)
(* unknown input makes the gate unknown.                                    *)
(****************************************************************************)
Controlling(type) == IF type = "And" THEN "0" ELSE "1"
EvalGate(type, inputs) == IF Controlling(type) \in inputs THEN Controlling(type)
                          ELSE IF "X" \in inputs THEN "X"
                          ELSE FlipTernary(Controlling(type), TRUE)

(* Simulator::get_value_signed over the variable values vals.              *)
Signed(vals, v) == IF v.index = NoVar THEN (IF v.sign THEN "1" ELSE "0")
                   ELSE FlipTernary(vals[v.index], ~v.sign)

(* What a gate, a latch at the clock edge and a latch at reset put in their *)
(* variable: the driver's value, inverted when its output is negative.     *)
GateValue(m, vals, g) ==
  LET d == m.driver[g]
  IN FlipTernary(EvalGate(d.type, {Signed(vals, v) : v \in GateInputs(d)}), ~d.sign)
LatchNext(m, vals, l) ==
  FlipTernary(Signed(vals, m.driver[l].input), ~m.driver[l].sign)
LatchReset(m, l) == FlipTernary(m.driver[l].reset, ~m.driver[l].sign)
================================================================================
