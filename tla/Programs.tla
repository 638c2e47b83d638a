-------------------------------- MODULE Programs --------------------------------
(****************************************************************************)
(* Small designs for the clock edge: an input a, registers or temporaries x *)
(* and y, a vector m of two bits, a wire c, an output o and a sampled value *)
(* s of x.                                                                  *)
(****************************************************************************)
EXTENDS Rtl

Now(t, e) == Assignment(FALSE, t, e)
Later(t, e) == Assignment(TRUE, t, e)
Bit(v, k) == Part(v, Constant([j \in {0} |-> k]), 1, 0)

Basic == {
  Later(Whole("x"), Variable("a")),
  Later(Whole("x"), Variable("s")),
  Later(Whole("y"), Variable("x")),
  Now(Whole("y"), Variable("x")),
  Now(Whole("y"), Not("y")),
  Now(Whole("x"), ExclusiveOr("a", "y")),
  Later(Whole("x"), Variable("c")),
  Later(Bit("m", 0), Variable("y")),
  Later(Bit("m", 1), Variable("x")),
  Later(Part("m", Variable("y"), 1, 0), Variable("a"))}
Statements == Basic \cup {
  If(Variable("a"), <<Now(Whole("y"), Variable("x"))>>, <<>>),
  If(Variable("y"), <<Now(Whole("y"), Not("a"))>>, <<Later(Whole("x"), Variable("y"))>>),
  If(Variable("a"), <<Later(Whole("x"), Variable("y"))>>, <<Later(Bit("m", 1), Not("x"))>>),
  Now(Bit("m", 1), Element("m", "y")),
  Later(Part("x", Variable("y"), 1, 0), Variable("a"))}

(* A design with m as wide as given, an unpacked array or not.            *)
Design(width, arrays, comb, seq) ==
  [width |-> [v \in {"a", "x", "y", "m", "c", "o", "s"} |-> IF v = "m" THEN width ELSE 1],
   arrays |-> arrays, inputs |-> {"a"}, outputs |-> {"o"} \cup ({"x"} \cap ReadsOfAll(comb)),
   sampled |-> [v \in {"s"} \cap ReadsOfAll(seq) |-> Variable("x")],
   properties |-> <<>>, history |-> {},
   initial |-> <<>>, combinational |-> comb, sequential |-> seq]

(* The same with an initial block.                                        *)
Initialized(d) == [d EXCEPT !.initial = <<Now(Whole("y"), Not("x")), Now(Bit("m", 1), Not("a"))>>]

(* The same with the wires c and o kept for properties of every kind, two   *)
(* of them of one kind, and y a history register that is set to zero.       *)
Wire(kind, v) == [kind |-> kind, var |-> v]
Observed(d) ==
  [d EXCEPT !.properties = <<Wire("assertions", "o"), Wire("covers", "c"),
                             Wire("assumptions", "o"), Wire("assertions", "c")>>,
            !.history = {"y"}, !.initial = <<Now(Whole("y"), Constant(Zero(1)))>>]

(* Combinational logic: a bit of the vector; a chain in the wrong order,  *)
(* whose wire c the processes may read.                                   *)
ShowsVector == <<<<Now(Whole("o"), Element("m", "a"))>>, <<Now(Whole("c"), Not("a"))>>>>
ShowsWire == <<<<Now(Whole("o"), ExclusiveOr("c", "x"))>>, <<Now(Whole("c"), Not("y"))>>>>

(* Logic without an order: the elements of m are assigned, in one block or*)
(* each from the element before, before or after they are read.           *)
FillsArray == <<Now(Bit("m", 0), Variable("a")), Now(Bit("m", 1), Variable("x"))>>
ReadsArray == <<Now(Whole("o"), Element("m", "y"))>>
Chain(width) ==
  [k \in 1 .. width |->
     <<Now(Bit("m", width - k),
           IF k = width THEN Variable("a") ELSE BitOf("m", width - k - 1))>>]

(* Bit lanes of a memory of two elements, at constant and at variable     *)
(* addresses.                                                             *)
Lane(at, lane) == Part("m", at, 2, lane)
One == Constant([j \in {0} |-> 1])
Lanes == {
  Later(Lane(Variable("y"), 0), Variable("a")),
  Later(Lane(Variable("y"), 1), Variable("x")),
  Later(Lane(One, 0), Variable("x")),
  Now(Lane(Variable("x"), 1), Variable("a")),
  Now(Whole("y"), Variable("x")),
  Later(Whole("x"), Element("m", "y"))}

OneStatement == {<<<<p>>>> : p \in Statements}
OneProcess == {<<<<p, q>>>> : p \in Statements, q \in Statements}
TwoProcesses == {<<<<p>>, <<q>>>> : p \in Statements, q \in Statements}
LanePairs == {<<<<p>>, <<q>>>> : p \in Lanes, q \in Lanes}
LaneProcesses == {<<<<p, q>>, <<r>>>> : p \in Lanes, q \in Lanes, r \in Lanes}
ThreeStatements == {<<<<p, q>>, <<r>>>> : p \in Basic, q \in Basic, r \in Basic}
================================================================================
