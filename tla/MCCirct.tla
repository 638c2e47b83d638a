---------------------------------- MODULE MCCirct ----------------------------------
(****************************************************************************)
(* Small hierarchies: clocks that are inverted, gated, constant or data;    *)
(* loops with and without a register; modules that are shared, recursive,   *)
(* hidden or external; the data operations; and one file per refusal.       *)
(****************************************************************************)
EXTENDS Circt

B == BitType
W2 == Integer(2)
Op(kind, args, type) ==
  [kind |-> kind, args |-> args, type |-> type, declared |-> <<>>, n |-> 0, predicate |-> "Equals",
   signed |-> FALSE, module |-> "none", names |-> <<>>, outputs |-> <<>>, property |-> "none",
   edge |-> "positive", preset |-> <<>>, fields |-> <<>>]
In(k) == <<0, k>>
R(i) == <<i, 1>>
Const1(n) == [Op("Constant", <<>>, B) EXCEPT !.n = n]
Const2(n) == [Op("Constant", <<>>, W2) EXCEPT !.n = n]
Reg(args, type) == Op("Register", args, type)
Out(args) == Op("Output", args, B)
Clk(ref) == Op("ToClock", <<ref>>, Clock)
Prop(kind, edge, args) == [Op("Property", args, B) EXCEPT !.property = kind, !.edge = edge]
Port(name, type) == [name |-> name, type |-> type]
Use(module, names, args, outs) ==
  [Op("Instance", args, B) EXCEPT !.module = module, !.names = names, !.outputs = outs]
Mod(name, ins, outs, body) ==
  [name |-> name, scope |-> 1, qualified |-> <<name>>, public |-> FALSE, external |-> FALSE,
   inputs |-> ins, outputs |-> outs, body |-> body]
Case(modules, edge) ==
  [file |-> [parents |-> <<0>>, modules |-> modules], top |-> <<"Top">>, clock |-> "clk", edge |-> edge,
   reset |-> "none"]
Positive(modules) == Case(modules, "positive")
ClkIn == Port("clk", B)
O == <<Port("o", B)>>

--------------------------------------------------------------------------------
(* A flop that inverts its clock, below a top that inverts it by constants  *)
(* or not at all.                                                          *)
Flop == Mod("Flop", <<Port("d", B), Port("ck", B)>>, O,
            <<Reg(<<In(1), R(2)>>, B), Clk(R(4)), Const1(1), Op("Xor", <<In(2), R(3)>>, B), Out(<<R(1)>>)>>)
Inverted(ns) ==
  LET count == Len(ns)
  IN Mod("Top", <<ClkIn, Port("d", B)>>, O,
         [k \in 1 .. count |-> Const1(ns[k])]
           \o <<Op("Xor", Append([k \in 1 .. count |-> R(k)], In(1)), B),
                Use("Flop", <<"ck", "d">>, <<R(count + 1), In(2)>>, O),
                Out(<<R(count + 2)>>)>>)
Inversions == {Case(<<Inverted(ns), Flop>>, edge) :
                 ns \in {<<>>, <<0>>, <<-1>>, <<1, 1>>, <<0, 1>>}, edge \in {"positive", "negative"}}
(* Two registers, one on each edge.                                        *)
BothEdges == Mod("Top", <<ClkIn, Port("d", B)>>, O,
                 <<Clk(In(1)), Reg(<<In(2), R(1)>>, B),
                   Use("Flop", <<"d", "ck">>, <<R(2), In(1)>>, O), Out(<<R(3)>>)>>)
(* A clock that is native, gated, constant, or a register.                 *)
Native == Mod("Top", <<Port("d", B), Port("clk", Clock)>>, O, <<Reg(<<In(1), In(2)>>, B), Out(<<R(1)>>)>>)
Gated(kind) == Mod("Top", <<ClkIn, Port("en", B)>>, O,
                   <<Op(kind, <<In(1), In(2)>>, B), Clk(R(1)), Reg(<<In(2), R(2)>>, B), Out(<<R(3)>>)>>)
ConstantClock == Mod("Top", <<ClkIn>>, O,
                     <<Const1(1), Op("Xor", <<R(1)>>, B), Clk(R(2)), Reg(<<R(1), R(3)>>, B), Out(<<R(4)>>)>>)
Divided == Mod("Top", <<ClkIn>>, O,
               <<Clk(In(1)), Const1(1), Reg(<<R(4), R(1)>>, B), Op("Xor", <<R(3), R(2)>>, B),
                 Clk(R(3)), Reg(<<R(3), R(5)>>, B), Out(<<R(6)>>)>>)
ClockNets == Inversions \cup {Case(<<BothEdges, Flop>>, "positive"), Case(<<BothEdges, Flop>>, "negative")}
  \cup {Positive(<<m>>) : m \in {Native, Gated("And"), Gated("Xor"), ConstantClock, Divided}}

(* Properties of both edges, enabled or not, around one of an instance.     *)
Checked == Mod("Checked", <<Port("x", B), Port("e", B), Port("ck", B)>>, O,
               <<Prop("assert", "positive", <<In(1), In(2), In(3)>>),
                 Prop("cover", "positive", <<In(1), In(2), In(3)>>), Out(<<In(2)>>)>>)
Asserting(second) ==
  Mod("Top", <<Port("x", B), ClkIn, Port("y", B)>>, O,
      <<Prop("assert", "positive", <<In(3), In(2)>>),
        Use("Checked", <<"ck", "e", "x">>, <<In(2), R(3), In(1)>>, O),
        Op("And", <<In(1), In(3)>>, B),
        Prop("assume", second, <<R(2), In(2)>>), Prop("assert", "positive", <<In(1), R(2), In(2)>>), Out(<<R(2)>>)>>)
Properties == {Positive(<<Asserting("positive"), Checked>>), Positive(<<Asserting("negative"), Checked>>)}

--------------------------------------------------------------------------------
(* The clock as data: an output, an operand that nothing reads, the data of *)
(* a register, its reset, a property, through an instance, inverted; and    *)
(* another clock.                                                          *)
Wire == Mod("Wire", <<Port("i", B)>>, O, <<Out(<<In(1)>>)>>)
AsData(body) == Positive(<<Mod("Top", <<ClkIn, Port("d", B)>>, O, body), Wire>>)
Misuses ==
  {AsData(<<Out(<<In(1)>>)>>),
   AsData(<<Op("And", <<In(1), In(2)>>, B), Out(<<In(2)>>)>>),
   AsData(<<Clk(In(1)), Reg(<<In(1), R(1)>>, B), Out(<<R(2)>>)>>),
   AsData(<<Clk(In(1)), Reg(<<In(2), R(1), R(3), In(2)>>, B), Use("Wire", <<"i">>, <<In(1)>>, O), Out(<<R(2)>>)>>),
   AsData(<<Prop("assert", "positive", <<In(1), In(1)>>), Out(<<In(2)>>)>>),
   AsData(<<Const1(1), Op("Xor", <<In(1), R(1)>>, B), Use("Wire", <<"i">>, <<R(2)>>, O), Out(<<R(3)>>)>>),
   AsData(<<Const1(1), Op("Xor", <<In(1), R(1)>>, B), Use("Wire", <<"i">>, <<R(2)>>, O), Out(<<In(2)>>)>>),
   AsData(<<Clk(In(2)), Out(<<In(2)>>)>>),
   Positive(<<Mod("Top", <<ClkIn, Port("other", Clock)>>, <<>>, <<Out(<<>>)>>)>>)}

(* Loops: two wires, two crossed pairs of wires, one gate; not a loop: one   *)
(* wire of a pair into the other, and a register on the way.               *)
Pair == Mod("Pair", <<Port("i", B), Port("j", B)>>, <<Port("o", B), Port("p", B)>>, <<Out(<<In(2), In(1)>>)>>)
Delay == Mod("Delay", <<Port("i", B), ClkIn>>, O, <<Clk(In(2)), Reg(<<In(1), R(1)>>, B), Out(<<R(2)>>)>>)
Looping(body) == Positive(<<Mod("Top", <<ClkIn, Port("d", B)>>, O, body), Wire, Pair, Delay>>)
PairOut == <<Port("o", B), Port("p", B)>>
Loops ==
  {Looping(<<Use("Wire", <<"i">>, <<R(2)>>, O), Use("Wire", <<"i">>, <<R(1)>>, O), Out(<<R(1)>>)>>),
   Looping(<<Use("Pair", <<"i", "j">>, <<<<1, 1>>, In(2)>>, PairOut), Out(<<<<1, 2>>>>)>>),
   Looping(<<Use("Pair", <<"j", "i">>, <<<<1, 1>>, In(2)>>, PairOut), Out(<<<<1, 2>>>>)>>),
   Looping(<<Op("And", <<R(1), In(2)>>, B), Out(<<In(2)>>)>>),
   Looping(<<Use("Wire", <<"i">>, <<R(3)>>, O), Use("Delay", <<"clk", "i">>, <<In(1), R(1)>>, O),
             Op("Xor", <<R(2), In(2)>>, B), Use("Delay", <<"i", "clk">>, <<R(2), In(1)>>, O), Out(<<R(4)>>)>>)}

(* A module used along two paths, one that contains itself, one without a   *)
(* body; and a name that scopes define differently: scope 1 is around 2     *)
(* and 3.                                                                  *)
Calls(name, callees) ==
  Mod(name, <<ClkIn, Port("d", B)>>, O,
      [k \in DOMAIN callees |-> Use(callees[k], <<"d", "clk">>, <<IF k = 1 THEN In(2) ELSE R(k - 1), In(1)>>, O)]
        \o <<Out(<<R(Len(callees))>>)>>)
Leaf(kind) == Mod("Leaf", <<ClkIn, Port("d", B)>>, O,
                  <<Const1(1), Clk(In(1)), Reg(<<R(4), R(2)>>, B), Op(kind, <<In(2), R(1)>>, B), Out(<<R(3)>>)>>)
Missing == [Leaf("And") EXCEPT !.external = TRUE, !.body = <<>>]
In2(m, scope) == [m EXCEPT !.scope = scope, !.qualified = <<IF scope = 2 THEN "two" ELSE "three", m.name>>]
Scoped == <<In2([Calls("Top", <<"Other", "Leaf">>) EXCEPT !.public = TRUE], 2), In2(Leaf("Xor"), 2),
            [Calls("Other", <<"Leaf">>) EXCEPT !.public = TRUE], Leaf("And"), In2(Calls("Other", <<"Leaf">>), 3)>>
Scopes(modules, top) ==
  [Positive(modules) EXCEPT !.file.parents = <<0, 1, 1>>, !.top = top]
Modules ==
  {Positive(<<Calls("Top", <<"Left", "Right">>), Calls("Left", <<"Leaf">>), Calls("Right", <<"Leaf">>), Leaf("Xor")>>),
   Positive(<<Calls("Top", <<"Left", "Right">>), Calls("Left", <<"Right">>), Calls("Right", <<"Left">>)>>),
   Positive(<<Calls("Top", <<"Left">>), Calls("Left", <<"Right">>), Calls("Right", <<"Third">>), Calls("Third", <<"Left">>)>>),
   Positive(<<Calls("Top", <<"Top">>)>>), Positive(<<Calls("Top", <<"Leaf">>), Missing>>),
   Scopes(Scoped, <<>>), Scopes(Scoped, <<"two", "Top">>), Scopes(Scoped, <<"three", "Other">>),
   Scopes(Scoped, <<"Other">>)}

--------------------------------------------------------------------------------
(* The data operations, read before and after their definition, with a      *)
(* register that has a reset and a preset.                                 *)
Declared(kind, args, type, declared) == [Op(kind, args, type) EXCEPT !.declared = declared]
Compare(predicate, signed, args, type) ==
  [Declared("Compare", args, B, <<type, type>>) EXCEPT !.predicate = predicate, !.signed = signed]
Arith == Mod("Top", <<Port("a", W2), ClkIn, Port("rst", B)>>, <<Port("q", W2), Port("r", W2), Port("c", B)>>,
  <<[Reg(<<R(5), R(2), In(3), R(3)>>, W2) EXCEPT !.preset = <<-2>>],
    Clk(In(2)), Const2(3),
    Op("DivUnsigned", <<R(1), In(1)>>, W2),
    Op("Add", <<R(4), In(1), R(1)>>, W2),
    Compare("LessThan", TRUE, <<R(5), R(3)>>, W2),
    Op("ModSigned", <<R(5), R(1)>>, W2),
    Out(<<R(1), R(7), R(6)>>)>>)
A3 == Array(3, B)
S2 == Struct(<<B, A3>>)
U == Union(<<[type |-> B, offset |-> 1], [type |-> W2, offset |-> 1]>>)
Layout == Mod("Top", <<Port("i", W2), ClkIn, Port("x", B)>>,
              <<Port("e", B), Port("f", Integer(4)), Port("g", B), Port("h", Integer(4)), Port("k", Integer(4))>>,
  <<Op("ArrayCreate", <<In(3), R(9), In(3)>>, A3),
    Declared("ArrayInject", <<R(1), In(1), R(9)>>, A3, <<A3, W2>>),
    Declared("ArrayGet", <<R(2), In(1)>>, B, <<A3, W2>>),
    [Op("AggregateConstant", <<>>, S2) EXCEPT !.fields = <<1, <<0, 1, 1>>>>],
    Declared("Bitcast", <<R(4)>>, Integer(4), <<S2>>),
    Declared("Bitcast", <<R(2)>>, U, <<A3>>),
    [Declared("UnionExtract", <<R(6)>>, W2, <<U>>) EXCEPT !.n = 2],
    [Declared("Extract", <<R(7)>>, B, <<W2>>) EXCEPT !.n = 1],
    [Reg(<<R(8), R(10)>>, B) EXCEPT !.preset = <<1>>], Clk(In(2)),
    Declared("Concat", <<R(7), In(1)>>, B, <<W2, W2>>),
    Declared("Replicate", <<In(1)>>, Integer(4), <<W2>>),
    Op("Mux", <<In(3), R(11), R(12)>>, Integer(4)),
    Out(<<R(3), R(5), R(8), R(13), R(11)>>)>>)
Data == {Positive(<<Arith>>), Case(<<Arith>>, "negative"), Positive(<<Layout>>)}

(* One file for each other refusal.                                        *)
Plain(body) == Mod("Top", <<ClkIn, Port("d", B)>>, O, body)
Good == Plain(<<Out(<<In(2)>>)>>)
Refusals ==
  {Positive(<<Plain(body), Wire>>) : body \in
     {<<Use("Wires", <<"i">>, <<In(2)>>, O), Out(<<R(1)>>)>>,
      <<Use("Wire", <<"j">>, <<In(2)>>, O), Out(<<R(1)>>)>>,
      <<Op("And", <<R(2), In(2)>>, B), Out(<<R(1)>>)>>, <<Out(<<In(3)>>)>>,
      <<Use("Wire", <<"i">>, <<<<1, 2>>>>, O), Out(<<R(1)>>)>>,
      <<Use("Wire", <<"i", "i">>, <<In(2), In(2)>>, O), Out(<<R(1)>>)>>,
      <<Out(<<In(2)>>), Const1(0)>>, <<Const2(0), Out(<<R(1)>>)>>, <<Const1(1)>>,
      <<Const2(1), Op("And", <<R(1), In(2)>>, W2), Out(<<In(2)>>)>>,
      <<Reg(<<In(2), In(1)>>, B), Out(<<R(1)>>)>>,
      <<Clk(In(1)), Prop("cover", "positive", <<In(2), R(1)>>), Out(<<In(2)>>)>>}}
    \cup {Positive(<<Good, Good>>), [Positive(<<Good>>) EXCEPT !.top = <<"Bottom">>],
          [Positive(<<Good>>) EXCEPT !.clock = "c"], [Positive(<<Good>>) EXCEPT !.reset = "clk"],
          [Positive(<<Good>>) EXCEPT !.reset = "d"],
          Positive(<<[Good EXCEPT !.inputs = <<Port("clk", W2), Port("d", B)>>]>>)}

MCConversions == ClockNets \cup Properties \cup Misuses \cup Loops \cup Modules \cup Data \cup Refusals
================================================================================
