------------------------------- MODULE CirctLowering ------------------------------
(****************************************************************************)
(* Converter::convert of circt-formal up to apply_reset: the accepted nodes *)
(* become the variables of an FSM.  The converter is a record: ds holds the *)
(* drivers, labels those of the variables it declares (inputs and registers *)
(* precede every gate), values the words of the nodes, undefined the free   *)
(* words of the operations that need one, properties the values of the      *)
(* properties so far, failed why it stopped.  A word that is not known yet  *)
(* is empty.                                                               *)
(****************************************************************************)
EXTENDS Graph, CombGates

Label(of, id, bit) == [of |-> of, path |-> nodes[id].path, at |-> nodes[id].at, bit |-> bit]
Nothing == [id \in DOMAIN nodes |-> <<>>]
Converter ==
  [ds |-> <<>>, labels |-> <<>>, values |-> Nothing, undefined |-> Nothing, properties |-> <<>>,
   failed |-> "no"]

(* The variables of a node in the middle of the vector, with their labels.  *)
Allocate(s, id, of, driver) ==
  LET bits == 1 .. nodes[id].type.width
      word == [b \in bits |-> Lit(Len(s.ds) + b - 1, TRUE)]
      declared == [s EXCEPT !.ds = @ \o [b \in bits |-> driver],
                            !.labels = @ \o [b \in bits |-> Label(of, id, b)]]
  IN IF of = "undefined" THEN [declared EXCEPT !.undefined[id] = word]
     ELSE [declared EXCEPT !.values[id] = word]

Ids(holds(_)) == SelectSeq([id \in DOMAIN nodes |-> id], holds)
Undefined(id) ==
  /\ nodes[id].driver.kind = "op"
  /\ LET op == nodes[id].driver.op
     IN NeedsUndefined(op.kind, IF op.kind \in ArrayOperations THEN op.declared[1].size ELSE 0)
SecondClock == \E k \in DOMAIN inputs : inputs[k] # clock /\ nodes[inputs[k]].type = Clock

(* Inputs but the clock, then a free word for each operation that may have  *)
(* no result, then the registers.                                          *)
AllocatePorts(s) ==
  FoldLeft(LAMBDA t, id : Allocate(t, id, "signal", InputDriver), s, SelectSeq(inputs, LAMBDA id : id # clock))
AllocateFree(s) == FoldLeft(LAMBDA t, id : Allocate(t, id, "undefined", InputDriver), s, Ids(Undefined))
AllocateRegisters(s) == FoldLeft(LAMBDA t, id : Allocate(t, id, "signal", NoDriver), s, Ids(Register))

\* Mutant: the free words come last.
AllocatedFreeLast == AllocateFree(AllocateRegisters(AllocatePorts(Converter)))

Allocated == AllocateRegisters(AllocateFree(AllocatePorts(Converter)))

--------------------------------------------------------------------------------
(* aggregate_constant_fields: the members of a list, the last one lowest.   *)
RECURSIVE Leaves(_, _)
Leaves(type, value) ==
  IF IsInteger(type) THEN WordOf(value, type.width)
  ELSE FoldLeft(LAMBDA word, k : Leaves(Member(type, k), value[k]) \o word,
                <<>>, [k \in DOMAIN value |-> k])

OperationGate(s, id, operands) ==
  LET op == nodes[id].driver.op
      w == nodes[id].type.width
      size == op.declared[1].size
  IN CASE op.kind = "Constant" -> Built(s.ds, WordOf(op.n, w))
       [] op.kind = "AggregateConstant" -> Built(s.ds, Leaves(nodes[id].type, op.fields))
       [] op.kind \in Variadic \cup Dyadic -> CombGate(s.ds, op.kind, operands, s.undefined[id])
       [] op.kind = "Compare" -> ICmpGate(s.ds, op.predicate, op.signed, operands[1], operands[2])
       [] op.kind = "Mux" -> CombMux(s.ds, operands[1], operands[2], operands[3])
       [] op.kind = "UnionExtract" ->
            ExtractGate(s.ds, operands[1], op.declared[1].members[op.n].offset, w)
       [] op.kind = "Bitcast" -> Built(s.ds, operands[1])
       [] op.kind \in {"Concat", "ArrayCreate"} -> ConcatGate(s.ds, operands)
       [] op.kind = "Replicate" -> ReplicateGate(s.ds, operands[1], w)
       [] op.kind = "Extract" -> ExtractGate(s.ds, operands[1], op.n, w)
       [] op.kind = "ArrayGet" -> ArrayGet(s.ds, operands[1], operands[2], size, s.undefined[id])
       [] op.kind = "ArrayInject" ->
            ArrayInject(s.ds, operands[1], operands[2], operands[3], size, s.undefined[id])

(* lower: the words of the operands first, in their order, each only once.  *)
RECURSIVE Lower(_, _)
Lower(s, id) ==
  LET args == Reads(id)
  IN IF s.failed # "no" \/ s.values[id] # <<>> THEN s
     ELSE IF ClockWiring(id) \/ nodes[id].driver = Input THEN [s EXCEPT !.failed = "clock lowered"]
     ELSE Then(FoldLeft(Lower, s, args), LAMBDA read :
          IF read.failed # "no" THEN read
          ELSE IF nodes[id].driver.kind = "alias" THEN [read EXCEPT !.values[id] = read.values[args[1]]]
          ELSE IF IsOp(id, "ToClock") THEN [read EXCEPT !.failed = "unsupported operation"]
          ELSE Then(OperationGate(read, id, [k \in DOMAIN args |-> read.values[args[k]]]), LAMBDA built :
               [read EXCEPT !.ds = built.ds, !.values[id] = built.out]))

--------------------------------------------------------------------------------
\* Mutant: add_latch leaves its variable without a label.
AddUnlabelled(s, id, driver, b) ==
  LET k == s.values[id][b].index + 1
  IN [s EXCEPT !.ds[k] = driver, !.labels[k] = Label("none", id, b)]

(* add_latch, and the label that it takes away is put back.                *)
AddLabelled(s, id, driver, b) == [s EXCEPT !.ds[s.values[id][b].index + 1] = driver]

(* The next state of a register, with its reset; its preset is where it     *)
(* starts.                                                                 *)
AddRegister(s, id) ==
  LET args == Reads(id)
      op == nodes[id].driver.op
      w == nodes[id].type.width
      Loaded(read) == IF Len(args) = 2 THEN Built(read.ds, read.values[args[1]])
                     ELSE Mux(read.ds, read.values[args[1]], read.values[args[4]], read.values[args[3]][1])
      Preset(b) == CASE op.preset = <<>> -> "X"
                     [] WordOf(op.preset[1], w)[b].sign -> "1"
                     [] OTHER -> "0"
  IN Then(FoldLeft(Lower, s, <<args[1]>> \o SubSeq(args, 3, Len(args))), LAMBDA read :
     Then(Loaded(read), LAMBDA next :
     FoldLeft(LAMBDA t, b : AddLabelled(t, id, LatchDriver(TRUE, next.out[b], Preset(b)), b),
              [read EXCEPT !.ds = next.ds], [b \in 1 .. w |-> b])))

(* A cover holds when it is enabled only, an assertion also when it is not. *)
PropertyGate(ds, kind, enable, value) ==
  IF kind = "cover" THEN GateChain(ds, "And", <<enable, value>>)
  ELSE GateChain(ds, "Or", <<Not(enable), value>>)

AddPropertyGate(s, property) ==
  LET args == Front(property.args)
      Enable(read) == IF Len(args) = 2 THEN read.values[args[2]][1] ELSE True
  IN Then(FoldLeft(Lower, s, args), LAMBDA read :
     Then(PropertyGate(read.ds, property.op.property, Enable(read), read.values[args[1]][1]), LAMBDA gate :
     [read EXCEPT !.ds = gate.ds, !.properties = Append(@, gate.out)]))

(* Everything in convert's order: nodes, registers, outputs, properties.    *)
Lowered ==
  Then(FoldLeft(Lower, Allocated, Ids(LAMBDA id : ~ClockWiring(id))), LAMBDA all :
  IF all.failed # "no" THEN all
  ELSE FoldLeft(AddPropertyGate, FoldLeft(Lower, FoldLeft(AddRegister, all, Ids(Register)), outputs), properties))

(* The FSM, and its labels for the variables that have one.                *)
Machinery(s) ==
  LET Valued(kind) ==
        [k \in DOMAIN properties |-> IF properties[k].op.property = kind THEN <<s.properties[k]>> ELSE <<>>]
  IN [size |-> Len(s.ds),
      driver |-> [i \in 0 .. Len(s.ds) - 1 |-> s.ds[i + 1]],
      label |-> s.labels,
      refs |-> [outputs |-> FlattenSeq([k \in DOMAIN outputs |-> s.values[outputs[k]]]),
                asserts |-> FlattenSeq(Valued("assert")),
                assumes |-> FlattenSeq(Valued("assume")),
                covers |-> FlattenSeq(Valued("cover"))]]
================================================================================
