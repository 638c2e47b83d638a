--------------------------------- MODULE Netlist ---------------------------------
(****************************************************************************)
(* What a hierarchy of CIRCT modules means, without flattening it: a net is *)
(* an SSA value of an instance, an instance is the path of the instance     *)
(* operations that lead to it, and values are numbers.  d is a file, its    *)
(* top module, and the values of inputs, registers and undefined results.   *)
(****************************************************************************)
EXTENDS Catalog
LOCAL M == INSTANCE Arithmetic

ModuleAt(d, path) ==
  d.file.modules[FoldLeft(LAMBDA k, i : Resolve(d.file, d.file.modules[k].scope, d.file.modules[k].body[i].module),
                          d.top, path)]
OpAt(d, path, i) == ModuleAt(d, path).body[i]
OutputsOf(module) == Last(module.body).args
(* What a net that is an input of an instance is connected to.              *)
Actual(d, path, k) ==
  LET op == OpAt(d, Front(path), Last(path))
  IN op.args[CHOOSE j \in DOMAIN op.args : op.names[j] = ModuleAt(d, path).inputs[k].name]

TypeOf(d, path, ref) == IF ref[1] = 0 THEN ModuleAt(d, path).inputs[ref[2]].type
                        ELSE ResultTypes(OpAt(d, path, ref[1]))[ref[2]]

(* Lists put their first member highest, at every level.                    *)
Joined(values, types) ==
  FoldLeft(LAMBDA n, k : n * 2 ^ types[k].width + values[k], 0, [k \in DOMAIN values |-> k])
RECURSIVE Aggregate(_, _)
Aggregate(type, value) ==
  IF IsInteger(type) THEN M!Wrap(value, type.width)
  ELSE Joined([k \in DOMAIN value |-> Aggregate(Member(type, k), value[k])],
              [k \in DOMAIN value |-> Member(type, k)])

Meaning(op, values, types, any) ==
  LET type == ResultTypes(op)[1]
      w == type.width
      element == IF op.kind = "ArrayGet" THEN w ELSE types[3].width
      Read(k) == IF op.signed THEN M!SignedOf(values[k], types[k].width) ELSE values[k]
  IN CASE op.kind = "Constant" -> M!Wrap(op.n, w)
       [] op.kind = "AggregateConstant" -> Aggregate(type, op.fields)
       [] op.kind \in Variadic \cup Dyadic ->
            FoldLeft(LAMBDA a, b : M!CombOf(op.kind, a, b, w, any), Head(values), Tail(values))
       [] op.kind = "Compare" -> M!Truth(M!Compares(op.predicate, Read(1), Read(2)))
       [] op.kind = "Mux" -> IF values[1] = 1 THEN values[2] ELSE values[3]
       [] op.kind \in {"Concat", "ArrayCreate"} -> Joined(values, types)
       [] op.kind = "Replicate" -> Joined([k \in 1 .. w \div types[1].width |-> values[1]],
                                          [k \in 1 .. w \div types[1].width |-> types[1]])
       [] op.kind = "Extract" -> M!PartOf(values[1], op.n, w)
       [] op.kind = "UnionExtract" -> M!PartOf(values[1], types[1].members[op.n].offset, w)
       [] op.kind \in {"Bitcast", "ToClock"} -> values[1]
       [] op.kind = "ArrayGet" -> IF values[2] < types[1].size
                                  THEN M!PartOf(values[1], element * values[2], element) ELSE any
       [] op.kind = "ArrayInject" -> IF values[2] < types[1].size
                                     THEN M!WithPart(values[1], element * values[2], element, values[3]) ELSE any

RECURSIVE ValueOf(_, _, _)
ValueOf(d, path, ref) ==
  LET op == OpAt(d, path, ref[1])
      below == Append(path, ref[1])
  IN IF ref[1] = 0
     THEN IF path = <<>> THEN d.inputs[ref[2]] ELSE ValueOf(d, Front(path), Actual(d, path, ref[2]))
     ELSE IF op.kind = "Instance" THEN ValueOf(d, below, OutputsOf(ModuleAt(d, below))[ref[2]])
     ELSE IF op.kind = "Register" THEN d.registers[<<path, ref[1]>>]
     ELSE Meaning(op, [k \in DOMAIN op.args |-> ValueOf(d, path, op.args[k])],
                  [k \in DOMAIN op.args |-> TypeOf(d, path, op.args[k])], d.any[<<path, ref[1]>>])

--------------------------------------------------------------------------------
(* The modules reached from module k, and whether one reaches itself.       *)
RECURSIVE Reached(_, _)
Reached(file, modules) ==
  LET more == modules \cup UNION {Instantiated(file, k) : k \in modules}
  IN IF more = modules THEN modules ELSE Reached(file, more)
RecursiveBelow(file, k) == \E j \in Reached(file, {k}) : j \in Reached(file, Instantiated(file, j))

RECURSIVE PathsBelow(_, _)
PathsBelow(file, k) ==
  LET body == file.modules[k].body
      Child(i) == Resolve(file, file.modules[k].scope, body[i].module)
  IN {<<>>} \cup UNION {{<<i>> \o p : p \in PathsBelow(file, Child(i))} :
                          i \in {j \in DOMAIN body : body[j].kind = "Instance"}}
OpsOf(d, kinds) ==
  UNION {{<<path, i>> : i \in {j \in DOMAIN ModuleAt(d, path).body : OpAt(d, path, j).kind \in kinds}} :
           path \in PathsBelow(d.file, d.top)}

(* Properties in the order of the text, those of an instance at its place.  *)
RECURSIVE PropertiesOf(_, _)
PropertiesOf(d, path) ==
  LET Here(i) == CASE OpAt(d, path, i).kind = "Property" -> <<<<path, i>>>>
                   [] OpAt(d, path, i).kind = "Instance" -> PropertiesOf(d, Append(path, i))
                   [] OTHER -> <<>>
  IN FoldLeft(LAMBDA s, i : s \o Here(i), <<>>, [i \in DOMAIN ModuleAt(d, path).body |-> i])

(* Nets that hang together in a loop without a register: what is left when  *)
(* nets that read none of the others are taken away.                       *)
NetReads(d, path, ref) ==
  LET op == OpAt(d, path, ref[1])
      below == Append(path, ref[1])
  IN IF ref[1] = 0 THEN IF path = <<>> THEN {} ELSE {<<Front(path), Actual(d, path, ref[2])>>}
     ELSE IF op.kind = "Register" THEN {}
     ELSE IF op.kind = "Instance" THEN {<<below, OutputsOf(ModuleAt(d, below))[ref[2]]>>}
     ELSE {<<path, op.args[k]>> : k \in DOMAIN op.args}
NetsOf(d) ==
  UNION {{<<path, <<0, k>>>> : k \in DOMAIN ModuleAt(d, path).inputs}
           \cup UNION {{<<path, <<i, r>>>> : r \in DOMAIN ResultTypes(OpAt(d, path, i))} :
                         i \in DOMAIN ModuleAt(d, path).body} : path \in PathsBelow(d.file, d.top)}
RECURSIVE Looped(_, _)
Looped(d, nets) ==
  LET left == {n \in nets : NetReads(d, n[1], n[2]) \cap nets # {}}
  IN IF left = nets THEN nets ELSE Looped(d, left)

(* All that some nets are computed from, registers being where it stops.    *)
RECURSIVE Cone(_, _)
Cone(d, nets) ==
  LET more == nets \cup UNION {NetReads(d, n[1], n[2]) : n \in nets}
  IN IF more = nets THEN nets ELSE Cone(d, more)
KindOf(d, net) == IF net[2][1] = 0 THEN "input" ELSE OpAt(d, net[1], net[2][1]).kind

(* Nets that are the clock k of the top module, possibly inverted, whatever *)
(* else happens.                                                           *)
Wiring == {"input", "Instance", "ToClock", "Xor", "Constant"}
FollowsClock(d, k, net) ==
  LET cone == Cone(d, {net})
      sources == {n \in cone : KindOf(d, n) # "Constant" /\ NetReads(d, n[1], n[2]) = {}}
  IN sources = {<<<<>>, <<0, k>>>>} /\ \A n \in cone : KindOf(d, n) \in Wiring

(* Nets read by something besides wiring of the clock k and clock operands. *)
DataNets(d, k) ==
  LET Operands(path, i) ==
        LET op == OpAt(d, path, i)
        IN CASE op.kind \in {"Instance", "ToClock"} -> {}
             [] op.kind = "Output" /\ path # <<>> -> {}
             [] op.kind = "Register" -> DOMAIN op.args \ {2}
             [] op.kind = "Property" -> DOMAIN op.args \ {Len(op.args)}
             [] op.kind = "Xor" /\ FollowsClock(d, k, <<path, <<i, 1>>>>) -> {}
             [] OTHER -> DOMAIN op.args
  IN UNION {UNION {{<<path, OpAt(d, path, i).args[a]>> : a \in Operands(path, i)} :
                     i \in DOMAIN ModuleAt(d, path).body} : path \in PathsBelow(d.file, d.top)}
ClockInData(d, k) ==
  \E n \in Cone(d, DataNets(d, k)) : n = <<<<>>, <<0, k>>>> \/ TypeOf(d, n[1], n[2]) = Clock
================================================================================
