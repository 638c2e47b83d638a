---------------------------------- MODULE Graph ----------------------------------
(****************************************************************************)
(* Graph::build: the hierarchy below the top module is expanded into one    *)
(* list of nodes, an instance at a time, and then validated: no             *)
(* combinational cycle, types, one clock edge, and no clock used as data.   *)
(* A call of expand is a frame of a stack, and so is a call of visit.       *)
(****************************************************************************)
EXTENDS Catalog

CONSTANT Conversions  \* records: a file and the options of its conversion

(* Ports, operations, operands and results are lists in the text.           *)
IsList(s) == s \in Seq(ToSet(s))
ASSUME ConversionsAssumption ==
  \A c \in Conversions : \A k \in DOMAIN c.file.modules :
    LET module == c.file.modules[k] IN
    /\ IsList(module.inputs) /\ IsList(module.outputs) /\ IsList(module.body)
    /\ \A i \in DOMAIN module.body : IsList(module.body[i].args) /\ IsList(module.body[i].outputs)

VARIABLES
  given,       \* the member of Conversions
  pc,          \* "start", "expand", "visit", "check", then "accepted" or "refused"
  refusal,     \* why
  nodes,       \* Graph::nodes: sequence of nodes
  inputs,      \* Graph::inputs, the nodes of the top module's input ports
  outputs,     \* Graph::outputs
  properties,  \* Graph::properties
  clock,       \* Graph::clock
  frames,      \* the calls of expand, the innermost last
  walk,        \* the calls of visit, the innermost last: a node and the arguments to come
  finished     \* the nodes marked 2 by visit, in the order they are finished

buildVars == <<inputs, outputs, properties, clock>>
visitVars == <<walk, finished>>
vars == <<given, pc, refusal, nodes, buildVars, frames, visitVars>>

File == given.file
Module(k) == File.modules[k]
Refuse(why) ==
  /\ pc' = "refused" /\ refusal' = why
  /\ UNCHANGED <<given, nodes, buildVars, frames, visitVars>>

Pending == [kind |-> "pending"]
Input == [kind |-> "input"]
Alias(id) == [kind |-> "alias", of |-> id]
Operation(op, args) == [kind |-> "op", op |-> op, args |-> args]
Node(type, driver, path, at) == [type |-> type, driver |-> driver, path |-> path, at |-> at]
IsOp(id, kind) == nodes[id].driver.kind = "op" /\ nodes[id].driver.op.kind = kind
Register(id) == IsOp(id, "Register")

Frame(k, bindings, path) ==
  [module |-> k, bindings |-> bindings, path |-> path, results |-> <<>>, next |-> 0, outputs |-> <<>>]

--------------------------------------------------------------------------------
Init ==
  /\ given \in Conversions
  /\ pc = "start" /\ refusal = "none"
  /\ nodes = <<>> /\ inputs = <<>> /\ outputs = <<>> /\ properties = <<>>
  /\ clock = 0
  /\ frames = <<>> /\ walk = <<>> /\ finished = <<>>

(* The clock is an input of one bit or a native clock, the reset another    *)
(* input of one bit.                                                       *)
OptionsFit(ports) ==
  /\ \E k \in DOMAIN ports : ports[k].name = given.clock /\ ports[k].type \in {Clock, BitType}
  /\ given.reset # "none" =>
       /\ given.reset # given.clock
       /\ \E k \in DOMAIN ports : ports[k].name = given.reset /\ ports[k].type = BitType

Start ==
  /\ pc = "start"
  /\ LET tops == Candidates(File, given.top)
         top == CHOOSE k \in tops : TRUE
         ports == Module(top).inputs
     IN IF Duplicates(File) THEN Refuse("duplicate module")
        ELSE IF Cardinality(tops) # 1 THEN Refuse("top")
        ELSE IF ~OptionsFit(ports) THEN Refuse("options")
        ELSE /\ pc' = "expand"
             /\ nodes' = [k \in DOMAIN ports |-> Node(ports[k].type, Input, <<>>, <<0, k>>)]
             /\ inputs' = [k \in DOMAIN ports |-> k]
             /\ clock' = CHOOSE k \in DOMAIN ports : ports[k].name = given.clock
             /\ frames' = <<Frame(top, inputs', <<>>)>>
             /\ UNCHANGED <<given, refusal, outputs, properties, visitVars>>

(* The innermost call, its module and the frame with fields replaced.      *)
Call == Last(frames)
Body == Module(Call.module).body
CallWith(frame) == Append(Front(frames), frame)

(* stack.contains: the module is being expanded already.                   *)
Stacked(k) == \E i \in 1 .. Len(frames) - 1 : frames[i].module = k

Enter ==
  /\ pc = "expand" /\ frames # <<>> /\ Call.next = 0
  /\ IF Stacked(Call.module) THEN Refuse("recursive")
     ELSE IF Module(Call.module).external THEN Refuse("external")
     ELSE /\ frames' = CallWith([Call EXCEPT !.next = 1])
          /\ UNCHANGED <<given, pc, refusal, nodes, buildVars, visitVars>>

\* Mutant: the results are numbered when their nodes are there already.
ResultIdsAfter(types) == [r \in DOMAIN types |-> Len(nodes) + Len(types) + r]

ResultIds(types) == [r \in DOMAIN types |-> Len(nodes) + r]

(* The results of every operation get their nodes, an operation at a time,  *)
(* before any is read, so that uses may precede definitions.                *)
Declare ==
  /\ pc = "expand" /\ frames # <<>> /\ Call.next = 1 /\ Len(Call.results) < Len(Body)
  /\ LET i == Len(Call.results) + 1
         types == ResultTypes(Body[i])
     IN /\ nodes' = nodes \o [r \in DOMAIN types |-> Node(types[r], Pending, Call.path, <<i, r>>)]
        /\ frames' = CallWith([Call EXCEPT !.results = Append(@, ResultIds(types))])
        /\ UNCHANGED <<given, pc, refusal, buildVars, visitVars>>

(* The next operation, all results being declared, and its operands.       *)
AtOperation == /\ pc = "expand" /\ frames # <<>>
               /\ Call.next \in DOMAIN Body /\ Len(Call.results) = Len(Body)
Present == Body[Call.next]
Known(ref) == IF ref[1] = 0 THEN ref[2] \in DOMAIN Call.bindings
              ELSE ref[1] \in DOMAIN Call.results /\ ref[2] \in DOMAIN Call.results[ref[1]]
ArgsKnown == \A k \in DOMAIN Present.args : Known(Present.args[k])
RefuseValue == AtOperation /\ ~ArgsKnown /\ Refuse("unresolved value")

Performing == AtOperation /\ ArgsKnown
Lookup(ref) == IF ref[1] = 0 THEN Call.bindings[ref[2]] ELSE Call.results[ref[1]][ref[2]]
Args == [k \in DOMAIN Present.args |-> Lookup(Present.args[k])]
Advanced == CallWith([Call EXCEPT !.next = @ + 1])

(* Inputs are bound by name, whatever their order.                         *)
BoundByName(child) ==
  [k \in DOMAIN Module(child).inputs |->
     Args[CHOOSE j \in DOMAIN Args : Present.names[j] = Module(child).inputs[k].name]]
SignatureFits(child) ==
  LET ports == Module(child).inputs IN
  /\ Len(Present.names) = Len(ports) /\ Cardinality(ToSet(Present.names)) = Len(ports)
  /\ \A k \in DOMAIN ports : \E j \in DOMAIN Args :
       Present.names[j] = ports[k].name /\ nodes[Args[j]].type = ports[k].type
  /\ Present.outputs = Module(child).outputs

CallInstance ==
  /\ Performing /\ Present.kind = "Instance"
  /\ LET child == Resolve(File, Module(Call.module).scope, Present.module)
     IN IF child \notin DOMAIN File.modules THEN Refuse("unknown module")
        ELSE IF ~SignatureFits(child) THEN Refuse("signature")
        ELSE /\ frames' = Append(frames, Frame(child, BoundByName(child), Append(Call.path, Call.next)))
             /\ UNCHANGED <<given, pc, refusal, nodes, buildVars, visitVars>>

(* hw.output must be last.                                                 *)
SetOutputs ==
  /\ Performing /\ Present.kind = "Output"
  /\ IF \/ Call.next # Len(Body)
        \/ [k \in DOMAIN Args |-> nodes[Args[k]].type]
             # [k \in DOMAIN Module(Call.module).outputs |-> Module(Call.module).outputs[k].type]
     THEN Refuse("output")
     ELSE /\ frames' = CallWith([Call EXCEPT !.next = @ + 1, !.outputs = Args])
          /\ UNCHANGED <<given, pc, refusal, nodes, buildVars, visitVars>>

AddProperty ==
  /\ Performing /\ Present.kind = "Property"
  /\ properties' = Append(properties, [op |-> Present, args |-> Args, path |-> Call.path, at |-> Call.next])
  /\ frames' = Advanced
  /\ UNCHANGED <<given, pc, refusal, nodes, inputs, outputs, clock, visitVars>>

SetDriver ==
  /\ Performing /\ Present.kind \notin {"Instance", "Output", "Property"}
  /\ nodes' = [nodes EXCEPT ![Call.results[Call.next][1]].driver = Operation(Present, Args)]
  /\ frames' = Advanced
  /\ UNCHANGED <<given, pc, refusal, buildVars, visitVars>>

(* The results of the instance become aliases of the outputs of the call.   *)
Return ==
  /\ pc = "expand" /\ frames # <<>> /\ Call.next = Len(Body) + 1
  /\ LET parent == frames[Len(frames) - 1]
         results == parent.results[parent.next]
     IN IF Body = <<>> \/ Last(Body).kind # "Output" THEN Refuse("missing output")
        ELSE IF Len(frames) = 1
        THEN /\ pc' = "visit" /\ outputs' = Call.outputs /\ frames' = <<>>
             /\ UNCHANGED <<given, refusal, nodes, inputs, properties, clock, visitVars>>
        ELSE /\ nodes' = [id \in DOMAIN nodes |->
                            IF id \in ToSet(results)
                            THEN [nodes[id] EXCEPT !.driver = Alias(Call.outputs[nodes[id].at[2]])]
                            ELSE nodes[id]]
             /\ frames' = Append(Front(Front(frames)), [parent EXCEPT !.next = @ + 1])
             /\ UNCHANGED <<given, pc, refusal, buildVars, visitVars>>

Expand == Enter \/ Declare \/ RefuseValue \/ CallInstance \/ SetOutputs \/ AddProperty \/ SetDriver \/ Return

--------------------------------------------------------------------------------
(* visit: depth first over what a node reads, registers left out.          *)
Reads(id) ==
  CASE nodes[id].driver.kind = "alias" -> <<nodes[id].driver.of>>
    [] nodes[id].driver.kind = "op" -> nodes[id].driver.args
    [] OTHER -> <<>>
\* Mutant: registers are walked through like other nodes.
VisitedOnly(id) == id \in ToSet(finished)

Visited(id) == id \in ToSet(finished) \/ Register(id)
OnWalk(id) == \E k \in DOMAIN walk : walk[k].node = id
Visit(id) == [node |-> id, args |-> Reads(id)]

(* The outer loop takes the nodes in their order.                          *)
VisitNext ==
  /\ pc = "visit" /\ walk = <<>>
  /\ LET left == {id \in DOMAIN nodes : ~Visited(id)}
     IN IF left = {}
        THEN pc' = "check" /\ UNCHANGED <<given, refusal, nodes, buildVars, frames, visitVars>>
        ELSE /\ walk' = <<Visit(Min(left))>>
             /\ UNCHANGED <<given, pc, refusal, nodes, buildVars, frames, finished>>

Caller == Last(walk)
Visiting == pc = "visit" /\ walk # <<>> /\ Caller.args # <<>>
WalkWith(caller) == Append(Front(walk), caller)
\* Mutant: the argument is not taken from the list.
WalkedAgain == walk

Walked == WalkWith([Caller EXCEPT !.args = Tail(@)])

VisitSkip ==
  /\ Visiting /\ Visited(Head(Caller.args))
  /\ walk' = Walked
  /\ UNCHANGED <<given, pc, refusal, nodes, buildVars, frames, finished>>

VisitCycle ==
  /\ Visiting /\ ~Visited(Head(Caller.args)) /\ OnWalk(Head(Caller.args))
  /\ Refuse("combinational cycle")

VisitArgument ==
  /\ Visiting /\ ~Visited(Head(Caller.args)) /\ ~OnWalk(Head(Caller.args))
  /\ walk' = Append(Walked, Visit(Head(Caller.args)))
  /\ UNCHANGED <<given, pc, refusal, nodes, buildVars, frames, finished>>

VisitDone ==
  /\ pc = "visit" /\ walk # <<>> /\ Caller.args = <<>>
  /\ IF nodes[Caller.node].driver = Pending THEN Refuse("unresolved")
     ELSE /\ finished' = Append(finished, Caller.node)
          /\ walk' = Front(walk)
          /\ UNCHANGED <<given, pc, refusal, nodes, buildVars, frames>>

--------------------------------------------------------------------------------
(* constant_bit, NoBit unless the node is a constant bit.                   *)
NoBit == -1
ConstantBit ==
  LET bit[id \in DOMAIN nodes] ==
        IF nodes[id].driver.kind = "alias" THEN bit[nodes[id].driver.of]
        ELSE IF IsOp(id, "Constant") /\ nodes[id].type = BitType THEN nodes[id].driver.op.n % 2
        ELSE NoBit
  IN bit

\* Mutant: every constant operand inverts.
SourceOfAnyXor ==
  LET source[id \in DOMAIN nodes] ==
        LET args == Reads(id)
            constants == {k \in DOMAIN args : ConstantBit[args[k]] # NoBit}
            rest == DOMAIN args \ constants
            inner == source[args[CHOOSE k \in rest : TRUE]]
        IN CASE nodes[id].driver = Input -> [root |-> id, inverted |-> FALSE]
             [] nodes[id].driver.kind = "alias" \/ IsOp(id, "ToClock") -> source[args[1]]
             [] IsOp(id, "Xor") /\ nodes[id].type = BitType /\ Cardinality(rest) = 1 ->
                  [inner EXCEPT !.inverted = (@ # (Cardinality(constants) % 2 = 1))]
             [] OTHER -> [root |-> 0, inverted |-> FALSE]
  IN source

(* clock_source: the input that a clock comes from, through the hierarchy,  *)
(* to_clock and exclusive ors with constants, and whether it is inverted on *)
(* the way; root 0 for a derived, gated or constant clock.                 *)
ClockSource ==
  LET source[id \in DOMAIN nodes] ==
        LET args == Reads(id)
            constants == {k \in DOMAIN args : ConstantBit[args[k]] # NoBit}
            flips == {k \in constants : ConstantBit[args[k]] = 1}
            rest == DOMAIN args \ constants
            inner == source[args[CHOOSE k \in rest : TRUE]]
        IN CASE nodes[id].driver = Input -> [root |-> id, inverted |-> FALSE]
             [] nodes[id].driver.kind = "alias" \/ IsOp(id, "ToClock") -> source[args[1]]
             [] IsOp(id, "Xor") /\ nodes[id].type = BitType /\ Cardinality(rest) = 1 ->
                  [inner EXCEPT !.inverted = (@ # (Cardinality(flips) % 2 = 1))]
             [] OTHER -> [root |-> 0, inverted |-> FALSE]
  IN source

ClockWiring(id) == ClockSource[id].root = clock
OnSelectedEdge(id, edge) ==
  /\ ClockWiring(id)
  /\ (edge = "negative") # ClockSource[id].inverted <=> given.edge = "negative"

Types(ids) == [k \in DOMAIN ids |-> nodes[ids[k]].type]
IllTyped(id) ==
  nodes[id].driver.kind = "op" /\ ~WellTyped(nodes[id].driver.op, nodes[id].type, Types(Reads(id)))
Misclocked(id) == Register(id) /\ ~OnSelectedEdge(Reads(id)[2], "positive")

(* data: whether a clock is read as data by the node, or on the way to it   *)
(* from inputs and registers.                                              *)
ReadsClock ==
  LET reads[id \in DOMAIN nodes] ==
        \/ id = clock \/ nodes[id].type = Clock
        \/ ~Register(id) /\ \E k \in DOMAIN Reads(id) : reads[Reads(id)[k]]
  IN reads

(* What a node reads as data.  Inverters of the clock are left to their     *)
(* readers.                                                                *)
DataArgs(id) ==
  LET args == ToSet(Reads(id))
      besides == {Reads(id)[k] : k \in DOMAIN Reads(id) \ {2}}
  IN IF nodes[id].driver.kind # "op" \/ IsOp(id, "ToClock") THEN {}
     ELSE IF Register(id) THEN besides
     ELSE IF ClockWiring(id) THEN {} ELSE args
DataRoots ==
  UNION {DataArgs(id) : id \in DOMAIN nodes} \cup ToSet(outputs)
    \cup UNION {ToSet(Front(properties[k].args)) : k \in DOMAIN properties}

(* The rest of validate, in its order: nodes, properties, then data.       *)
IllTypedProperty(k) ==
  Types(properties[k].args) \notin {<<BitType, BitType>>, <<BitType, BitType, BitType>>}
MisclockedProperty(k) == ~OnSelectedEdge(Last(properties[k].args), properties[k].op.edge)
BadNodes == {id \in DOMAIN nodes : IllTyped(id) \/ Misclocked(id)}
BadProperties == {k \in DOMAIN properties : IllTypedProperty(k) \/ MisclockedProperty(k)}
Check ==
  /\ pc = "check"
  /\ IF BadNodes # {} THEN Refuse(IF IllTyped(Min(BadNodes)) THEN "types" ELSE "clock")
     ELSE IF BadProperties # {}
     THEN Refuse(IF IllTypedProperty(Min(BadProperties)) THEN "types" ELSE "clock")
     ELSE IF \E id \in DataRoots : ReadsClock[id] THEN Refuse("clock as data")
     ELSE /\ pc' = "accepted"
          /\ UNCHANGED <<given, refusal, nodes, buildVars, frames, visitVars>>

Build == Start \/ Expand \/ VisitNext \/ VisitSkip \/ VisitCycle \/ VisitArgument \/ VisitDone \/ Check
BuildSpec == Init /\ [][Build]_vars

--------------------------------------------------------------------------------
\* Every node that is read is there.
NodesClosed ==
  /\ DOMAIN nodes \subseteq Nat
  /\ \A id \in DOMAIN nodes : Reads(id) \in Seq(DOMAIN nodes)

(* Type invariant: whatever the calls of expand and of visit hold names a   *)
(* node that is there, and so does each node that reads another.           *)
TypeOK ==
  /\ given \in Conversions /\ (pc = "refused" <=> refusal # "none")
  /\ NodesClosed
  /\ inputs \in Seq(DOMAIN nodes) /\ outputs \in Seq(DOMAIN nodes) /\ clock \in 0 .. Len(nodes)
  /\ \A k \in DOMAIN frames :
       /\ frames[k].bindings \in Seq(DOMAIN nodes) /\ frames[k].outputs \in Seq(DOMAIN nodes)
       /\ \A i \in DOMAIN frames[k].results : frames[k].results[i] \in Seq(DOMAIN nodes)
  /\ walk \in Seq([node : DOMAIN nodes, args : Seq(DOMAIN nodes)])
  /\ finished \in Seq(DOMAIN nodes)

\* Nodes that the finished node k may read: registers, or finished before it.
Ordered == \A k \in DOMAIN finished : \A id \in ToSet(Reads(finished[k])) :
             Register(id) \/ \E j \in 1 .. k - 1 : finished[j] = id

\* From walk[k] on, each call was made for something the one before it reads,
\* and the last one reads the first: a cycle, and no register on it.
Circle(k) == \A j \in k .. Len(walk) :
  /\ ~Register(walk[j].node)
  /\ walk[IF j = Len(walk) THEN k ELSE j + 1].node \in ToSet(Reads(walk[j].node))

(* A hierarchy passes visit only with its combinational nodes in an order   *)
(* in which each comes after all it reads, across instances as within them, *)
(* and is refused as a combinational cycle only for a real one, with no     *)
(* register on it.                                                         *)
WalkDecidesLoops ==
  /\ pc \in {"check", "accepted"} => Ordered /\ \A id \in DOMAIN nodes : Visited(id)
  /\ refusal = "combinational cycle" => \E k \in DOMAIN walk : Circle(k)
================================================================================
