----------------------------------- MODULE Circt -----------------------------------
(****************************************************************************)
(* NamedFsm::from_ast: a hierarchy is flattened, validated and lowered, and *)
(* then runs beside the hierarchy itself.  The hierarchy has a clock that   *)
(* toggles, and each register loads when its own clock net rises; the FSM   *)
(* has no clock and steps at the selected edge.  A register is known to the *)
(* FSM by the label of its latches only.                                   *)
(****************************************************************************)
EXTENDS CirctLowering, Netlist
LOCAL A == INSTANCE Arithmetic

VARIABLES
  fsm,        \* the FSM of the conversion
  latches,    \* a Boolean for each of its latches
  registers,  \* a number for each register of the hierarchy, by path and operation
  ports,      \* a number for each input of the top module, the clock included
  any         \* a number for each operation that may have no result

runVars == <<fsm, latches, registers, ports, any>>
circtVars == <<vars, runVars>>

Top == CHOOSE k \in Candidates(File, given.top) : TRUE
ClockPort == CHOOSE k \in DOMAIN inputs : inputs[k] = clock
Structure == [file |-> File, top |-> Top]
State(in, regs, free) == Structure @@ [inputs |-> in, registers |-> regs, any |-> free]
Now == State(ports, registers, any)

(* Operations are known by their path and their place in the text.          *)
At(net) == OpAt(Structure, net[1], net[2])
WidthOf(net) == TypeOf(Structure, net[1], <<net[2], 1>>).width
RegistersOf == OpsOf(Structure, {"Register"})
AnyOf == {net \in OpsOf(Structure, Divisions \cup ArrayOperations) :
            NeedsUndefined(At(net).kind, IF At(net).kind \in Divisions THEN 0 ELSE At(net).declared[1].size)}
Operand(state, net, k) == ValueOf(state, net[1], At(net).args[k])

(* Numbers below 2^w, one for each of the keys.                            *)
Numbers(keys, w(_)) == {f \in [keys -> 0 .. 2 ^ Max({0} \cup {w(k) : k \in keys}) - 1] :
                          \A k \in keys : f[k] < 2 ^ w(k)}
PortNumbers(level) ==
  {f \in Numbers(DOMAIN inputs, LAMBDA k : IF k = ClockPort THEN 1 ELSE nodes[inputs[k]].type.width) :
     f[ClockPort] = level}
Bit(n, b) == A!BitOf(n, b - 1)

CirctInit ==
  /\ Init
  /\ fsm = <<>> /\ latches = <<>> /\ registers = <<>> /\ ports = <<>> /\ any = <<>>

(* What the variable that is labelled so has in the hierarchy.             *)
Labelled(label, state) ==
  LET net == <<label.path, label.at[1]>>
  IN CASE label.of = "undefined" -> Bit(state.any[net], label.bit)
       [] label.of = "signal" /\ label.at[1] = 0 -> Bit(state.inputs[label.at[2]], label.bit)
       [] label.of = "signal" /\ label.at[1] # 0 -> Bit(state.registers[net], label.bit)
       [] OTHER -> FALSE

(* A register starts at its preset, or else at any value.                  *)
StartsAt(net, n) == At(net).preset # <<>> => n = A!Wrap(At(net).preset[1], WidthOf(net))
LowerDesign ==
  /\ pc = "accepted"
  /\ \E s \in {Lowered} :
     IF SecondClock THEN Refuse("second clock") /\ UNCHANGED runVars
     ELSE IF s.failed # "no" THEN Refuse(s.failed) /\ UNCHANGED runVars
     ELSE /\ pc' = "running"
          /\ fsm' = Machinery(s)
          /\ ports' = [k \in DOMAIN inputs |-> 0]
          /\ any' = [net \in AnyOf |-> 0]
          /\ registers' \in {r \in Numbers(RegistersOf, WidthOf) : \A net \in RegistersOf : StartsAt(net, r[net])}
          /\ latches' = [l \in Latches(fsm') |->
               IF fsm'.driver[l].reset # "X" THEN fsm'.driver[l].reset = "1"
               ELSE Labelled(fsm'.label[l + 1], State(ports', registers', any'))]
          /\ UNCHANGED <<given, refusal, nodes, buildVars, frames, visitVars>>

(* The variables of the FSM in order, each computed from those before it.   *)
Holds(values, v) == (v.index = NoVar \/ values[v.index + 1]) = v.sign
VariableValue(values, i) ==
  LET d == fsm.driver[i]
  IN CASE d.kind = "input" -> Labelled(fsm.label[i + 1], Now)
       [] d.kind = "latch" -> latches[i]
       [] d.kind = "gate" /\ d.type = "And" -> Holds(values, d.a) /\ Holds(values, d.b)
       [] d.kind = "gate" /\ d.type = "Or" -> Holds(values, d.a) \/ Holds(values, d.b)
(* Half of them, then the rest: the set has one member, and TLC evaluates it *)
(* before the rest, so that its stack does not grow with the FSM.           *)
RECURSIVE Extended(_, _)
Extended(values, n) ==
  IF n = 0 THEN values
  ELSE IF n = 1 THEN Append(values, VariableValue(values, Len(values)))
  ELSE CHOOSE all \in {Extended(half, n - n \div 2) : half \in {Extended(values, n \div 2)}} : TRUE
Evaluated == Extended(<<>>, fsm.size)

(* An input, or a result where there is none, gets another value.           *)
Drive(k, n) ==
  /\ pc = "running" /\ k # ClockPort
  /\ ports' = [ports EXCEPT ![k] = n]
  /\ UNCHANGED <<vars, fsm, latches, registers, any>>
Choose(net, n) ==
  /\ pc = "running"
  /\ any' = [any EXCEPT ![net] = n]
  /\ UNCHANGED <<vars, fsm, latches, registers, ports>>

(* The clock toggles.                                                      *)
AfterToggle == [ports EXCEPT ![ClockPort] = 1 - @]
Toggled == State(AfterToggle, registers, any)
Rises(net) == Operand(Now, net, 2) = 0 /\ Operand(Toggled, net, 2) = 1
Load(net) == Operand(Now, net, IF Len(At(net).args) = 4 /\ Operand(Now, net, 3) = 1 THEN 4 ELSE 1)
SelectedEdge == ports[ClockPort] = IF given.edge = "positive" THEN 0 ELSE 1
Toggle ==
  /\ pc = "running"
  /\ registers' = [net \in DOMAIN registers |-> IF Rises(net) THEN Load(net) ELSE registers[net]]
  /\ latches' = IF ~SelectedEdge THEN latches
                ELSE LET values == Evaluated IN [l \in DOMAIN latches |-> Holds(values, fsm.driver[l].input)]
  /\ ports' = AfterToggle
  /\ UNCHANGED <<vars, fsm, any>>

Refused == pc = "refused" /\ UNCHANGED circtVars

BuildDesign == Build /\ UNCHANGED runVars
Run ==
  \/ \E k \in DOMAIN ports : \E n \in 0 .. 2 ^ nodes[inputs[k]].type.width - 1 : Drive(k, n)
  \/ \E net \in DOMAIN any : \E n \in 0 .. 2 ^ WidthOf(net) - 1 : Choose(net, n)
  \/ Toggle
CirctNext == BuildDesign \/ LowerDesign \/ Run \/ Refused
CirctSpec == CirctInit /\ [][CirctNext]_circtVars /\ WF_circtVars(BuildDesign)

--------------------------------------------------------------------------------
(* The converted FSM follows the hierarchy: at both levels of the clock and *)
(* for all inputs, each register has the value of the latches labelled for  *)
(* it, and outputs and properties, matched by their order in the text of    *)
(* the hierarchy, hold alike.  Where an operation has no result, the free   *)
(* inputs labelled for it choose one.                                      *)
RegisterFollows(net) ==
  \A b \in 1 .. WidthOf(net) : \E l \in Latches(fsm) :
    /\ fsm.label[l + 1] = [of |-> "signal", path |-> net[1], at |-> <<net[2], 1>>, bit |-> b]
    /\ latches[l] = Bit(registers[net], b)
BitsOf(path, ref) ==
  [b \in 1 .. TypeOf(Structure, path, ref).width |-> Bit(ValueOf(Now, path, ref), b)]
OutputsMean == FlattenSeq([k \in DOMAIN outputs |-> BitsOf(<<>>, OutputsOf(Module(Top))[k])])
Satisfied(property, read) ==
  IF Len(read) = 3 /\ read[2] = 0 THEN property # "cover" ELSE read[1] = 1
PropertiesMean(property) ==
  LET nets == SelectSeq(PropertiesOf(Structure, <<>>), LAMBDA net : At(net).property = property)
      Read(net) == [k \in DOMAIN At(net).args |-> Operand(Now, net, k)]
  IN [k \in DOMAIN nets |-> Satisfied(property, Read(nets[k]))]
ListOf == [assert |-> "asserts", assume |-> "assumes", cover |-> "covers"]
FollowsDesign ==
  pc = "running" =>
    LET values == Evaluated
        Exposed(list) == [k \in DOMAIN fsm.refs[list] |-> Holds(values, fsm.refs[list][k])]
    IN /\ \A net \in RegistersOf : RegisterFollows(net)
       /\ Exposed("outputs") = OutputsMean
       /\ \A property \in DOMAIN ListOf : Exposed(ListOf[property]) = PropertiesMean(property)

(* A hierarchy is accepted only if it is finite, has no loop of nets that   *)
(* does without a register, and registers and properties all act at the     *)
(* selected edge of the clock and at no other time; each of the refusals    *)
(* that this asks for has its reason, and lowering finds no clock that      *)
(* validation has let pass as data.                                        *)
ActsOnSelectedEdge(path, ref, edge) ==
  \A regs \in Numbers(RegistersOf, WidthOf), free \in Numbers(AnyOf, WidthOf), level \in 0 .. 1 :
    \A in \in PortNumbers(level) :
      ValueOf(State(in, regs, free), path, ref) = IF given.edge = edge THEN level ELSE 1 - level
Clocks ==
  {<<net[1], At(net).args[2], "positive">> : net \in RegistersOf}
    \cup {<<net[1], Last(At(net).args), At(net).edge>> : net \in OpsOf(Structure, {"Property"})}
Fault(reason) ==
  CASE reason = "recursive" -> RecursiveBelow(File, Top)
    [] reason = "external" -> \E k \in Reached(File, {Top}) : Module(k).external
    [] reason = "combinational cycle" -> Looped(Structure, NetsOf(Structure)) # {}
    [] reason = "clock" -> \E c \in Clocks : ~ActsOnSelectedEdge(c[1], c[2], c[3])
                                         \/ ~FollowsClock(Structure, ClockPort, <<c[1], c[2]>>)
    [] reason = "clock as data" -> ClockInData(Structure, ClockPort)
    [] reason = "second clock" -> \E k \in DOMAIN inputs : k # ClockPort /\ Module(Top).inputs[k].type = Clock
    [] reason = "unsupported operation" ->
         \E net \in OpsOf(Structure, {"ToClock"}) :
           ~FollowsClock(Structure, ClockPort, <<net[1], <<net[2], 1>>>>)
Validated == {"recursive", "external", "combinational cycle", "clock", "clock as data"}
VerdictJustified ==
  /\ refusal \notin {"unresolved", "clock lowered"}
  /\ \A reason \in Validated \cup {"second clock", "unsupported operation"} :
       refusal = reason \/ (pc = "accepted" /\ reason \in Validated)
         => (Fault(reason) <=> refusal = reason)

(* What lowering leaves to apply_reset and to the AIGER writer: the FSM      *)
(* verifies, and its inputs, the free ones too, precede its latches, which  *)
(* precede its gates.                                                      *)
ReadyForAiger ==
  pc = "running" =>
    /\ Verify(fsm)
    /\ \A i \in Inputs(fsm), l \in Latches(fsm) : i < l
    /\ \A l \in Latches(fsm), g \in Gates(fsm) : l < g

(* Every hierarchy is accepted or refused in the end, also one whose        *)
(* modules contain each other or whose nets run in circles.                *)
Terminates == <>(pc \in {"accepted", "refused"})
================================================================================
