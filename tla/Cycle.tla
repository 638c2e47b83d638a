--------------------------------- MODULE Cycle ---------------------------------
(****************************************************************************)
(* The way the tests of circt-formal and verilator-formal drive a           *)
(* simulator: step is called when eval has just settled the gates, and no   *)
(* latch is overwritten.  Every other call comes at any time.  Under this   *)
(* discipline the simulator implements the synchronous circuit.            *)
(****************************************************************************)
EXTENDS Simulator

ASSUME OrderingAssumption == \A m \in Machines : OrderedGates(m)

CycleNext ==
  \/ \E i \in VarsOf(fsm), t \in Ternary : SetInput(i, t)
  \/ \E i \in VarsOf(fsm) \ Latches(fsm), t \in Ternary : SetVariable(i, t)
  \/ \E i \in VarsOf(fsm) : EvalVariable(i)
  \/ Eval
  \/ fresh /\ ClockStep
  \/ ResetState
  \/ Reset
CycleSpec == Init /\ [][CycleNext]_vars

--------------------------------------------------------------------------------
(* On an ordered FSM a cycle of the simulator is a cycle of the circuit:   *)
(* no latch sees another's new value, no gate is sampled before it has     *)
(* settled, and signed outputs and resets cancel.                          *)
C == INSTANCE Circuit WITH
       inputs <- [i \in Inputs(fsm) |-> values[i]],
       state <- [l \in Latches(fsm) |-> values[l]]
ImplementsCircuit == C!Spec
================================================================================
