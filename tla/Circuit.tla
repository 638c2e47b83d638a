-------------------------------- MODULE Circuit --------------------------------
(****************************************************************************)
(* What an FSM means, without an order of evaluation: a synchronous circuit *)
(* of latches clocked together, whose gates all hold the values their       *)
(* inputs give them.                                                        *)
(****************************************************************************)
EXTENDS Fsm

CONSTANT Machines

VARIABLES
  fsm,     \* the circuit
  inputs,  \* the value driven on each input
  state    \* the value of each latch variable

vars == <<fsm, inputs, state>>

ResetOf(m) == [l \in Latches(m) |-> LatchReset(m, l)]

Init ==
  /\ fsm \in Machines
  /\ inputs = [i \in Inputs(fsm) |-> "X"]
  /\ state = ResetOf(fsm)

(* The values all variables may hold in the present cycle.                 *)
Valuations ==
  {w \in [VarsOf(fsm) -> Ternary] :
     /\ \A i \in Inputs(fsm) : w[i] = inputs[i]
     /\ \A l \in Latches(fsm) : w[l] = state[l]
     /\ \A g \in Gates(fsm) : w[g] = GateValue(fsm, w, g)}

Drive(i, t) ==
  /\ inputs' = [inputs EXCEPT ![i] = t]
  /\ UNCHANGED <<fsm, state>>

Edge ==
  /\ \E w \in Valuations : state' = [l \in Latches(fsm) |-> LatchNext(fsm, w, l)]
  /\ UNCHANGED <<fsm, inputs>>

ResetLatches ==
  /\ state' = ResetOf(fsm)
  /\ UNCHANGED <<fsm, inputs>>

Forget ==
  /\ inputs' = [i \in Inputs(fsm) |-> "X"]
  /\ state' = [l \in Latches(fsm) |-> "X"]
  /\ UNCHANGED fsm

Next ==
  \/ \E i \in Inputs(fsm), t \in Ternary : Drive(i, t)
  \/ Edge
  \/ ResetLatches
  \/ Forget
Spec == Init /\ [][Next]_vars
================================================================================
