------------------------------- MODULE Simulator -------------------------------
(****************************************************************************)
(* The three-valued simulator of formal-utils: one action per method that   *)
(* changes its variables, called in any order; the loop of eval is one      *)
(* action per iteration.                                                    *)
(****************************************************************************)
EXTENDS Fsm

CONSTANT Machines  \* the FSMs a simulator may be built from

ASSUME MachinesAssumption ==
  \A m \in Machines : WellFormed(m) /\ FullyDriven(m)

VARIABLES
  fsm,     \* self.fsm
  values,  \* self.variables
  cursor,  \* variable_index of eval's loop, the size of the FSM outside it
  fresh    \* history: nothing changed self.variables since eval returned

vars == <<fsm, values, cursor, fresh>>

Unknown(m) == [i \in VarsOf(m) |-> "X"]
\* Mutant: the other variables are dropped.
WithResetAlone(m, vals) == [i \in Latches(m) |-> LatchReset(m, i)]

WithReset(m, vals) ==
  [i \in VarsOf(m) |-> IF i \in Latches(m) THEN LatchReset(m, i) ELSE vals[i]]

(* From<FSM>: every variable unknown, then reset_state.                    *)
Init ==
  /\ fsm \in Machines
  /\ values = WithReset(fsm, Unknown(fsm))
  /\ cursor = fsm.size
  /\ fresh = FALSE

Idle == cursor = fsm.size

(* A method that sets the variables to vals and is not eval.               *)
Overwrite(vals) ==
  /\ Idle
  /\ values' = vals
  /\ fresh' = FALSE
  /\ UNCHANGED <<fsm, cursor>>

SetVariable(i, t) == i \in VarsOf(fsm) /\ Overwrite([values EXCEPT ![i] = t])
SetInput(i, t) == i \in Inputs(fsm) /\ SetVariable(i, t)

\* Mutant: a gate with a value is not evaluated.
EvaluatedOnce(i) == IF i \in Gates(fsm) /\ values[i] = "X"
                    THEN [values EXCEPT ![i] = GateValue(fsm, values, i)] ELSE values

Evaluated(i) == IF i \in Gates(fsm) THEN [values EXCEPT ![i] = GateValue(fsm, values, i)]
                ELSE values
EvalVariable(i) == i \in VarsOf(fsm) /\ Overwrite(Evaluated(i))

BeginEval ==
  /\ Idle
  /\ cursor' = 0
  /\ fresh' = (fsm.size = 0)
  /\ UNCHANGED <<fsm, values>>

EvalNext ==
  /\ ~Idle
  /\ values' = Evaluated(cursor)
  /\ cursor' = cursor + 1
  /\ fresh' = (cursor' = fsm.size)
  /\ UNCHANGED fsm

\* Mutant: latches are updated one after the other.
ClockedInPlace ==
  LET after[i \in VarsOf(fsm)] ==
        IF i \in Latches(fsm)
        THEN LatchNext(fsm, [j \in VarsOf(fsm) |-> IF j < i THEN after[j] ELSE values[j]], i)
        ELSE values[i]
  IN after

(* step: every latch takes its input from the values before the edge.      *)
Clocked == [i \in VarsOf(fsm) |-> IF i \in Latches(fsm) THEN LatchNext(fsm, values, i)
                                  ELSE values[i]]
ClockStep == Overwrite(Clocked)

ResetState == Overwrite(WithReset(fsm, values))
Reset == Overwrite(Unknown(fsm))

Eval == BeginEval \/ EvalNext
Next ==
  \/ \E i \in VarsOf(fsm), t \in Ternary : SetVariable(i, t) \/ SetInput(i, t)
  \/ \E i \in VarsOf(fsm) : EvalVariable(i)
  \/ Eval
  \/ ClockStep
  \/ ResetState
  \/ Reset
Spec == Init /\ [][Next]_vars

--------------------------------------------------------------------------------
(* Each variable keeps the shape the source declares.                      *)
TypeOK ==
  /\ WellFormed(fsm)
  /\ values \in [VarsOf(fsm) -> Ternary]
  /\ cursor \in 0 .. fsm.size
  /\ fresh \in BOOLEAN

(* One pass of eval settles an ordered FSM: the gates the loop has passed  *)
(* keep the value their inputs give them, although the pass still writes   *)
(* other gates, and at its end every gate agrees with its inputs whatever  *)
(* the variables held before (set_variable may have forced a gate).        *)
Settling ==
  OrderedGates(fsm) =>
    \A g \in Gates(fsm) :
      fresh \/ (~Idle /\ g < cursor) => values[g] = GateValue(fsm, values, g)
================================================================================
