---------------------------- MODULE SimulatorProofs ----------------------------
(****************************************************************************)
(* One pass of eval settles every ordered FSM, whatever was called before,  *)
(* and the simulator, driven as the tests drive it, behaves as the          *)
(* synchronous circuit that the FSM describes.                             *)
(****************************************************************************)
EXTENDS Cycle, FsmProofs

--------------------------------------------------------------------------------
(* The loop of eval writes only the gate at its cursor.                    *)
LEMMA EvaluatedType ==
  ASSUME TypeOK, NEW i \in VarsOf(fsm)
  PROVE  /\ Evaluated(i) \in [VarsOf(fsm) -> Ternary]
         /\ \A j \in VarsOf(fsm) : j # i => Evaluated(i)[j] = values[j]
         /\ i \in Gates(fsm) => Evaluated(i)[i] = GateValue(fsm, values, i)
BY GateValueType DEF TypeOK, Evaluated

(* Each step keeps the types.                                              *)
LEMMA TypePreserved == TypeOK /\ [Next]_vars => TypeOK'
<1> SUFFICES ASSUME TypeOK, [Next]_vars PROVE TypeOK'
  OBVIOUS
<1>1. WellFormed(fsm) /\ fsm.size \in Nat /\ values \in [VarsOf(fsm) -> Ternary]
  BY DEF TypeOK, WellFormed
<1>2. ASSUME NEW vals \in [VarsOf(fsm) -> Ternary], Overwrite(vals) PROVE TypeOK'
  BY <1>2 DEF Overwrite, TypeOK
<1>3. "X" \in Ternary
  BY DEF Ternary
<1>4. CASE \E i \in VarsOf(fsm), t \in Ternary : SetVariable(i, t) \/ SetInput(i, t)
  <2>1. PICK i \in VarsOf(fsm), t \in Ternary : SetVariable(i, t)
    BY <1>4 DEF SetInput
  <2> QED
    BY <1>1, <1>2, <2>1 DEF SetVariable
<1>5. CASE \E i \in VarsOf(fsm) : EvalVariable(i)
  BY <1>2, <1>5, EvaluatedType DEF EvalVariable
<1>6. CASE BeginEval
  BY <1>1, <1>6 DEF BeginEval, TypeOK
<1>7. CASE EvalNext
  <2>1. cursor \in VarsOf(fsm) /\ cursor + 1 \in 0 .. fsm.size
    BY <1>1, <1>7 DEF EvalNext, Idle, TypeOK, VarsOf
  <2> QED
    BY <1>7, <2>1, EvaluatedType DEF EvalNext, TypeOK
<1>8. CASE ClockStep
  <2>1. Clocked \in [VarsOf(fsm) -> Ternary]
    BY <1>1, LatchValueType DEF Clocked
  <2> QED
    BY <1>2, <1>8, <2>1 DEF ClockStep
<1>9. CASE ResetState
  <2>1. WithReset(fsm, values) \in [VarsOf(fsm) -> Ternary]
    BY <1>1, LatchValueType DEF WithReset
  <2> QED
    BY <1>2, <1>9, <2>1 DEF ResetState
<1>10. CASE Reset
  BY <1>2, <1>3, <1>10 DEF Reset, Unknown
<1>11. CASE UNCHANGED vars
  BY <1>11 DEF vars, TypeOK
<1> QED
  BY <1>4, <1>5, <1>6, <1>7, <1>8, <1>9, <1>10, <1>11 DEF Next, Eval

(* The simulator starts in a state of its type.                            *)
LEMMA InitType == Init => TypeOK /\ Settling
<1> SUFFICES ASSUME Init PROVE TypeOK /\ Settling
  OBVIOUS
<1>1. WellFormed(fsm) /\ fsm.size \in Nat
  BY MachinesAssumption DEF Init, WellFormed
<1>2. Unknown(fsm) \in [VarsOf(fsm) -> Ternary]
  BY DEF Unknown, Ternary
<1>3. WithReset(fsm, Unknown(fsm)) \in [VarsOf(fsm) -> Ternary]
  BY <1>1, <1>2, LatchValueType DEF WithReset
<1> QED
  <2>1. TypeOK
    <3>1. values = WithReset(fsm, Unknown(fsm)) /\ cursor = fsm.size /\ fresh = FALSE
      BY DEF Init
    <3>2. values \in [VarsOf(fsm) -> Ternary]
      BY <1>3, <3>1, Zenon
    <3>3. cursor \in 0 .. fsm.size
      BY <1>1, <3>1
    <3> QED
      BY <1>1, <3>1, <3>2, <3>3, Zenon DEF TypeOK
  <2>2. fresh = FALSE /\ Idle
    BY DEF Init, Idle
  <2> QED
    BY <2>1, <2>2 DEF Settling

(* The pass settles one gate more at each iteration and unsettles none: a  *)
(* gate written reads lower indices and is read by higher ones only.       *)
LEMMA SettlingPreserved == TypeOK /\ Settling /\ [Next]_vars => Settling'
<1> SUFFICES ASSUME TypeOK, Settling, [Next]_vars, OrderedGates(fsm'),
                    NEW g \in Gates(fsm'), (fresh \/ (~Idle /\ g < cursor))'
             PROVE  (values[g] = GateValue(fsm, values, g))'
  BY DEF Settling
<1>1. fsm' = fsm
  BY DEF Next, Eval, SetVariable, SetInput, EvalVariable, Overwrite, BeginEval, EvalNext,
         ClockStep, ResetState, Reset, vars
<1>2. WellFormed(fsm) /\ fsm.size \in Nat /\ cursor \in 0 .. fsm.size
      /\ g \in VarsOf(fsm) /\ g \in Nat
  BY <1>1 DEF TypeOK, WellFormed, Gates, Kind, VarsOf
<1>3. ASSUME NEW vals, Overwrite(vals) PROVE FALSE
  BY <1>1, <1>3 DEF Overwrite, Idle
<1>4. fresh' \/ (cursor' # fsm.size /\ g < cursor')
  BY <1>1 DEF Idle
<1>5. CASE BeginEval
  <2>1. fresh' => fsm.size = 0
    BY <1>5, Zenon DEF BeginEval
  <2>2. cursor' = 0
    BY <1>5 DEF BeginEval
  <2> QED
    BY <1>2, <1>4, <2>1, <2>2 DEF VarsOf
<1>6. CASE EvalNext
  <2>1. cursor \in VarsOf(fsm) /\ cursor < fsm.size
    BY <1>2, <1>6 DEF EvalNext, Idle, VarsOf
  <2>2. values' = Evaluated(cursor) /\ g <= cursor
    <3>1. fresh' => cursor + 1 = fsm.size
      BY <1>6, Zenon DEF EvalNext
    <3>2. values' = Evaluated(cursor) /\ cursor' = cursor + 1
      BY <1>6 DEF EvalNext
    <3> QED
      BY <1>2, <1>4, <2>1, <3>1, <3>2 DEF VarsOf
  <2>3. \A i \in VarsOf(fsm) : i < g => values'[i] = values[i]
    <3>1. \A i \in VarsOf(fsm) : i < g => i # cursor
      BY <1>2, <2>1, <2>2 DEF VarsOf
    <3> QED
      BY <2>1, <2>2, <3>1, EvaluatedType
  <2>4. GateValue(fsm, values', g) = GateValue(fsm, values, g)
    BY <1>1, <1>2, <2>3, GateValueLocal
  <2>5. values'[g] = GateValue(fsm, values, g)
    <3>1. CASE g = cursor
      BY <1>1, <2>1, <2>2, <3>1, EvaluatedType
    <3>2. CASE g < cursor
      <4>1. values[g] = GateValue(fsm, values, g)
        BY <1>1, <1>6, <3>2 DEF Settling, EvalNext
      <4> QED
        BY <1>2, <2>1, <2>2, <3>2, <4>1, EvaluatedType
    <3> QED
      BY <1>2, <2>2, <3>1, <3>2
  <2> QED
    BY <1>1, <2>4, <2>5
<1>7. CASE UNCHANGED vars
  BY <1>1, <1>7 DEF vars, Settling, Idle
<1> QED
  BY <1>3, <1>5, <1>6, <1>7 DEF Next, Eval, SetVariable, SetInput, EvalVariable, ClockStep,
     ResetState, Reset

(* The variables of a simulator keep their types.                          *)
THEOREM TypeCorrect == Spec => []TypeOK
<1>1. Init => TypeOK
  BY InitType
<1> QED
  BY <1>1, TypePreserved, PTL DEF Spec

(* On every ordered FSM and after any sequence of calls, one pass of eval  *)
(* leaves each gate with the value its inputs give it.                     *)
THEOREM EvalSettles == Spec => []Settling
<1>1. Init => TypeOK /\ Settling
  BY InitType
<1>2. TypeOK /\ Settling /\ [Next]_vars => (TypeOK /\ Settling)'
  BY TypePreserved, SettlingPreserved
<1> QED
  BY <1>1, <1>2, PTL DEF Spec

--------------------------------------------------------------------------------
(* The circuit names the parts of an FSM, and their meaning, as we do.      *)
LEMMA SameParts ==
  ASSUME NEW m
  PROVE  /\ C!VarsOf(m) = VarsOf(m) /\ C!Inputs(m) = Inputs(m)
         /\ C!Latches(m) = Latches(m) /\ C!Gates(m) = Gates(m) /\ C!Ternary = Ternary
BY DEF C!VarsOf, C!Inputs, C!Latches, C!Gates, C!Kind, C!Ternary,
       VarsOf, Inputs, Latches, Gates, Kind, Ternary
LEMMA SameSigned ==
  ASSUME NEW vals, NEW v, NEW t, NEW b
  PROVE  C!FlipTernary(t, b) = FlipTernary(t, b) /\ C!Signed(vals, v) = Signed(vals, v)
BY DEF C!FlipTernary, C!Signed, C!NoVar, FlipTernary, Signed, NoVar
LEMMA SameLatches ==
  ASSUME NEW m, NEW vals, NEW l
  PROVE  /\ C!LatchNext(m, vals, l) = LatchNext(m, vals, l)
         /\ C!LatchReset(m, l) = LatchReset(m, l)
BY SameSigned DEF C!LatchNext, C!LatchReset, LatchNext, LatchReset
LEMMA SameGates ==
  ASSUME NEW m, NEW vals, NEW g
  PROVE  C!GateValue(m, vals, g) = GateValue(m, vals, g)
<1> DEFINE d == m.driver[g]
<1>1. {C!Signed(vals, v) : v \in {d.a, d.b}} = {Signed(vals, v) : v \in {d.a, d.b}}
  BY SameSigned
<1>2. ASSUME NEW t, NEW S PROVE C!EvalGate(t, S) = EvalGate(t, S)
  BY SameSigned DEF C!EvalGate, EvalGate, C!Controlling, Controlling
<1> QED
  BY <1>1, <1>2, SameSigned DEF C!GateValue, GateValue, C!GateInputs, GateInputs

(* A variable has one driver.                                              *)
LEMMA KindsDisjoint ==
  ASSUME NEW m
  PROVE  /\ Inputs(m) \cap Latches(m) = {} /\ Gates(m) \cap Latches(m) = {}
         /\ Inputs(m) \cap Gates(m) = {}
         /\ Inputs(m) \subseteq VarsOf(m) /\ Latches(m) \subseteq VarsOf(m)
         /\ Gates(m) \subseteq VarsOf(m)
BY DEF Inputs, Latches, Gates, Kind

(* The discipline only leaves out calls, so the simulator's invariants hold. *)
LEMMA CycleIsSimulation == CycleNext => Next
<1> SUFFICES ASSUME CycleNext PROVE Next
  OBVIOUS
<1> QED
  BY DEF CycleNext, Next

(* The settled values of an ordered FSM are a valuation of the circuit.    *)
LEMMA SettledIsValuation ==
  ASSUME TypeOK, Settling, fresh, OrderedGates(fsm)
  PROVE  values \in C!Valuations
<1>1. values \in [VarsOf(fsm) -> Ternary]
  BY DEF TypeOK
<1>2. \A g \in Gates(fsm) : values[g] = GateValue(fsm, values, g)
  BY DEF Settling
<1> QED
  BY <1>1, <1>2, SameParts, SameGates DEF C!Valuations

(* The simulator is built in an initial state of the circuit.              *)
LEMMA InitIsReset == Init => C!Init
<1> SUFFICES ASSUME Init PROVE C!Init
  OBVIOUS
<1>1. fsm \in Machines /\ values = WithReset(fsm, Unknown(fsm))
  BY DEF Init
<1>2. \A i \in Inputs(fsm) : values[i] = "X"
  BY <1>1, KindsDisjoint DEF WithReset, Unknown
<1>3. \A l \in Latches(fsm) : values[l] = LatchReset(fsm, l)
  BY <1>1, KindsDisjoint DEF WithReset
<1>4. [i \in Inputs(fsm) |-> values[i]] = [i \in Inputs(fsm) |-> "X"]
  BY <1>2
<1>5. [l \in Latches(fsm) |-> values[l]] = [l \in Latches(fsm) |-> LatchReset(fsm, l)]
  BY <1>3
<1> QED
  BY <1>1, <1>4, <1>5, SameParts, SameLatches DEF C!Init, C!ResetOf

(* A call that changes no input and no latch is no step of the circuit.    *)
LEMMA Unseen ==
  ASSUME fsm' = fsm,
         \A i \in Inputs(fsm) \cup Latches(fsm) : values'[i] = values[i]
  PROVE  UNCHANGED C!vars
<1>1. [i \in Inputs(fsm) |-> values[i]]' = [i \in Inputs(fsm) |-> values[i]]
  OBVIOUS
<1>2. [l \in Latches(fsm) |-> values[l]]' = [l \in Latches(fsm) |-> values[l]]
  OBVIOUS
<1> QED
  BY <1>1, <1>2 DEF C!vars

(* Each call of a cycle is a step of the circuit, or none.                 *)
LEMMA StepRefines ==
  TypeOK /\ Settling /\ OrderedGates(fsm) /\ [CycleNext]_vars => [C!Next]_(C!vars)
<1> SUFFICES ASSUME TypeOK, Settling, OrderedGates(fsm), [CycleNext]_vars
             PROVE  C!Next \/ UNCHANGED C!vars
  OBVIOUS
<1>1. fsm' = fsm
  BY DEF CycleNext, Eval, SetVariable, SetInput, Overwrite, EvalVariable, BeginEval, EvalNext, ClockStep,
         ResetState, Reset, vars
<1>2. values \in [VarsOf(fsm) -> Ternary] /\ WellFormed(fsm)
  BY DEF TypeOK
<1>3. ASSUME NEW i \in VarsOf(fsm) \ Latches(fsm), NEW t \in Ternary, SetVariable(i, t)
      PROVE  C!Next \/ UNCHANGED C!vars
  <2>1. values' = [values EXCEPT ![i] = t]
    BY <1>3 DEF SetVariable, Overwrite
  <2>2. CASE i \in Inputs(fsm)
    <3>1. \A l \in Latches(fsm) : values'[l] = values[l]
      BY <1>2, <2>1, <2>2, KindsDisjoint
    <3>2. [l \in Latches(fsm) |-> values[l]]' = [l \in Latches(fsm) |-> values[l]]
      BY <1>1, <3>1
    <3>3. [j \in Inputs(fsm) |-> values[j]]'
            = [[j \in Inputs(fsm) |-> values[j]] EXCEPT ![i] = t]
      BY <1>1, <1>2, <2>1, KindsDisjoint
    <3>4. C!Drive(i, t)
      BY <1>1, <3>2, <3>3 DEF C!Drive
    <3> QED
      BY <2>2, <3>4, SameParts DEF C!Next
  <2>3. CASE i \notin Inputs(fsm)
    BY <1>1, <1>2, <2>1, <2>3, Unseen
  <2> QED
    BY <2>2, <2>3
<1>10. ASSUME NEW i \in VarsOf(fsm), NEW t \in Ternary, SetInput(i, t)
       PROVE  C!Next \/ UNCHANGED C!vars
  BY <1>3, <1>10, KindsDisjoint DEF SetInput
<1>11. ASSUME NEW i \in VarsOf(fsm), EvalVariable(i) PROVE UNCHANGED C!vars
  <2>1. values' = Evaluated(i)
    BY <1>11 DEF EvalVariable, Overwrite
  <2>2. \A j \in VarsOf(fsm) \ Gates(fsm) : values'[j] = values[j]
    BY <1>2, <2>1 DEF Evaluated
  <2> QED
    BY <1>1, <2>2, KindsDisjoint, Unseen
<1>4. CASE BeginEval
  BY <1>1, <1>4, Unseen DEF BeginEval
<1>5. CASE EvalNext
  <2>1. values' = Evaluated(cursor)
    BY <1>5 DEF EvalNext
  <2>2. \A j \in VarsOf(fsm) \ Gates(fsm) : values'[j] = values[j]
    BY <1>2, <2>1 DEF Evaluated
  <2> QED
    BY <1>1, <2>2, KindsDisjoint, Unseen
<1>6. CASE fresh /\ ClockStep
  <2>1. values' = Clocked
    BY <1>6 DEF ClockStep, Overwrite
  <2>2. \A l \in Latches(fsm) : values'[l] = LatchNext(fsm, values, l)
    BY <2>1, KindsDisjoint DEF Clocked
  <2>3. [l \in Latches(fsm) |-> values[l]]'
          = [l \in Latches(fsm) |-> LatchNext(fsm, values, l)]
    BY <1>1, <2>2
  <2>4. \A i \in Inputs(fsm) : values'[i] = values[i]
    BY <2>1, KindsDisjoint DEF Clocked
  <2>5. [i \in Inputs(fsm) |-> values[i]]' = [i \in Inputs(fsm) |-> values[i]]
    BY <1>1, <2>4
  <2>6. values \in C!Valuations
    BY <1>6, SettledIsValuation
  <2>7. C!Edge
    BY <1>1, <2>3, <2>5, <2>6, SameParts, SameLatches DEF C!Edge
  <2> QED
    BY <2>7 DEF C!Next
<1>7. CASE ResetState
  <2>1. values' = WithReset(fsm, values)
    BY <1>7 DEF ResetState, Overwrite
  <2>2. [l \in Latches(fsm) |-> values[l]]' = [l \in Latches(fsm) |-> LatchReset(fsm, l)]
    BY <1>1, <2>1, KindsDisjoint DEF WithReset
  <2>3. [i \in Inputs(fsm) |-> values[i]]' = [i \in Inputs(fsm) |-> values[i]]
    BY <1>1, <2>1, KindsDisjoint DEF WithReset
  <2>4. C!ResetLatches
    BY <1>1, <2>2, <2>3, SameParts, SameLatches DEF C!ResetLatches, C!ResetOf
  <2> QED
    BY <2>4 DEF C!Next
<1>8. CASE Reset
  <2>1. values' = Unknown(fsm)
    BY <1>8 DEF Reset, Overwrite
  <2>2. [i \in Inputs(fsm) |-> values[i]]' = [i \in Inputs(fsm) |-> "X"]
    BY <1>1, <2>1, KindsDisjoint DEF Unknown
  <2>3. [l \in Latches(fsm) |-> values[l]]' = [l \in Latches(fsm) |-> "X"]
    BY <1>1, <2>1, KindsDisjoint DEF Unknown
  <2>4. C!Forget
    BY <1>1, <2>2, <2>3, SameParts DEF C!Forget
  <2> QED
    BY <2>4 DEF C!Next
<1>9. CASE UNCHANGED vars
  BY <1>9, Unseen DEF vars
<1> QED
  BY <1>3, <1>4, <1>5, <1>6, <1>7, <1>8, <1>9, <1>10, <1>11 DEF CycleNext, Eval

--------------------------------------------------------------------------------
(* The simulator of every ordered FSM implements its circuit: latches move *)
(* together at an edge, from values that are consistent with the inputs.   *)
THEOREM SimulatorImplementsCircuit == CycleSpec => ImplementsCircuit
<1> DEFINE IInv == TypeOK /\ Settling /\ OrderedGates(fsm)
<1>1. Init => IInv
  <2> SUFFICES ASSUME Init PROVE IInv
    OBVIOUS
  <2>1. OrderedGates(fsm)
    BY OrderingAssumption DEF Init
  <2> QED
    BY <2>1, InitType
<1>2. IInv /\ [CycleNext]_vars => IInv'
  <2> SUFFICES ASSUME IInv, [CycleNext]_vars PROVE IInv'
    OBVIOUS
  <2>1. [Next]_vars
    BY CycleIsSimulation
  <2>2. fsm' = fsm
    BY DEF CycleNext, Eval, SetVariable, SetInput, Overwrite, EvalVariable, BeginEval, EvalNext, ClockStep,
           ResetState, Reset, vars
  <2>3. OrderedGates(fsm)'
    BY <2>2
  <2> QED
    BY <2>1, <2>3, TypePreserved, SettlingPreserved
<1>3. IInv /\ [CycleNext]_vars => [C!Next]_(C!vars)
  BY StepRefines
<1>4. Init => C!Init
  BY InitIsReset
<1> HIDE DEF IInv
<1> QED
  BY <1>1, <1>2, <1>3, <1>4, PTL DEF CycleSpec, ImplementsCircuit, C!Spec
================================================================================
