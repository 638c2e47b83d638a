-------------------------------- MODULE Backends --------------------------------
(****************************************************************************)
(* One design in both backends: the generated Model, and the FSM of the     *)
(* conversion, clocked at the Model's edges with the Model's inputs.        *)
(****************************************************************************)
EXTENDS Generated, Lowering

VARIABLE latches   \* the registers of the FSM

vars == <<modelVars, latches>>

(* Inputs of the FSM; an undriven variable is free there, and the Model's  *)
(* value is one it can take.                                               *)
FormalInputs == [v \in FreeInputs(design) |-> IF v \in design.inputs THEN inputs[v] ELSE values[v]]
Formal == Lowered(design, latches, FormalInputs)

(* A register that has no initial value in the FSM may have the Model's.   *)
Init ==
  /\ ModelInit
  /\ latches = [v \in FormalRegisters(design) |->
                   IF v \in design.history THEN Zero(design.width[v]) ELSE values[v]]

ClockEdge == Edge /\ latches' = Formal.next
Unclocked == (EvalModel \/ Tick \/ SettlePass \/ Report \/ Unsettled) /\ UNCHANGED latches
Next == ClockEdge \/ Unclocked
Spec == Init /\ [][Next]_vars

--------------------------------------------------------------------------------
(* Every value keeps its width, also when a part outside of its variable   *)
(* is assigned.                                                            *)
TypeOK ==
  /\ TypedOn(design, Vars(design), values) /\ TypedOn(design, Vars(design), env)
  /\ TypedOn(design, design.inputs, inputs)
  /\ passes \in 0 .. VariableCount(design) + 1
  /\ phase \in Settling \cup {"idle", "edge", "report", "unsettled"}
  /\ evaluation = NoEvaluation \/ TypedOn(design, design.outputs, evaluation.outputs)
  /\ TypedOn(design, FormalRegisters(design), latches)

(* The conversion refuses an accepted design only if its combinational     *)
(* blocks have no order, or for an initial block that does more than zero  *)
(* the history registers: a clocked process never reads what has no value, *)
(* whichever variables the analysis made registers, and the two ways of    *)
(* ordering the blocks agree there is one.                                 *)
RefusedOnlyUnordered == Formal.ok \/ info.loop \/ ~OnlyHistoryInitialized(design)

(* The registers of the FSM hold what the Model holds, over any sequence   *)
(* of calls: the variables that neither analysis nor conversion keeps have *)
(* no influence on the next edge.                                          *)
RegistersAgree ==
  Formal.ok => \A v \in Registers(design) : latches[v] = values[v]

(* What a call returned is what the FSM shows for the same inputs, its     *)
(* assertions, assumptions and covers included.                            *)
AsShown(formal) == formal.ok => evaluation = Evaluation(formal.outputs, formal.properties)
OutputsAgree == phase = "idle" /\ evaluation # NoEvaluation => AsShown(Formal)

(* When the loop or the one pass has ended, another pass changes nothing:  *)
(* the edge and the outputs see settled logic.                             *)
Settled == phase \in {"edge", "report"} => Pass(env) = env

(* run_combinational panics with "combinational logic did not reach a      *)
(* fixed point" only if there is none to reach (where no vector has more   *)
(* bits than the loop has passes).                                         *)
PanicMeansNoFixedPoint ==
  phase = "unsettled" =>
    ~\E e \in Valuations(design, WritesOfAll(design.combinational)) : Pass(e @@ env) = e @@ env
================================================================================
