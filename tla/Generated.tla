------------------------------- MODULE Generated -------------------------------
(****************************************************************************)
(* The Model that simulator-rust generates for a design: eval and tick, and *)
(* the loop that settles combinational blocks which have no order.  One     *)
(* action per call, per pass of the loop and per clock edge.                *)
(****************************************************************************)
EXTENDS Emitted

CONSTANT Designs  \* the designs a simulator is generated for

VARIABLES
  design,      \* self.design
  info,        \* the combinational blocks in their order
  values,      \* self.values of the Model
  inputs,      \* the Inputs of the call
  env,         \* env of the call
  phase,       \* where the call is
  passes,      \* passes of the settling loop left
  evaluation   \* the Evaluation the last call returned

modelVars == <<design, info, values, inputs, env, phase, passes, evaluation>>

Settling == {"settle to report", "settle to edge"}
Pass(e) == RunPhase(info.blocks, e).env
ApplyInputs(e) == [v \in DOMAIN e |-> IF v \in design.inputs THEN inputs'[v] ELSE e[v]]

\* Mutant: the loop makes a single pass.
VariableCountNone(d) == 0

(* The code counts the clock, which has no value here.                     *)
VariableCount(d) == Cardinality(Vars(d)) + 1

(* Model::new of an accepted design.                                       *)
NoEvaluation == Evaluation(<<>>, <<>>)
ModelInit ==
  /\ design \in {d \in Designs : Accepted(d)}
  /\ info = OrderCombinational(design)
  /\ values = Started(design)
  /\ inputs = [v \in design.inputs |-> Zero(design.width[v])]
  /\ env = values
  /\ phase = "idle"
  /\ passes = 0
  /\ evaluation = NoEvaluation

(* run_combinational begins; then the call goes on.                        *)
Settle(then) ==
  /\ passes' = IF info.loop THEN VariableCount(design) + 1 ELSE 1
  /\ phase' = then

(* A call starts with the inputs applied to a copy of self.values.         *)
Call(then) ==
  /\ phase = "idle"
  /\ inputs' \in Valuations(design, design.inputs)
  /\ env' = ApplyInputs(values)
  /\ Settle(then)
  /\ UNCHANGED <<design, info, values, evaluation>>
EvalModel == Call("settle to report")
Tick == Call("settle to edge")

(* One pass over the blocks.  In order, one is enough; without an order    *)
(* they are passed until one pass changes nothing or none is left.         *)
SettlePass ==
  /\ phase \in Settling
  /\ env' = Pass(env)
  /\ passes' = passes - 1
  /\ phase' = CASE ~info.loop \/ env' = env ->
                     IF phase = "settle to edge" THEN "edge" ELSE "report"
               [] info.loop /\ env' # env -> IF passes' = 0 THEN "unsettled" ELSE phase
  /\ UNCHANGED <<design, info, values, inputs, evaluation>>

(* The edge: sampled values, the clocked processes, and self.eval.         *)
Edge ==
  /\ phase = "edge"
  /\ values' = RunSequential(design, CaptureSampled(design, env))
  /\ UNCHANGED inputs
  /\ env' = ApplyInputs(values')
  /\ Settle("settle to report")
  /\ UNCHANGED <<design, info, evaluation>>

Report ==
  /\ phase = "report"
  /\ env' = CaptureSampled(design, env)
  /\ evaluation' = MakeEvaluation(design, env')
  /\ phase' = "idle"
  /\ UNCHANGED <<design, info, values, inputs, passes>>

(* The panic of run_combinational.                                         *)
Unsettled == phase = "unsettled" /\ UNCHANGED modelVars
================================================================================
