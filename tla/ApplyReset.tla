------------------------------- MODULE ApplyReset ------------------------------
(****************************************************************************)
(* apply_reset of circt-formal and verilator-formal: one transition of the  *)
(* three-valued simulator with reset asserted infers the initial state, and *)
(* the FSM is rebuilt with the reset input tied inactive.  The design runs  *)
(* beside it from any state its unknowns allow, first under the same reset, *)
(* then with reset inactive.  Two simulators are driven with the same       *)
(* stimulus: one runs the design, the other the FSM made of it; image says  *)
(* which value of the model stands for a variable of the design.            *)
(****************************************************************************)
EXTENDS Fsm

CONSTANTS
  Machines,  \* the FSMs a simulator may be built from
  Cases      \* [fsm, tied : the reset input, active : its asserted value]

ASSUME CasesAssumption ==
  \A c \in Cases : /\ c.fsm \in Machines /\ WellFormed(c.fsm) /\ Verify(c.fsm)
                   /\ c.tied \in Inputs(c.fsm) /\ c.active \in {"0", "1"}

VARIABLES
  design, actual, designCursor, designFresh,  \* simulator of the original
  model, known, modelCursor, modelFresh,      \* simulator of the derived FSM
  image,    \* a value of model per variable of design: mapping
  stage,    \* "assert", "infer", "run"
  tied,     \* the reset input
  active,   \* its asserted value
  assumed   \* history: the latches whose preset stands in for an unknown result

designVars == <<design, actual, designCursor, designFresh>>
modelVars == <<model, known, modelCursor, modelFresh>>
vars == <<designVars, modelVars, image, stage, tied, active, assumed>>

D == INSTANCE Simulator WITH
       fsm <- design, values <- actual, cursor <- designCursor, fresh <- designFresh
M == INSTANCE Simulator WITH
       fsm <- model, values <- known, cursor <- modelCursor, fresh <- modelFresh

(* The value the model holds for variable i of the design.                 *)
Seen(i) == Signed(known, image[i])

(* Input i gets t in the design and u in the model, which may know less.   *)
DriveInput(i, t, u) ==
  /\ D!SetInput(i, t)
  /\ M!SetInput(image[i].index, FlipTernary(u, ~image[i].sign))
  /\ UNCHANGED image

BeginEvals == D!BeginEval /\ M!BeginEval /\ UNCHANGED image
EvalDesign == D!EvalNext /\ UNCHANGED <<modelVars, image>>
EvalModel == D!Idle /\ M!EvalNext /\ UNCHANGED <<designVars, image>>
ClockBoth == designFresh /\ modelFresh /\ D!ClockStep /\ M!ClockStep /\ UNCHANGED image

Evals == BeginEvals \/ EvalDesign \/ EvalModel
Quiet == D!Idle /\ M!Idle

(* A simulator is built from the derived FSM.                              *)
StartModel(m) ==
  /\ model' = m
  /\ known' = M!WithReset(m, M!Unknown(m))
  /\ modelCursor' = m.size
  /\ modelFresh' = FALSE

--------------------------------------------------------------------------------
Resolutions(m, vals) ==
  {w \in [VarsOf(m) -> {"0", "1"}] : \A i \in VarsOf(m) : vals[i] # "X" => w[i] = vals[i]}

(* The FSM to convert, in the simulator, and one concrete state of it.     *)
Init ==
  \E c \in Cases :
    /\ tied = c.tied /\ active = c.active
    /\ design = c.fsm /\ model = c.fsm
    /\ known = M!WithReset(model, M!Unknown(model))
    /\ actual \in {w \in Resolutions(design, known) :
                     \A i \in VarsOf(design) \ (Inputs(design) \cup Latches(design)) : w[i] = "0"}
    /\ designCursor = design.size /\ modelCursor = model.size
    /\ designFresh = FALSE /\ modelFresh = FALSE
    /\ image = [i \in VarsOf(design) |-> Lit(i, TRUE)]
    /\ stage = "assert" /\ assumed = {}

AssertReset ==
  /\ stage = "assert"
  /\ D!SetInput(tied, active) /\ M!SetInput(tied, active)
  /\ stage' = "infer"
  /\ UNCHANGED <<image, tied, active, assumed>>

Eval ==
  /\ stage # "assert" /\ Evals
  /\ UNCHANGED <<stage, tied, active, assumed>>

--------------------------------------------------------------------------------
(* get_variable_signed(latch.output).or(latch.reset_value)                 *)
Inferred(vals, l) == LET v == Signed(vals, Lit(l, design.driver[l].sign))
                     IN IF v = "X" THEN design.driver[l].reset ELSE v

(****************************************************************************)
(* rebuild_with_tied_input: inputs, latches and gates in this order, each   *)
(* in the order of its indices.                                             *)
(****************************************************************************)
FreeInputs == Inputs(design) \ {tied}
Place(i) == Grouped(FreeInputs, Latches(design), Gates(design), i)
\* Mutant: tied to the wrong polarity.
InactiveIsActive == Const(active = "1")

Inactive == Const(active = "0")
Kept == FreeInputs \cup Latches(design) \cup Gates(design)
Mapping == [i \in VarsOf(design) |-> IF i = tied THEN Inactive
                                     ELSE IF i \in Kept THEN Lit(Place(i), TRUE)
                                     ELSE Const(FALSE)]

(* mapping as it stands when gate g is rebuilt: later gates are not in it. *)
MappingBefore(g) == [i \in VarsOf(design) |->
                       IF i \in Gates(design) /\ i >= g THEN Const(FALSE) ELSE Mapping[i]]

\* Mutant: a value is not remapped.
RemapValueNot(v, mapping) == v

RemapValue(v, mapping) == IF v.index = NoVar THEN v ELSE Xor(mapping[v.index], ~v.sign)

RebuiltDriver(vals, i) ==
  LET d == design.driver[i]
  IN CASE i \in Gates(design) ->
            GateDriver(d.sign, d.type, RemapValue(d.a, MappingBefore(i)),
                       RemapValue(d.b, MappingBefore(i)))
       [] i \in Latches(design) ->
            LatchDriver(d.sign, RemapValue(d.input, Mapping), Inferred(vals, i))
       [] OTHER -> InputDriver

RebuiltWith(vals) ==
  LET n == Cardinality(Kept)
      old == [k \in 0 .. n - 1 |-> CHOOSE i \in Kept : Place(i) = k]
  IN [size |-> n,
      driver |-> [k \in 0 .. n - 1 |-> RebuiltDriver(vals, old[k])],
      label |-> [k \in 0 .. n - 1 |-> design.label[old[k]]],
      refs |-> [list \in Lists |-> [k \in DOMAIN design.refs[list] |->
                                      RemapValue(design.refs[list][k], Mapping)]]]

(* The edge under reset, then the rebuild from what the simulator knows.   *)
Rebuild ==
  /\ stage = "infer"
  /\ designFresh /\ modelFresh
  /\ StartModel(RebuiltWith(M!Clocked))
  /\ image' = Mapping
  /\ assumed' = {l \in Latches(design) : /\ Signed(M!Clocked, Lit(l, TRUE)) = "X"
                                         /\ design.driver[l].reset # "X"}
  /\ actual' = [D!Clocked EXCEPT ![tied] = FlipTernary(active, TRUE)]
  /\ designFresh' = FALSE
  /\ stage' = "run"
  /\ UNCHANGED <<design, designCursor, tied, active>>

(* The model checker drives an input or leaves it unknown; the design has  *)
(* one value or the other.                                                 *)
Drive(i, t, u) ==
  /\ stage = "run" /\ i \in FreeInputs
  /\ u \in {t, "X"}
  /\ DriveInput(i, t, u)
  /\ UNCHANGED <<stage, tied, active, assumed>>

Clock ==
  /\ stage = "run" /\ ClockBoth
  /\ UNCHANGED <<stage, tied, active, assumed>>

Next ==
  \/ AssertReset \/ Eval \/ Rebuild \/ Clock
  \/ \E i \in VarsOf(design), t \in {"0", "1"}, u \in Ternary : Drive(i, t, u)
Spec == Init /\ [][Next]_vars

--------------------------------------------------------------------------------
(* What the model knows is so in every run of the design with the same     *)
(* inputs: an unknown never turns into a wrong 0 or 1, neither in the       *)
(* transition that infers the initial state nor, unless a preset stood in   *)
(* for an unknown result, in any later cycle of the rebuilt FSM.            *)
Agrees(i) == Seen(i) # "X" => actual[i] = Seen(i)
ModelCoversDesign ==
  stage # "assert" /\ Quiet /\ assumed = {} =>
    /\ \A l \in Latches(design) : Agrees(l)
    /\ designFresh /\ modelFresh =>
         /\ \A i \in Driven(design) : Agrees(i)
         /\ \A list \in Lists : \A k \in DOMAIN design.refs[list] :
              Signed(known, model.refs[list][k]) \in {"X", Signed(actual, design.refs[list][k])}

(* The rebuilt FSM verifies, ordering included, as circt-formal asserts at  *)
(* the end of apply_reset and verilator-formal after it.                    *)
RebuiltVerifies == stage = "run" => Verify(model)
================================================================================
