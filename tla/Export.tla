--------------------------------- MODULE Export --------------------------------
(****************************************************************************)
(* export::prepare of circt-formal (main of verilator-formal does the same *)
(* in place): property selection, zero initialisation, normalize_outputs,   *)
(* reorder_gates and verify.  What is exported is then simulated, and seen  *)
(* through the passes' renumbering it must be the circuit that was given.   *)
(****************************************************************************)
EXTENDS Reorder

CONSTANT Options  \* the ExportOptions prepare may be called with

ASSUME OptionsAssumption ==
  Options \subseteq [zeroInit : BOOLEAN, assertion : Nat, cover : Nat]

VARIABLES
  stage,    \* "prepare", "reorder", "run", "failed", "panicked"
  options,  \* ExportOptions
  values, cursor, fresh,  \* the simulator of the exported FSM
  design,   \* history: the FSM to export, with the resets asked for
  image     \* history: the value of the exported FSM that stands for a variable of design

S == INSTANCE Simulator
A == INSTANCE Aiger WITH Radix <- 128

reorderVars == <<pc, walkVars, moved, given>>
simVars == <<values, cursor, fresh>>
exportVars == <<stage, options, fsm, reorderVars, simVars, design, image>>

(* No selection: properties are counted from 1.                            *)
None == 0
ZeroInit(d, asked) == IF asked /\ d.kind = "latch" THEN [d EXCEPT !.reset = "0"] ELSE d
Asked(m, o) == [m EXCEPT !.driver = [i \in VarsOf(m) |-> ZeroInit(m.driver[i], o.zeroInit)]]

ExportInit ==
  /\ Init
  /\ stage = "prepare"
  /\ options \in Options
  /\ design = Asked(fsm, options)
  /\ values = S!Unknown(fsm) /\ cursor = fsm.size /\ fresh = FALSE
  /\ image = [i \in VarsOf(fsm) |-> Lit(i, TRUE)]

(* At most one property is selected, and it exists.                        *)
Selectable(m, o) ==
  /\ o.assertion = None \/ o.cover = None
  /\ o.assertion <= Len(m.refs["asserts"])
  /\ o.cover <= Len(m.refs["covers"])

(* A cover is exported as the assertion that it never holds.               *)
Selected(m, o, list) ==
  CASE list = "covers" -> <<>>
    [] list = "asserts" /\ o.assertion # None -> <<m.refs[list][o.assertion]>>
    [] list = "asserts" /\ o.cover # None -> <<Xor(m.refs["covers"][o.cover], TRUE)>>
    [] OTHER -> m.refs[list]
Chosen(m, o) == [m EXCEPT !.refs = [list \in Lists |-> Selected(m, o, list)]]

(****************************************************************************)
(* normalize_outputs: latches and AND gates become positive, OR gates       *)
(* negative, and every use of a flipped variable is inverted.               *)
(****************************************************************************)
Flipped(m) == {l \in Latches(m) : ~m.driver[l].sign} \cup
              {g \in Gates(m) : m.driver[g].sign = (m.driver[g].type = "Or")}
\* Mutant: uses are not inverted.
FlipNothing(m, v) == v

Flip(m, v) == IF v.index \in Flipped(m) THEN Xor(v, TRUE) ELSE v
\* Mutant: the reset value is flipped too.
NormalizedWithReset(m, d) ==
  CASE d.kind = "gate" -> GateDriver(d.type = "And", d.type, Flip(m, d.a), Flip(m, d.b))
    [] d.kind = "latch" -> LatchDriver(TRUE, Flip(m, d.input), FlipTernary(d.reset, ~d.sign))
    [] OTHER -> d

\* Mutant: OR gates are made positive.
NormalizedPositive(m, d) ==
  CASE d.kind = "gate" -> GateDriver(TRUE, d.type, Flip(m, d.a), Flip(m, d.b))
    [] d.kind = "latch" -> LatchDriver(TRUE, Flip(m, d.input), d.reset)
    [] OTHER -> d

NormalizedDriver(m, d) ==
  CASE d.kind = "gate" -> GateDriver(d.type = "And", d.type, Flip(m, d.a), Flip(m, d.b))
    [] d.kind = "latch" -> LatchDriver(TRUE, Flip(m, d.input), d.reset)
    [] OTHER -> d

NormalizedOutputs(m) ==
  [m EXCEPT !.driver = [i \in VarsOf(m) |-> NormalizedDriver(m, m.driver[i])],
            !.refs = [list \in Lists |-> [k \in DOMAIN m.refs[list] |-> Flip(m, m.refs[list][k])]]]

(* Selection, resets and normalize_outputs, up to the call of reorder_gates. *)
Prepare ==
  /\ stage = "prepare"
  /\ Selectable(fsm, options)
  /\ stage' = "reorder"
  /\ fsm' = NormalizedOutputs(Chosen(Asked(fsm, options), options))
  /\ given' = fsm'
  /\ image' = [i \in VarsOf(fsm) |-> Lit(i, i \notin Flipped(fsm))]
  /\ UNCHANGED <<options, pc, walkVars, moved, simVars, design>>

RefuseSelection ==
  /\ stage = "prepare"
  /\ ~Selectable(fsm, options)
  /\ stage' = "failed"
  /\ UNCHANGED <<options, fsm, reorderVars, simVars, design, image>>

ReorderGates == stage = "reorder" /\ Step /\ UNCHANGED <<stage, options, simVars, design, image>>

(* verify passes; a simulator is built from what is exported.              *)
Start ==
  /\ stage = "reorder" /\ pc = "done"
  /\ Verify(fsm)
  /\ stage' = "run"
  /\ values' = S!WithReset(fsm, S!Unknown(fsm))
  /\ image' = [i \in VarsOf(fsm) |-> Lit(moved[i], image[i].sign)]
  /\ UNCHANGED <<options, fsm, reorderVars, cursor, fresh, design>>

(* verify or an assertion of reorder_gates panics.                         *)
Panic ==
  /\ stage = "reorder"
  /\ pc \in Ended
  /\ pc = "done" => ~Verify(fsm)
  /\ stage' = "panicked"
  /\ UNCHANGED <<options, fsm, reorderVars, simVars, design, image>>

Run ==
  /\ stage = "run"
  /\ \/ \E i \in VarsOf(fsm), t \in Ternary : S!SetInput(i, t)
     \/ S!Eval
     \/ fresh /\ S!ClockStep
  /\ UNCHANGED <<stage, options, reorderVars, design, image>>

Returned == stage \in {"failed", "panicked"} /\ UNCHANGED exportVars

ExportNext ==
  Prepare \/ RefuseSelection \/ ReorderGates \/ Start \/ Panic \/ Run \/ Returned
ExportSpec == ExportInit /\ [][ExportNext]_exportVars

--------------------------------------------------------------------------------
(* What the exported FSM says of a variable of the design.                 *)
Seen == [i \in VarsOf(design) |-> IF i \in Driven(design) THEN Signed(values, image[i]) ELSE "X"]

(* After the passes each gate of the design, found through the renumbering *)
(* and the flips, has the value its inputs give it, and the exported lists *)
(* say of the design what its own lists say: outputs and assumptions in    *)
(* order, the selected assertion, or the selected cover inverted.          *)
Meaning(list) == [k \in DOMAIN design.refs[list] |-> Signed(Seen, design.refs[list][k])]
Wanted(list) ==
  IF list # "asserts" THEN Meaning(list)
  ELSE IF options.cover # None THEN <<FlipTernary(Meaning("covers")[options.cover], TRUE)>>
  ELSE IF options.assertion # None THEN <<Meaning(list)[options.assertion]>>
  ELSE Meaning(list)
ExportedMeansDesign ==
  stage = "run" /\ fresh =>
    /\ \A g \in Gates(design) : Seen[g] = GateValue(design, Seen, g)
    /\ \A list \in Lists \ {"covers"} :
         [k \in DOMAIN fsm.refs[list] |-> Signed(values, fsm.refs[list][k])] = Wanted(list)

(* The cycles of the exported FSM are cycles of the circuit that was given, *)
(* from its reset on: the exported inputs and latches are the design's.     *)
C == INSTANCE Circuit WITH
       fsm <- design,
       inputs <- [i \in Inputs(design) |-> IF stage = "run" THEN Seen[i] ELSE "X"],
       state <- [l \in Latches(design) |-> IF stage = "run" THEN Seen[l]
                                           ELSE LatchReset(design, l)],
       Machines <- {Asked(m, o) : m \in Machines, o \in Options}
ImplementsDesign == C!Spec

(* No writer panics on what prepare returns: not the ASCII one, and not the *)
(* assertions of the binary one when the design lists inputs, latches and   *)
(* gates in this order, as both converters create them.                    *)
Layout(m) == A!Compact([m EXCEPT !.driver = [i \in VarsOf(m) |->
                          IF i \in Latches(m) THEN [m.driver[i] EXCEPT !.sign = TRUE]
                          ELSE m.driver[i]]])
PreparedIsWritable ==
  stage = "run" => /\ A!Writable(fsm, "aag", "1.9")
                   /\ Layout(design) => A!Writable(fsm, "aig", "1.9")

(* Preparation never panics on an acyclic design whose gates come last.    *)
PanicJustified ==
  stage = "panicked" => Cyclic(design) \/ ~GatesLast(design)
================================================================================
