# A verification project for verilator-extensions

TLA+ modules, TLC configurations and TLAPS proofs for the conversions of this
repository: SystemVerilog, by way of Verilator's JSON or CIRCT's IR, becomes a
bit-level state machine (`formal-utils`), which is renumbered, normalised,
simulated and written as AIGER.

Run from this directory: `tlc -config X.cfg M` for a run of PROJECT.json,
`tlapm M.tla` for a module of proofs.

## 1. The system

All of it is single-threaded, in memory and batch. What makes it hard is not
concurrency between threads but *order*: of gates, of renumberings, of the
statements of a clock edge, of the calls on a simulator.

| component | state | operations | depends on |
|---|---|---|---|
| FSM data (`fsm.rs`, `gate.rs`, `value.rs`, `variable.rs`) | vector of variables, each with driver and label; four lists of values | `add_*`, `remove_*`, sorted gate inputs | - |
| Gate reordering (`fsm/reorder.rs`) | work queue, visit states, mapping, counter `blocked` | `reorder_gates_with`, callback `on_remap` | FSM |
| Normalisation (`fsm/normalize.rs`) | the FSM, in place | `normalize_outputs`, `normalize_ordering` | reordering |
| Verification (`fsm/verify.rs`) | none | `verify` | FSM |
| Simulator (`sim.rs`, `option_bit_vec.rs`) | one of 0, 1, unknown per variable | `set_*`, `eval`, `step`, `reset`, `reset_state` | FSM, ordered |
| AIGER formats (`formats/aiger*.rs`) | file | writers and readers, ASCII and binary | `verify` |
| Bit-vector operators (`ops.rs`) | none: appends gates | adder, comparator, shifter, divider | FSM |
| Reset application (`apply_reset` in both converters) | simulator, rebuilt FSM, mapping | infer initial state, tie the reset input | simulator |
| Export (`circt-formal/src/export.rs`, `verilator-formal/src/main.rs`) | copy of the FSM | `prepare` | normalisation, reordering, `verify` |
| CIRCT graph and lowering (`circt-formal`) | expanded hierarchy; FSM and names | instance expansion, clock tracing, lowering | FSM, `ops` |
| Verilator lowering (`verilator-formal/src/convert.rs`) | environment of symbolic values, pending writes, path condition | `execute`, `execute_combinational`, `merge_environments` | sequential analysis, `ops` |
| Sequential analysis (`verilator-parser/src/ast/sequential.rs`) | sets of variables | classification of assignments, refusals | AST |
| Rust simulator generator and runtime (`simulator-rust`) | generated `eval`/`tick` with pending copies; `Bits` | statement order, fixed-point loop, arithmetic | sequential analysis |
| Parsers, writers, command lines | text | parse, print | - |

How they interact: a converter appends gates and latches to an FSM while it
walks a design, keeps tables from names to FSM values, then calls `reorder_gates_with`
and repairs the tables through `on_remap`. `apply_reset` runs the simulator on
the result for one transition and builds a second FSM from what the simulator
knows. An exporter selects properties, flips signs, reorders, verifies, writes.
Each stage relies on what the stage before leaves (order, no undriven reference,
signs), and none states it in its types: the properties below do.

What makes each part correct, and what is hard about it:

- *Reordering*: one-to-one, above inputs and latches, topological, names follow;
  panics exactly on cyclic gates; ends. Hard: the counter `blocked` is the only
  protection from an endless loop, and must not reach the queue length while
  holes and non-gates are still queued.
- *Normalisation*: two renumberings compose; signs are flipped at the definition
  and at each use, exactly once.
- *Simulator*: one pass in index order must settle all gates; latches move together.
- *AIGER*: what is read is what was written; the writers' preconditions are those
  the exporter establishes.
- *Reset application*: an unknown never becomes a wrong definite value.
- *Bit-vector operators*: amounts, indices and divisors at and beyond the width; what
  the code does where an operation has no result.
- *CIRCT graph and lowering*: parity of clock inversions through hierarchy; combinational
  cycles refused, those through registers not; values used before they are defined;
  named instance inputs.
- *Verilator lowering and Rust generator*: order of blocking and non-blocking
  writes over parts of vectors, branches on copies of the state, sampled values,
  the same edge in two implementations.

PROJECT.json lists every component and every hazard at its line.

## 2. The modules

| module | extends | models |
|---|---|---|
| `Fsm` | - | data of `formal-utils`: values, drivers, FSM, `verify`, three-valued gate semantics. No state. |
| `Reorder` | `Fsm` | `reorder_gates_with`, one action per iteration of its loop |
| `Normalize` | `Reorder` | `normalize_ordering`: grouping, then the actions of `Reorder`; or `reorder_gates` alone |
| `Simulator` | `Fsm` | `Simulator`, one action per method, `eval` one variable per step |
| `Circuit` | `Fsm` | abstract: the synchronous circuit an FSM means |
| `Cycle` | `Simulator` | the simulator under the discipline of its users; implements `Circuit` |
| `ApplyReset` | `Fsm`; two instances of `Simulator` | `apply_reset` of both converters: an FSM and the one made of it under the same stimulus |
| `Aiger` | `Fsm` | the formats: header, literals, delta encoding, assertions, reader rules |
| `AigerFile` | `Aiger` | write, permute gate lines, read |
| `Export` | `Reorder`; instances of `Simulator`, `Aiger`, `Circuit` | `prepare`, then a simulation of what it returns |
| `Ops` | `Fsm` | the gate builders of `ops.rs`. No state. |
| `ExpressionGates` | `Ops` | expressions and assignment targets of `verilator-formal`, as gates |
| `CombGates` | `Ops` | operations of the `comb` and `hw` dialects in `circt-formal`, as gates |
| `Runtime` | - | `Bits` of the simulator runtime, with its panics, and the same expressions as calls of it that `simulator-rust` generates |
| `Arithmetic` | - | abstract: what the operators are for, in integers |
| `Operators` | the gates and the calls | words built a node at a time; compared with `Arithmetic` |
| `Catalog` | - | a file of CIRCT modules: types, scopes, symbols, the choice of the top. No state. |
| `Graph` | `Catalog` | `Graph::build`: expansion and validation, one action per call, operation and visit |
| `Netlist` | `Catalog`, `Arithmetic` | abstract: what a hierarchy means, never flattened |
| `CirctLowering` | `Graph`, `CombGates` | `Converter::convert` of `circt-formal` up to `apply_reset` |
| `Circt` | `CirctLowering`, `Netlist` | build, lower, then run the FSM beside the `Netlist` |
| `Rtl` | - | the typed AST of `verilator-parser`: expressions, targets, statements, `collect_accesses`, property wires. No state. |
| `Sequential` | `Rtl` | `sequential::analyze`: what is refused, what is a register |
| `Emitted` | `Sequential` | the functions the generator emits: order of combinational blocks, phases, evaluation |
| `Generated` | `Emitted` | the generated `Model`: `new`, `eval`, `tick`, one action per call, pass and edge |
| `Lowering` | `Sequential` | `convert` of `verilator-formal`, on concrete values |
| `Backends` | `Generated`, `Lowering` | both backends on one design, edge by edge |
| `Schedule` | `Emitted` | abstract: a clock edge of SystemVerilog, processes interleaved |
| `FsmProofs` | `Fsm` | lemmas about drivers, gates and numberings that the other proofs share |
| `SimulatorProofs`, `GraphProofs`, `ApplyResetProofs` | their module, most of them `FsmProofs` | theorems |
| `ReorderProofs` | `Normalize`, `Export`, `FsmProofs` | theorems about the three that renumber variables |
| `AigerProofs` | `AigerFile`, `FsmProofs` | theorems |
| `OpsProofs` | `Ops`, `CombGates`, `Runtime`, `FsmProofs` | theorems about the builders of `ops.rs` and the `comb` and `hw` operations on top of them, for every width |
| `OperatorsProofs` | `Operators`, `OpsProofs` | theorems about the expressions and targets of `verilator-formal`, for every width, and about `Operators` |
| `MC*`, `Programs` | their module | constants for TLC |

Correspondence. An FSM is a record `[size, driver, label, refs]`: `driver[i]` is
the driver of variable `i`, counted from 0 as in the code; `refs` holds the four
lists. A signed variable or a constant is one record `[index, sign]`, index `NoVar`
for a constant. `Option<bool>` is `"0"`, `"1"` or `"X"`. Gates are binary, as
`Gate` is.

- `Reorder`: `pc` says where the call is: before `verify_gates_last`, in the loop,
  returned (`done`), or panicked in the layout assertion (`misplaced`) or the cycle
  assertion (`cyclic`). `queue`, `mapping`, `nextGate`, `blocked` are the locals,
  `assigned` the indices with visit state `Assigned`, `moved` the table of the
  caller's callback (`reorder_model`). `Skip`, `Defer`, `Assign` are the three ways
  through an iteration. The rebuild reads nothing it writes, so it is one step.
- `Simulator`: `cursor` is the loop variable of `eval`; `fresh` remembers that
  nothing changed since `eval` returned. `Cycle` keeps those calls that the tests of
  the converters make, and steps only when `fresh`.
- `ApplyReset`: `design`/`actual` is a concrete run of the FSM before reset
  application from any state its unknowns allow; `model`/`known` is the three-valued
  simulator, first of the same FSM, after `Rebuild` of the rebuilt one. `image` is
  `mapping`. `rebuild_with_tied_input` and its Verilator twin build the same FSM; a
  gate is rebuilt with `MappingBefore`, the table as it then stands.
- `Aiger`: a file is its header, its lines (each a sequence of numbers) and its
  bytes. `Radix` is the size of a delta-encoding group: 128 in the code, 2 in the
  run, so that differences of one, two and three groups occur in small FSMs.
- `Export`: `prepare` on a copy and in place are the same to the FSM it returns.
  `zero_init`, property selection and `normalize_outputs` are one action as nothing
  can come between them; `reorder_gates` is `Reorder`, whose actions are steps of `ExportSpec`.

- The clock edge: values are bits, an expression is one operator on variables, a
  part of a variable is one bit at a constant or variable offset (`lane` and
  `stride` make it a bit lane of a memory). That is what order can depend on; what
  the operators compute is left to the plan. `design` never changes. In
  `Generated`, `env` is the local of the call, `values` the field of the `Model`,
  `info` what the generator fixed (the order of the blocks and whether there is a
  loop), `phase` the place in `eval` or `tick`. `Lowered` is the function that the
  FSM computes: the code executes the statements once on symbolic values, which then
  mean this for every register and input. Both branches of an `if` are executed, as in
  the code, since either may be refused. `latches` is the state of the FSM.
- `Schedule` is not in the repository: README.md:212-228 claims that both backends
  implement the language's rule, and this is the rule. `todo` is what is left of each
  process, `queue` the non-blocking assignments, `Fire` a combinational block that is
  evaluated again at any time while processes run.
- Properties of the Verilator path: Verilator makes a wire of each; `properties` lists
  the wires with their kinds, in the order of the variables. `history` are the
  registers that Verilator makes for `$past` and its kin, the only ones whose FSM latches
  have an initial value.
- `Ops` and the modules over it: the variables of an FSM under construction are a sequence
  of drivers; a word is a sequence of values with bit 0 first; a builder returns the longer sequence
  and the word it made. `Operators` keeps with each word what it must mean under each
  assignment to the inputs, and what the calls of the simulator make of it.
- `Graph`: a call of `expand` is a frame of the stack `frames`, and a call of `visit` an
  entry of the stack of the walk, so that recursion is visible and its end a liveness property.
  The loop that gives results their nodes takes a step for each operation (`Declare`).
  Nodes are numbered as in the code. Names of values are a path of instances and a position in the
  text (operation and result); the code makes them unique by suffixes.
- `Netlist`: a net is an SSA value of an instance. Its value is computed through ports,
  instances and operations of the text and shares no definition with `Graph`.
- `Circt`: the hierarchy has a clock input that toggles and each register loads when its
  *own* clock net rises. The FSM has no clock; it steps at the toggle to the selected level. A
  register is found in the FSM only by the labels of its latches. `Choose` is the
  freedom of an operation without a result (division by zero, an index outside an array).

A definition marked `\* Mutant:` is not part of the model. It is a plausible
mistake in the definition after it, kept beside it to show that the property
named in PROJECT.json notices it.

## 3. What the runs check

| run | question | instance |
|---|---|---|
| `normalize` | Is the numbering of `reorder_gates`, called alone, topological and one-to-one, is the result verified, do names follow, is a valid prefix untouched, is the cycle panic justified, does every call end? Do two renumberings compose into an isomorphism with the layout the binary format needs? | every wiring of up to three gates, or of four buffers, in fourteen layouts with inputs, latches, gates and holes in many orders; 45,075 states |
| `cycle` | Does one pass of `eval` settle whatever earlier calls left, and is the simulator a synchronous circuit? | swapping latches, a shift chain with mixed signs, a toggle; inputs set, any other variable but a latch forced, in any order; 3,152 states |
| `apply_reset` | Is everything the rebuilt FSM knows true in the design after one cycle of reset? | four cases of three designs and both reset polarities, all concrete start states, inputs driven or unknown |
| `aiger_file` | Is reading the inverse of writing, and when do writer and reader panic? | all operand pairs and gate types, all choices of lists and resets, six layouts, both formats and versions, gate lines permuted |
| `operators` | Do gates and simulator calls compute what the operators are for? When does the simulator panic? | 117 words to build on: widths one to four, constants, the same and the complementary variable; every operator, select, array access and assignment path of both front ends, every value of every input; 21,791 states |
| `circt` | Is each verdict on a hierarchy justified, does each build end, and does the FSM follow the hierarchy at both clock levels? | 63 conversions: clocks inverted, gated, constant or used as data; loops with and without a register; modules shared, recursive, hidden, external; each operation; one file per refusal; 3,381 states |
| `backends` | Do the FSM and the generated Rust simulator of one design hold the same registers and show the same outputs, assertions, assumptions and covers? Is an accepted design converted unless its blocks have no order or its initial blocks are not just history? Is logic settled at the edge, and does the settling loop panic only where nothing settles? | the accepted designs (804) among: every pair of 15 statements in one process or two, bit lanes of a memory at variable addresses in two processes, combinational blocks in order, out of order, on the parts of one vector, and oscillating with an input, properties with a history register, initial blocks; all inputs, any number of calls |
| `schedule` | Do all interleavings of the processes end like `run_sequential`? | the same statements, two or three in two processes, and pairs of bit lanes, from every value of registers and inputs |
| `export` | Is the simulation of the exported FSM the given circuit with the selected property? | six designs (unordered, holes, cyclic, misplaced, gate-less), six option sets |

Why these bounds. Reordering: to delay a gate, to wait behind holes and to close
a cycle away from the queue's head takes three gates, and the theorems below hold
for every size. Simulator: swapping latches
need two latches, and a gate behind a gate shows the order of the pass; again
the theorem is general. Operators: three bits have a carry that is neither first nor
last, a sign, a shift amount that names too many places and a divisor that leaves a rest; four
give arrays of two elements of two bits, and an offset wider than needed. Nodes of nodes add only
the widths. CIRCT: two levels of hierarchy and two instances of one module separate paths from
modules, and two inversions in different modules separate parity from presence. ApplyReset: the rules act on single drivers, so each kind
of driver, sign and reset outcome occurs once, with two latches for the order of
rebuilding. Aiger: rules on single lines; the literal range covers one to three
delta groups. Clock edge: two processes race, two statements have an order, a third tells a
temporary from a register; two bits and two lanes tell a part from the whole.
Longer programs repeat these. Excluded from `backends` is what the violations below
show: an unpacked array that combinational logic reads before it writes it. A
variable that nothing drives is a free input of the FSM and zero in the simulator;
the run gives the FSM the simulator's value, one of those it must allow. Initial
values likewise.
No run has a state constraint; all state spaces are finite as they
stand, since queues, counters and files are bounded by the size of the FSM.

No run disables the deadlock check: a call that ended or panicked stutters
explicitly, so a state in which a call can neither go on nor end would be reported.

Fairness is assumed twice: in `Normalize`, weak fairness of `Group \/ NormalizeReorder`, and in
`Circt`, of `BuildDesign`. Both are calls in one thread that nothing preempts for ever,
so an enabled step is taken. `Termination` is then a property of the counter `blocked`,
and `Terminates` one of the stack of modules being expanded and of the marks of the walk, not of
scheduling. The other specifications make no liveness claim and have no fairness.

### Disagreements with the documentation

Three runs check a sentence of the repository and find a counterexample.

- `binary_writer`: the binary writer subtracts the larger literal from the smaller
  for a gate whose operands are complementary (`Value`'s order puts `-v` before
  `+v`, literals the other way round). `UnderflowOnlyOnComplement` in `aiger_file`
  shows that there is no other case.
- `spurious_assert`: a 1.9 file without properties has a 1.0 header and is read
  back with its single output as an assertion.
- `array_read_first`: `verilator-formal` keeps an unpacked array that combinational
  logic fills in latches. If a block that reads it stands before the block that
  fills it, the output shows the array of the edge before. Fixture
  `combinational_loops` has the two blocks in the harmless order.

More were met while modelling. They have no run of their own; the models
have the code's behaviour, and a property names the case it leaves out:

- An FSM of gates alone panics in `verify_gates_last`, whose defaults of 0 are taken
  for an input at index 0. `LayoutRepaired` in `normalize` shows that
  `normalize_ordering` leaves only this case.
- The comment at `ascii.rs:57-58` announces gates in any order; the reader refuses
  a gate that reads a higher variable. `WrittenIsReadable` in `aiger_file` permutes the gate
  lines of ordered FSMs.
- `sequential::analyze` says that races between processes are unsupported, but accepts
  a process that reads a wire behind another process's blocking assignment.
  `OrderIrrelevant` in `schedule` excludes these designs by `RacesThroughLogic` and
  shows that no other kind of race is accepted.
- The settling loop of the Rust simulator counts variables, but blocks on parts of one
  vector settle a bit per pass. A chain of more bits than the loop has passes,
  in reverse order, panics with "did not reach a fixed point" although there is one.
  `PanicMeansNoFixedPoint` in `backends` is checked on vectors that are not longer.
- `verilator-formal` shifts a word of a single bit by nothing, whatever the amount: no bit of
  the amount is useful for one place (convert.rs:942-944). `FormalMeans` excuses the words
  built on such a shift (`LosesAmount`) and no others.
- Candidate offsets of a variable select are cut to the width of the offset word
  (convert.rs:618, 642, 1028), so that with a narrow offset a high candidate is taken for
  a low one. `WideEnough` is the precondition of the run; Verilator makes offsets wide enough.
- An index outside the declared range of an unpacked array makes the simulator panic, while
  the FSM reads zero and writes nothing. `RuntimeMeans` allows the panic only where such
  an index is really evaluated.
- A select of bits in an array element at an offset beyond the element writes into the next
  element in the simulator (simulator-rust/src/lib.rs:862-865) and nowhere in the FSM.
  `Operators` marks these assignments as `outside`.
- Of two clocks in the ports the second is refused, and a `to_clock` of anything but the selected
  clock, only when they are lowered, not when the graph is validated. `VerdictJustified` has both refusals.

## 4. What is proved

Assumptions: `MachinesAssumption` (well-formed FSMs, every reference driven, gate
inputs sorted: what `verify` and the constructor of `Gate` ensure) and, in `Cycle`,
`OrderingAssumption` (what `reorder_gates` ensures, theorem `ReorderedVerifies`).
For `Export`, `OptionsAssumption`: a flag and two numbers of properties. For `ApplyReset`, `CasesAssumption`: the FSM verifies, the reset input is an input of it and has
one of two active values.
No bound on size, number of gates, or number of FSMs.

**ReorderProofs, on `reorder_gates_with`.** `TypeCorrect`, `NumberingIsTopological`, `CyclePanicMeansCycle`,
`ReorderedVerifies`, `NamesFollowGates`. None of these is inductive. The invariant
`IInv` adds: the settled part (which of `fsm`, `mapping` and `moved` are still as
given in which phase); the numbering (the numbers given out are exactly the
interval from the first gate to `nextGate`, one each, and there are as many as assigned
gates, so that it fits the vector); coverage (each unassigned gate is queued); and
the counter: the last `blocked` entries of the queue are gates that could
not be numbered *with the present set of assigned gates*. The last is the point of
the algorithm: when the counter reaches the queue length, every entry waits for a
gate that is in the queue as well, so the queue itself is the set that reads itself.
When the queue is empty instead, coverage gives that all gates are numbered, the
mapping is a bijection of the driven indices that moves gates among the indices
above the inputs and latches, and `RebuiltDrivers`, `RebuiltVerifies` and
`RebuiltNames` follow.

`PrefixesStay`: fix a valid prefix of the FSM at the call. While the walk is in
it, the queue still holds the indices from the present one on, in their order and nothing deferred behind
them, and each gate before it has got its own index (`PInv`). After the prefix, its gates are
assigned and are never numbered again. The rebuild then puts each gate where it was, with inputs that
name the same variables.

**ReorderProofs, on `normalize_ordering`.** `NormalizeIsRenaming`, `GroupingRepairsLayout`, `NormalizeMeetsLayout`, and
`NormalizeCallsReorder`: all that is proved of `reorder_gates` alone holds of the call inside
`normalize_ordering`. The invariant `NInv` is `IInv` and `PInv` with what ties the call to its
caller: the FSM that `Reorder` is given is the original or what the grouping makes of it
(`Staged`), and a finished call has carried each driver to where its table says (`Finished`).
The grouping gives each driven variable a place of its own and leaves no gap
(`GroupingPlaces`), so that it carries every driver too (`CompactedCarries`); two such carryings
compose into one. The layout follows since `Reorder` moves gates only, among their
own places (`GatesStayLast`), and `Grouped` counts inputs and latches below them.

**ReorderProofs, on `prepare`.** `ExportMeansDesign`, `ExportIsWritable`, `PanicMeansDesignAtFault`, and the
refinement `ExportImplementsDesign`. The invariant `EInv` is `IInv` and `Finished`, for an FSM that is
first the design and then what the first passes make of it, with: the design is the FSM to
export with the resets asked for (`Asking`), `image` follows the flips and then the
renumbering (`Imaged`), the simulator settles what it passed (`Simulating`, as in `SimulatorProofs`)
and a panic comes from `reorder_gates` (`Refused`). `SeenVariable` is the step that matters: a
flip negates the definition and every use, so a value seen through `image` does not change
(`NormalizedGate`, `SeenSigned`), and a gate seen so is the design's gate
(`SeenGates`). For the refinement, preparation and reordering are stutters: `state` is the design's
reset until the simulator starts, and then what `WithReset` gives the exported latches
(`StartIsReset`). An input that is set is `Drive`; a clock step on a settled simulator is `Edge`, with `Seen` as
the valuation (`SeenIsValuation`, `LatchesCarried`).

**AigerProofs.** For every FSM, both formats and every order of an ASCII file's gate lines:
`ReadIsWritten`, `OrderedIsReadable`, `AigerTypeCorrect`. The invariant `AInv` says that the file is what the
writer makes of the FSM, up to the order of the gate lines (`Written`), and that the FSM read has the drivers,
resets, labels and lists of the one written (`ReadBack`). The file is a concatenation of sections: its header
gives each section's length (`HeaderFields`), so that the reader starts each where the writer did
(`SectionStarts`). The k-th line of a section is that of the k-th member of a set in ascending order
(`IndicesList`), and each kind of line is undone by the reader (`LiteralRoundTrip`, `LatchReadBack`,
`GateReadBack`). Together they list each driven variable once (`EntriesComplete`), permuted gate lines too, so
that the driver the reader looks up is the one that was written.

A binary file does not name inputs, latches and gates. That the reader counts them right is
what the writer's assertions are for: they make each kind an interval (`CompactPlaces`). Its gates are
bytes. A number is written as a chain of bytes of which only the last is below `Radix`
(`BytesTerminated`), and read back from anywhere in a file (`NumberReadBack`, by the least number for which
it fails). So the ends of numbers are exactly the ends of the blocks that were put together
(`BlocksLie`, `AscendingList`), and the reader finds the differences of all gates (`NumbersReadBack`,
`DeltasReadBack`) as long as they are natural numbers, which is `Encodable`. It adds gates
with the operands the other way around, and sorting undoes that (`GateDriverCommutes`). `Bytes` and the
reader's `tail` are recursive functions: that they satisfy their equations is proved first
(`RecursionDefines`, `BytesDefined`, `TailsDefined`).

`OverflowMeansComplement`, on the binary format: operands that are
ordered as values and belong to different variables have literals in the same order, however both are
inverted, and a gate's own literal is above those it reads.

**SimulatorProofs.** `TypeCorrect`, `EvalSettles`. `Settling` is inductive with the
types: iteration `k` of `eval` writes only gate `k`, and gates below `k` read only
below `k` (`GateValueLocal`), so they keep their agreement.

`SimulatorImplementsCircuit`: the initial states map to
`Circuit`'s, and each step is a `Drive`, `Edge`, `ResetLatches` or `Forget`, or does
not change inputs and latches (`StepRefines`). At the clock edge `fresh` and
`EvalSettles` make the simulator's values a valuation, the witness of `Edge`.

**ApplyResetProofs.** `RebuildIsVerified`, `ResetCoversDesign`: for every FSM that `verify` accepts, every
reset input and polarity. Neither is inductive. The invariant `IInv` says that the FSM that is simulated
represents the design (`Represents`: `image` finds each input, latch and gate of the design in it, with the
same driver up to renaming, no two in one place), that both simulators settle the gates they pass, as
in `SimulatorProofs`, and that nothing known about an *input or latch* is wrong. Gates need not agree while `eval`
runs; once both passes are done they do, by the least gate that does not: its operands agree, and a gate
that knows less of its operands is unknown or right (`EvalKnows`, `GatesKnow`). For the rebuild the argument is
about places: the three groups are numbered one-to-one and fill the vector (`GroupedPlaces`, `PlacesFilled`), the
gates keep their order, so the mapping is complete for a gate's operands when the gate is rebuilt (`MappedInTime`),
and it represents the design in the new FSM (`MappingRepresents`).

**GraphProofs.** `GraphTypeCorrect` and `LoopsAreDecided`, for every set of hierarchies: whatever a
call of `expand` or `visit` holds and whatever a node reads is a node that is there; the nodes that
pass the walk can be ordered so that each comes after all that it reads without a register; and a
refusal for a combinational cycle comes with one, without a register on it. Neither is inductive.
For `expand` the invariant (`Built`) follows a result from its declaration to the return of the
instance that defines it: a call has declared as many results as its operations have, in order
(`FrameFits`), each result's node knows its place among them (`ResultsFit`), and a call that waits is at an
instance with as many results as the inner module has outputs (`FrameWaits`), so that no alias is made
of an output that is missing. Nodes that are added disturb no call (`CallSurvives`). For the walk (`WalkInv`)
the stack is a chain in which each entry waits for the next (`Chained`), the operands an entry has
passed are done (`Accounted`), and the finished nodes have an order (`Ordered`), which a
node extends when its last operand is done. A node met while it is still on the stack closes a circle of
the stack's upper part. What is assumed of the text is that ports, operations, operands and results
are lists (`ConversionsAssumption`).

**OpsProofs.** What the builders of `ops.rs` compute, for words of every width. A word over an FSM under
construction says a number under a valuation of the variables (`Low`), and a valuation *respects* the FSM if
each gate has the value that its operands give it (`Respects`). `BuildsNumber(val, ds, g, w, n)` is the
contract of a builder: it has only appended gates in order, so that a valuation that respects the larger FSM respects
the smaller one (`Follows`), and if `val` respects what it built, the word it returned is `w` bits wide and says `n`. One lemma
per builder states its number in the arithmetic of `Arithmetic`, and uses those of the builders it calls:
`RippleAdderBuilds`, `MultiplicationBuilds`, `UnsignedDivisionBuilds`, `SignedDivisionBuilds`, `ComparisonBuilds`,
`ICmpBuilds`, `ShifterBuilds`, `RotationBuilds`, `SelectBuilds`. The folding of constants in `Fsm::gate` and the sorting of operands
are under all of them (`GateBuilds`).

A builder is a loop over bits, so each lemma is an induction, and its invariant is what a reader of the code would want
to know. After k bits the restoring divider has `A = L + P * (B * Q + R)` with `R < B` (`Dividing`), where L are the bits
still to come, and all ones in Q if B is zero; the comparison chain has the verdict on the k low bits (`HighestDecides`); the
shifter has moved by the number that the k low bits of the amount say (`MovedOn`); the rotation has turned by it
modulo the width (`TurnsBy`), because `Twice` doubles a place on a circle, whatever the width. The prover
cannot use the library's induction theorems, which are about operators. Here the induction is about sets: `Climbs`
says that a set with 0 that contains k whenever it contains k - 1 contains all numbers up to n (by a least
counterexample), and `LoopRuns` that a loop whose steps have values runs, as the function of its states. The recursive functions
that number theory needs (`Pow2`, `Worth`, `Copies`, the folds) are shown to satisfy their equations first
(`RecursionDefines`).

What `circt-formal` makes of the `comb` and `hw` operations is at the end of the module, for any number of operands:
`CombGateBuilds`, `ReplicateBuilds`, `ArrayGetBuilds`, `ArrayInjectBuilds`.

**OperatorsProofs.** First what `verilator-formal` makes of expressions, with the same contract: `UnaryBuilds`, `BinaryBuilds`,
`ConditionalBuilds`, and lemmas for replication, selects, array elements and the targets of assignments. The operators are
proved group by group, because they resize their operands differently: to the width of the result (`BinaryEven`),
with a sign whatever the node says (`BinarySigned`), not at all (`BinaryCompared`, `BinaryShifted`). A variable index is a chain of
comparisons, and picks the element whose key the index is as long as the keys differ (`PickingBuilds`). The declared indices of
ascending, descending and offset ranges are such keys (`DeclaredPlaces`). A variable offset into a vector is halved
bit by bit, and what is left says zero beyond the end (`ChosenWordBuilds`).

An assignment through two steps reads the element, writes into it and puts it back (`AssignTwice`), while the meaning is
defined by *one* place in the variable, the sum of the places of the steps, or none if a step leaves what it steps into. That the two agree
is about part of a part (`PutNested`): a place inside an element that is inside the variable is inside the
variable, and one that is not changes nothing, although the element is read and written back.

Then two invariants of `Operators`. `OperationsMeanNumbers`: whatever words over whatever inputs a design starts from and
whatever nodes are built on them, the gates of the CIRCT path and of the builders nobody calls mean what the
design's arithmetic says (`CirctMeans`). `ExpressionsMeanNumbers`: the same of expressions and assignments of the
Verilator path (`FormalMeans`). Both properties speak of the last word and of the values that `Settled` computes; the
invariants (`OpsInv`, `FormalInv`, `Sound`) speak of *every* word and of *every* valuation that respects the gates and
gives the inputs the bits of an assignment: the word says what it means, and what it means is below the power of its
width. A builder's lemma gives a node from its operands (`NodeSound`), and appended gates disturb no word. Only at the end is
`Settled` shown to be such a valuation (`SettledRuns`). `FormalInv` claims this while `~node.loses`: a shift of a single bit
returns the bit unshifted, and every later word may be built on it. `node.loses` stays true once it is, so the
invariant is not needed afterwards, and `OneBitShift` shows that a shift of a single bit always sets it.

Two assumptions are in `OperandsAssumption`: words are not empty, and neither is the list of them, as
no type of either front end has width 0; inputs are used as they are. An operation that needs an undefined word
has one that is wide enough, a guard of its action; what its bits are is not restricted. The layouts, literals and
paths of at most two steps are those that the actions of `Operators` range over; widths are not bounded.

**Only model-checked.** `Termination` and `Terminates` (liveness). `Circt` and `Backends` with `Schedule`: `Rtl`, `Netlist` and
`Circt` have recursive operators over expressions, statements and hierarchies, which the prover does not take, and
the lowered FSM is compared with them by a run. Of `Operators`, `TypeOK` and `RuntimeMeans`: `Runtime` stores its words in a
byte (`Capacity`), so that the second is about the widths of the run. `TypeOK` follows from `Sound` except for words built on a
shift that lost its amount, of which no invariant is proved.

## 5. What is not modelled

- Labels of lists, of latches read from files, label escaping; the text of files.
- `remove_*`, `set_unit`, `generate_gate_references`: no caller changes state with
  them on the paths modelled.
- Of the Verilator path: parsing, unsupported kinds of expression, values wider than 128 bits.
  In the clock-edge modules, widths and arithmetic are left to `Operators`, and an
  offset is a word that is wide enough. A property wire is combinational, as Verilator makes
  it; sampled values of sampled values do not occur. `Model.state` is a projection of
  `Model.values` and has no variable.
- Shift amounts of 2^64 and more, for which `to_usize` panics, are out of reach of small words.
- Of the CIRCT path: the spelling of names and types, and refusals of ill-formed text: duplicate
  SSA, port, instance and field names, `inout` ports, overflowing widths. An asynchronous reset
  of `seq.firreg` is lowered like a synchronous one, as the repository documents.
- A reference to an undriven index: `verify` refuses it before every call of the converters, and
  `MachinesAssumption` states it.
- The packing of `OptionBitVec` into two bit vectors.
- The error returns of `apply_reset` for an unknown or wide reset input: they are
  assumed away in `CasesAssumption`.
- Where a preset stands in for an unknown result of the reset transition, the
  initial state is an assumption that the repository's README documents
  (lines 352-355). `ModelCoversDesign` is stated for designs where none did
  (`assumed`).
- Parsers, writers of CIRCT text, command lines: text processing without state
  that outlives a call.
- Liveness of the generated Model: its loop is bounded by a counter, which `Settled` and
  `PanicMeansNoFixedPoint` are about.

## 6. Plan

What is left, in this order.

1. *Renumbering.* An abstract renumbering (any bijection that keeps kinds) that
   `Reorder`, `Normalize` and the rebuild of `ApplyReset` implement, by refinement.
2. *Proofs.* `RuntimeMeans`, with `Capacity` a parameter that is at least every width, on the arithmetic of `OpsProofs`.
3. *Parsers.* The table of data types in `verilator-parser`, as a function on types.
