--------------------------------- MODULE Emitted ---------------------------------
(****************************************************************************)
(* The functions simulator-rust emits for a design: the order of the        *)
(* combinational blocks, and what a phase does to the values.               *)
(****************************************************************************)
EXTENDS Sequential

(****************************************************************************)
(* order_combinational: the first waiting block that reads only what no     *)
(* block writes or blocks before it have written comes next.  When there is *)
(* none, the rest keeps its order and the blocks are run in a loop.         *)
(****************************************************************************)
RECURSIVE Ordered(_, _, _)
Ordered(waiting, available, done) ==
  LET ready(k) == Reads(waiting[k]) \subseteq available
      k == Min({k \in DOMAIN waiting : ready(k)})
  IN IF \A j \in DOMAIN waiting : ~ready(j)
     THEN [blocks |-> done \o waiting, loop |-> waiting # <<>>]
     ELSE Ordered(RemoveAt(waiting, k), available \cup Writes(waiting[k]),
                  Append(done, waiting[k]))

\* Mutant: the blocks run once in the order of the source.
SourceOrder(d) == [blocks |-> d.combinational, loop |-> FALSE]

OrderCombinational(d) ==
  Ordered(d.combinational, Vars(d) \ WritesOfAll(d.combinational), <<>>)

--------------------------------------------------------------------------------
(****************************************************************************)
(* emit_statement: a blocking assignment writes env, a non-blocking one the *)
(* copy pending; both read env, for the offset of their target too.         *)
(****************************************************************************)
Perform(s, st) ==
  LET v == s.target.var
      bits == Eval(s.value, st.env)
  IN IF s.nonblocking
     THEN [st EXCEPT !.pending[v] = Written(s.target, @, bits, st.env)]
     ELSE [st EXCEPT !.env[v] = Written(s.target, @, bits, st.env)]

RECURSIVE Run(_, _)
Run(stmts, st) ==
  IF stmts = <<>> THEN st
  ELSE LET s == Head(stmts)
       IN IF s.kind = "assign" THEN Run(Tail(stmts), Perform(s, st))
          ELSE Run((IF Truthy(Eval(s.condition, st.env)) THEN s.then ELSE s.else)
                     \o Tail(stmts), st)

RunPhase(blocks, e) == Run(FlattenSeq(blocks), [env |-> e, pending |-> e])

(* run_sequential: at its end every non-blocking variable is copied back. *)
RunSequential(d, e) ==
  LET st == RunPhase(d.sequential, e)
  IN [v \in Vars(d) |-> IF v \in NonblockingIn(d.sequential) THEN st.pending[v] ELSE st.env[v]]

CaptureSampled(d, e) ==
  [v \in Vars(d) |-> IF v \in Sampled(d) THEN Eval(d.sampled[v], e) ELSE e[v]]

(* make_evaluation: the wire of an assertion says that it is violated.      *)
Evaluation(outputs, properties) == [outputs |-> outputs, properties |-> properties]
PropertyFields(d, kind, e) ==
  LET wires == WiresOf(d, kind)
  IN [k \in DOMAIN wires |-> Truthy(e[wires[k].var]) # (kind = "assertions")]
MakeEvaluation(d, e) ==
  Evaluation([v \in d.outputs |-> e[v]],
             [kind \in PropertyKinds |-> PropertyFields(d, kind, e)])

(* run_initial, on the default values.                                    *)
Started(d) == RunPhase(<<d.initial>>, ZeroEnvironment(d)).env
================================================================================
