-------------------------------- MODULE Lowering --------------------------------
(****************************************************************************)
(* The conversion of verilator-formal, as far as the order of statements    *)
(* goes.  The code executes statements on symbolic values and the FSM it    *)
(* builds then computes those for concrete registers and inputs; here they  *)
(* are executed on the concrete values at once, both branches of every if   *)
(* included, since a branch can be refused whether or not it is taken.      *)
(****************************************************************************)
EXTENDS Sequential

AllReads(d) ==
  LET direct == ReadsOfAll(d.combinational) \cup ReadsOfAll(d.sequential)
  IN direct \cup UNION {Operands(d.sampled[v]) : v \in direct \cap Sampled(d)}
AllWrites(d) == WritesOfAll(d.combinational) \cup WritesOfAll(d.sequential)

(* An unpacked array that is both read and written is kept in latches,    *)
(* also when combinational logic writes it.                               *)
StoredArrays(d) == d.arrays \cap AllReads(d) \cap AllWrites(d)
FormalRegisters(d) == Registers(d) \cup StoredArrays(d)

(* What is read and never written is an input, like the primary inputs.   *)
FreeInputs(d) ==
  d.inputs \cup (AllReads(d) \ (AllWrites(d) \cup FormalRegisters(d) \cup Sampled(d)))

--------------------------------------------------------------------------------
(* An environment is a function on the variables that have a value; ok is *)
(* FALSE once the conversion has returned an error.                       *)
Resolved(vs, e) == vs \subseteq DOMAIN e

(* assign: a part is read from the environment it is written to.          *)
Assign(s, st) ==
  LET v == s.target.var
      dest == IF s.nonblocking THEN st.pending ELSE st.env
      ok == /\ Resolved(Operands(s.value), st.env)
            /\ s.target.whole \/ (Resolved(Operands(s.target.at), st.env) /\ v \in DOMAIN dest)
      old == IF s.target.whole THEN Zero(1) ELSE dest[v]
      new == v :> Written(s.target, old, Eval(s.value, st.env), st.env)
  IN CASE ~ok -> [st EXCEPT !.ok = FALSE]
       [] ok /\ s.nonblocking -> [st EXCEPT !.pending = new @@ @]
       [] ok /\ ~s.nonblocking -> [st EXCEPT !.env = new @@ @]

(* merge_environments: what only one branch has is zero in the other.     *)
Merged(d, taken, then, else) ==
  (IF taken THEN then ELSE else) @@ [v \in DOMAIN then \cup DOMAIN else |-> Zero(d.width[v])]

RECURSIVE Execute(_, _, _)
Execute(d, stmts, st) ==
  LET s == Head(stmts)
      then == Execute(d, s.then, st)
      else == Execute(d, s.else, st)
      taken == Truthy(Eval(s.condition, st.env))
  IN CASE stmts = <<>> \/ ~st.ok -> st
       [] stmts # <<>> /\ st.ok /\ s.kind = "assign" -> Execute(d, Tail(stmts), Assign(s, st))
       [] OTHER ->
            IF Resolved(Operands(s.condition), st.env) /\ then.ok /\ else.ok
            THEN Execute(d, Tail(stmts),
                         [ok |-> TRUE, env |-> Merged(d, taken, then.env, else.env),
                          pending |-> Merged(d, taken, then.pending, else.pending)])
            ELSE [st EXCEPT !.ok = FALSE]

(* execute_combinational: the first waiting block that reads only         *)
(* variables with a value is next; none is an error.                      *)
RECURSIVE ExecuteCombinational(_, _, _)
ExecuteCombinational(d, waiting, st) ==
  LET ready == {k \in DOMAIN waiting : Resolved(Reads(waiting[k]), st.env)}
  IN CASE waiting = <<>> \/ ~st.ok -> st
       [] waiting # <<>> /\ st.ok /\ ready = {} -> [st EXCEPT !.ok = FALSE]
       [] OTHER -> ExecuteCombinational(d, RemoveAt(waiting, Min(ready)),
                                        Execute(d, waiting[Min(ready)], st))

--------------------------------------------------------------------------------
SampledAtEdge(d, e) == [v \in Sampled(d) |-> Eval(d.sampled[v], e)]

\* Mutant: outputs show the registers after the edge.
ShownAfterEdge(d, regs, e) == e

(* The outputs are those of the current state, so registers are restored. *)
Shown(d, regs, e) == [v \in Registers(d) |-> regs[v]] @@ e

(* add_properties: an assertion of the FSM holds when its wire is false.    *)
PropertyList(d, kind, e) ==
  LET wires == WiresOf(d, kind)
  IN [k \in DOMAIN wires |->
        IF kind = "assertions" THEN e[wires[k].var][0] = 0 ELSE e[wires[k].var][0] = 1]
PropertyWires(d) == {d.properties[k].var : k \in DOMAIN d.properties}
PropertiesFit(d, e) == \A v \in PropertyWires(d) : v \in DOMAIN e /\ d.width[v] = 1

(* Only zeros for history registers may be assigned initially: their        *)
(* latches are reset to zero, and those of other registers to no value.     *)
IsFormalStaticInitializer(s) ==
  s.kind = "assign" /\ s.target.whole /\ s.value.op = "constant" /\ ~Truthy(s.value.value)
OnlyHistoryInitialized(d) ==
  \A k \in DOMAIN d.initial :
    IsFormalStaticInitializer(d.initial[k]) /\ d.initial[k].target.var \in d.history

(* The clocked processes, from the settled logic with its samples taken.    *)
Clocked(d, atEdge) ==
  Execute(d, FlattenSeq(d.sequential),
          [ok |-> TRUE, env |-> atEdge, pending |-> [v \in NonblockingIn(d.sequential) |-> atEdge[v]]])

Results(d, next, shown) ==
  [ok |-> TRUE, next |-> [v \in FormalRegisters(d) |-> next[v]],
   outputs |-> [v \in d.outputs |-> shown[v]],
   properties |-> [kind \in PropertyKinds |-> PropertyList(d, kind, shown)]]
NoResults(regs) == [ok |-> FALSE, next |-> regs, outputs |-> <<>>, properties |-> <<>>]

(* The rest of convert, from what is shown, clocked and settled: each step *)
(* that fails refuses the design.                                          *)
FromShown(d, regs, clocked, shown) ==
  IF clocked.ok /\ Resolved(d.outputs, shown) /\ PropertiesFit(d, shown)
  THEN Results(d, clocked.pending @@ clocked.env, shown) ELSE NoResults(regs)
FromClocked(d, regs, clocked) == FromShown(d, regs, clocked, Shown(d, regs, clocked.env))
FromSettled(d, regs, settled) ==
  IF OnlyHistoryInitialized(d) /\ settled.ok /\ Resolved(ReadsOfSampled(d), settled.env)
  THEN FromClocked(d, regs, Clocked(d, SampledAtEdge(d, settled.env) @@ settled.env)) ELSE NoResults(regs)

(* convert, which refuses other initial blocks: the next values of the      *)
(* FSM's registers, its outputs and properties, when its registers hold     *)
(* regs and its inputs ins.                                                 *)
Lowered(d, regs, ins) ==
  FromSettled(d, regs, ExecuteCombinational(d, d.combinational,
                                            [ok |-> TRUE, env |-> regs @@ ins, pending |-> <<>>]))
================================================================================
