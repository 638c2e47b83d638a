-------------------------------- MODULE Reorder --------------------------------
(****************************************************************************)
(* FSM::reorder_gates_with: the work-queue algorithm that renumbers gates   *)
(* so that every gate is driven by lower indices.  One action per iteration *)
(* of the loop; the whole rebuild that follows the loop is one action.      *)
(****************************************************************************)
EXTENDS Fsm

CONSTANT Machines  \* the FSMs reorder_gates_with may be called on

ASSUME MachinesAssumption ==
  \A m \in Machines : WellFormed(m) /\ FullyDriven(m)

VARIABLES
  pc,        \* "call", "walk", or how the call ended: Ended
  fsm,       \* self
  queue,     \* queue
  assigned,  \* {i : visit_state[i] = Assigned}
  mapping,   \* mapping, a signless index for each index
  nextGate,  \* next_gate_index
  blocked,   \* blocked
  moved,     \* the caller's table, written by on_remap (reorder_model)
  given      \* history: the FSM at the call

walkVars == <<queue, assigned, mapping, nextGate, blocked>>
vars == <<pc, fsm, walkVars, moved, given>>

Ended == {"done", "misplaced", "cyclic"}

(****************************************************************************)
(* verify_gates_last.  The index variables of the last input and the last   *)
(* latch start at 0, so 0 is compared with the first gate whether or not    *)
(* variable 0 is an input or a latch.                                       *)
(****************************************************************************)
FirstGate(m) == CHOOSE g \in Gates(m) : \A h \in Gates(m) : g <= h
GatesLast(m) == \A i \in {0} \cup Inputs(m) \cup Latches(m) : i < FirstGate(m)

Identity(m) == [i \in VarsOf(m) |-> i]

Init ==
  /\ pc = "call"
  /\ fsm \in Machines
  /\ given = fsm
  /\ queue = <<>>
  /\ assigned = {}
  /\ mapping = Identity(fsm)
  /\ moved = Identity(fsm)
  /\ nextGate = 0
  /\ blocked = 0

(* No gate: the call returns and changes nothing.                          *)
NothingToReorder ==
  /\ pc = "call"
  /\ Gates(fsm) = {}
  /\ pc' = "done"
  /\ UNCHANGED <<fsm, walkVars, moved, given>>

(* An assertion of verify_gates_last fails.                                *)
RejectLayout ==
  /\ pc = "call"
  /\ Gates(fsm) # {} /\ ~GatesLast(fsm)
  /\ pc' = "misplaced"
  /\ UNCHANGED <<fsm, walkVars, moved, given>>

\* Mutant: counted from 1.
WorklistFromOne == [k \in 1 .. fsm.size |-> k]

\* Mutant: seeded from the end.
WorklistBackwards == [k \in 1 .. fsm.size |-> fsm.size - k]

(* The queue is seeded with every index, the ones of no gate included.     *)
Worklist == [k \in 1 .. fsm.size |-> k - 1]
Seed ==
  /\ pc = "call"
  /\ Gates(fsm) # {} /\ GatesLast(fsm)
  /\ pc' = "walk"
  /\ queue' = Worklist
  /\ nextGate' = FirstGate(fsm)
  /\ UNCHANGED <<fsm, assigned, mapping, blocked, moved, given>>

Popping == pc = "walk" /\ queue # <<>>
Pending(i) == i \in Gates(fsm) \ assigned
\* Mutant: one assigned input is enough.
ReadyBySome(g) == Deps(fsm, g) = {} \/ Deps(fsm, g) \cap assigned # {}

Ready(g) == Deps(fsm, g) \subseteq assigned

Skip ==
  /\ Popping
  /\ ~Pending(Head(queue))
  /\ queue' = Tail(queue)
  /\ UNCHANGED <<pc, fsm, assigned, mapping, nextGate, blocked, moved, given>>

\* Mutant: off by one.
StalledEarly == blocked' + 1 >= Len(queue')

(* A gate whose inputs are not all assigned goes to the back; the assertion *)
(* on blocked ends the call.                                                *)
Stalled == blocked' >= Len(queue')

\* Mutant: blocked is not counted.
DeferUncounted ==
  /\ Popping
  /\ Pending(Head(queue)) /\ ~Ready(Head(queue))
  /\ queue' = Append(Tail(queue), Head(queue))
  /\ UNCHANGED <<pc, fsm, assigned, mapping, nextGate, blocked, moved, given>>

Defer ==
  /\ Popping
  /\ Pending(Head(queue)) /\ ~Ready(Head(queue))
  /\ queue' = Append(Tail(queue), Head(queue))
  /\ blocked' = blocked + 1
  /\ pc' = IF Stalled THEN "cyclic" ELSE "walk"
  /\ UNCHANGED <<fsm, assigned, mapping, nextGate, moved, given>>

Assign ==
  /\ Popping
  /\ Pending(Head(queue)) /\ Ready(Head(queue))
  /\ queue' = Tail(queue)
  /\ mapping' = [mapping EXCEPT ![Head(queue)] = nextGate]
  /\ nextGate' = nextGate + 1
  /\ assigned' = assigned \cup {Head(queue)}
  /\ blocked' = 0
  /\ UNCHANGED <<pc, fsm, moved, given>>

(****************************************************************************)
(* The rebuild.  mapping is the identity on inputs and latches, so every    *)
(* driven index lands on its mapping; an index nothing lands on is None.    *)
(****************************************************************************)
Remap(v) == IF v.index = NoVar THEN v ELSE Lit(mapping[v.index], v.sign)

\* Mutant: gates keep their inputs.
RemapLatchOnly(d) == IF d.kind = "latch" THEN [d EXCEPT !.input = Remap(d.input)] ELSE d

RemapDriver(d) ==
  CASE d.kind = "gate" -> GateDriver(d.sign, d.type, Remap(d.a), Remap(d.b))
    [] d.kind = "latch" -> [d EXCEPT !.input = Remap(d.input)]
    [] OTHER -> d

Landing(i) == {o \in Driven(fsm) : mapping[o] = i}
Origin(i) == CHOOSE o \in Landing(i) : TRUE

Rebuilt ==
  [size |-> fsm.size,
   driver |-> [i \in VarsOf(fsm) |->
                 IF Landing(i) = {} THEN NoDriver
                 ELSE RemapDriver(fsm.driver[Origin(i)])],
   label |-> [i \in VarsOf(fsm) |->
                 IF Landing(i) = {} THEN NoLabel ELSE fsm.label[Origin(i)]],
   refs |-> [list \in Lists |->
                 [k \in DOMAIN fsm.refs[list] |-> Remap(fsm.refs[list][k])]]]

\* Mutant: on_remap is not called.
OnRemapOmitted == moved

(* on_remap(old, new) reaches the caller's table for each gate that moves. *)
OnRemap == [i \in VarsOf(fsm) |-> IF i \in Gates(fsm) THEN mapping[i] ELSE moved[i]]

Rebuild ==
  /\ pc = "walk"
  /\ queue = <<>>
  /\ pc' = "done"
  /\ fsm' = Rebuilt
  /\ moved' = OnRemap
  /\ UNCHANGED <<walkVars, given>>

(* The call has returned, or has panicked.                                 *)
Terminated == pc \in Ended /\ UNCHANGED vars

Step == NothingToReorder \/ RejectLayout \/ Seed \/ Skip \/ Defer \/ Assign \/ Rebuild
Next == Step \/ Terminated
Spec == Init /\ [][Next]_vars /\ WF_vars(Step)

--------------------------------------------------------------------------------
(* Each variable keeps the shape the source declares.                      *)
TypeOK ==
  /\ pc \in {"call", "walk"} \cup Ended
  /\ WellFormed(fsm)
  /\ WellFormed(given) /\ given.size = fsm.size
  /\ queue \in Seq(VarsOf(fsm))
  /\ assigned \subseteq VarsOf(fsm)
  /\ mapping \in [VarsOf(fsm) -> Nat]
  /\ moved \in [VarsOf(fsm) -> Nat]
  /\ nextGate \in Nat
  /\ blocked \in Nat

(* The numbering built so far is one-to-one, stays inside the vector and   *)
(* above every input and latch, and numbers a gate after all the gates it  *)
(* reads: what makes the rebuild lose no driver and the result ordered     *)
(* (mapping[variable_index] = next_gate_index in the loop).                *)
Topological ==
  pc = "walk" =>
    \A g \in assigned :
      /\ mapping[g] \in FirstGate(fsm) .. fsm.size - 1
      /\ \A d \in Deps(fsm, g) : d \in assigned /\ mapping[d] < mapping[g]
      /\ \A h \in assigned : mapping[h] = mapping[g] => h = g
      /\ \A i \in Inputs(fsm) \cup Latches(fsm) : i < mapping[g]

(* A set of gates each of which reads another of the set: a cycle.         *)
Cyclic(m) == \E S \in SUBSET Gates(m) :
               S # {} /\ \A g \in S : Deps(m, g) \cap S # {}

(* "cannot reorder cyclic gate dependency" is no false alarm: deferred     *)
(* gates, holes and non-gates still queued never make the counter reach    *)
(* the queue length on an FSM whose gates have an order.                   *)
CycleAlarmJustified == pc = "cyclic" => Cyclic(given)

(* After reorder_gates, verify(VerifyOrdering::Verify) passes, which is    *)
(* what every exporter asserts next: no gate reads its own or a higher     *)
(* index and no reference is left on an undriven one.                      *)
DoneIsVerified == pc = "done" => Verify(fsm)

(* The caller's table and the labels agree: the variable a caller finds    *)
(* through on_remap is of the kind and carries the label of the one it     *)
(* held before the call (reorder_model in verilator-formal depends on it). *)
NamesFollow ==
  pc = "done" =>
    \A i \in Driven(given) :
      /\ fsm.label[moved[i]] = given.label[i]
      /\ fsm.driver[moved[i]].kind = given.driver[i].kind

(* "already-valid prefixes keep their indices": below the first hole and   *)
(* the first gate that reads forward, nothing moves.                       *)
ValidUpTo(m, k) ==
  \A i \in 0 .. k - 1 :
    /\ i \in Driven(m)
    /\ i \in Gates(m) => \A v \in GateInputs(m.driver[i]) : v.index < i
ValidPrefixKept ==
  pc = "done" =>
    \A k \in 0 .. given.size :
      ValidUpTo(given, k) =>
        \A i \in 0 .. k - 1 : /\ moved[i] = i
                              /\ i \in Gates(given) => fsm.driver[i] = given.driver[i]

(* Every call ends, also on cyclic gates, where only the assertion on      *)
(* blocked stops the loop.                                                 *)
Termination == <>(pc \in Ended)
================================================================================
