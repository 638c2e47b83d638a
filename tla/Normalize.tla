------------------------------- MODULE Normalize -------------------------------
(****************************************************************************)
(* FSM::normalize_ordering: the variables are compacted into the order the  *)
(* binary AIGER format requires, then reorder_gates runs.  A caller asks    *)
(* for both, or for reorder_gates alone.                                   *)
(****************************************************************************)
EXTENDS Reorder

VARIABLES
  phase,     \* "group" and then "grouped" in normalize_ordering, "alone" in reorder_gates
  original,  \* history: the FSM before the call
  place      \* mapping of normalize_ordering, -1 for None; the identity without it

normalizeVars == <<vars, phase, original, place>>

NormalizeInit ==
  /\ Init
  /\ phase \in {"group", "alone"}
  /\ original = fsm
  /\ place = Identity(fsm)

\* Mutant: latches before inputs.
PlaceOfLatchesFirst(m) ==
  [i \in VarsOf(m) |-> IF i \in Driven(m) THEN Grouped(Latches(m), Inputs(m), Gates(m), i) ELSE -1]

\* Mutant: gates before latches.
PlaceOfGatesSecond(m) ==
  [i \in VarsOf(m) |-> IF i \in Driven(m) THEN Grouped(Inputs(m), Gates(m), Latches(m), i) ELSE -1]

PlaceOf(m) == [i \in VarsOf(m) |->
                 IF i \in Driven(m) THEN Grouped(Inputs(m), Latches(m), Gates(m), i) ELSE -1]

Compacted(m, to) ==
  LET n == Cardinality(Driven(m))
      At(k) == CHOOSE i \in Driven(m) : to[i] = k
  IN [size |-> n,
      driver |-> [k \in 0 .. n - 1 |-> RenamedDriver(m.driver[At(k)], to)],
      label |-> [k \in 0 .. n - 1 |-> m.label[At(k)]],
      refs |-> [list \in Lists |->
                  [k \in DOMAIN m.refs[list] |-> Renamed(m.refs[list][k], to)]]]

Group ==
  /\ phase = "group"
  /\ phase' = "grouped"
  /\ place' = PlaceOf(fsm)
  /\ fsm' = Compacted(fsm, place')
  /\ given' = fsm'
  /\ mapping' = Identity(fsm') /\ moved' = Identity(fsm')
  /\ UNCHANGED <<pc, queue, assigned, nextGate, blocked, original>>

NormalizeReorder ==
  /\ phase # "group"
  /\ Step
  /\ UNCHANGED <<phase, original, place>>

NormalizeReturned == pc \in Ended /\ UNCHANGED normalizeVars

NormalizeNext == Group \/ NormalizeReorder \/ NormalizeReturned
NormalizeSpec ==
  NormalizeInit /\ [][NormalizeNext]_normalizeVars /\ WF_normalizeVars(Group \/ NormalizeReorder)

--------------------------------------------------------------------------------
(* Where a variable of the original is now.                                *)
Now == [i \in VarsOf(original) |-> IF i \in Driven(original) THEN moved[place[i]] ELSE -1]

(* The renumberings of a call compose to one that loses nothing: each       *)
(* driver is found, with its label and its operands renamed, at the place   *)
(* of its own variable, and every list exposes the renamed values.          *)
Isomorphic ==
  pc = "done" =>
    /\ \A i \in Driven(original) :
         /\ fsm.driver[Now[i]] = RenamedDriver(original.driver[i], Now)
         /\ fsm.label[Now[i]] = original.label[i]
         /\ \A j \in Driven(original) : Now[i] = Now[j] => i = j
    /\ \A list \in Lists :
         fsm.refs[list] = [k \in DOMAIN original.refs[list] |->
                             Renamed(original.refs[list][k], Now)]

(* "the order required by binary AIGER: inputs, latch outputs, then        *)
(* topologically ordered gate outputs", without an undriven index, and     *)
(* inputs, latches and gates that had an order keep it.                    *)
BinaryLayout ==
  phase = "grouped" /\ pc = "done" =>
    /\ Driven(fsm) = VarsOf(fsm)
    /\ \A i \in Inputs(fsm), l \in Latches(fsm) : i < l
    /\ \A i \in Inputs(fsm) \cup Latches(fsm), g \in Gates(fsm) : i < g
    /\ Verify(fsm)
    /\ \A kind \in {"input", "latch", "gate"} :
         kind # "gate" \/ OrderedGates(original) =>
           \A i, j \in Kind(original, kind) : i < j => Now[i] < Now[j]

(* normalize_ordering repairs a gate before an input: after it has grouped *)
(* the variables, the assertions of verify_gates_last fail only on an FSM  *)
(* that has neither inputs nor latches.                                    *)
LayoutRepaired ==
  phase = "grouped" /\ pc = "misplaced" => Inputs(original) \cup Latches(original) = {}
================================================================================
