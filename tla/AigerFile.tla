------------------------------- MODULE AigerFile -------------------------------
(****************************************************************************)
(* An FSM written to an AIGER file and read back, through another tool that *)
(* may list the gates of an ASCII file in any order.                        *)
(****************************************************************************)
EXTENDS Aiger

CONSTANT Machines  \* the FSMs the writers may be called on

ASSUME MachinesAssumption == \A m \in Machines : WellFormed(m) /\ FullyDriven(m)

VARIABLES
  stage,    \* "fsm", "file", "read", or how a call ended: Panics
  fsm,      \* the FSM written
  type,     \* which writer
  version,  \* the version asked of it
  file,     \* the file
  back      \* the FSM read

vars == <<stage, fsm, type, version, file, back>>

Panics == {"unwritable", "overflow", "unreadable"}
NoFile == [type |-> "none"]

Init ==
  /\ stage = "fsm"
  /\ fsm \in Machines /\ type \in Types /\ version \in Versions
  /\ file = NoFile /\ back = NoFile

(* An assertion of a writer fails.                                         *)
RefuseWrite ==
  /\ stage = "fsm"
  /\ ~Writable(fsm, type, version)
  /\ stage' = "unwritable"
  /\ UNCHANGED <<fsm, type, version, file, back>>

(* A difference of two literals is negative: the subtraction of usize      *)
(* values panics in the dev profile the README builds.                     *)
Underflow ==
  /\ stage = "fsm"
  /\ Writable(fsm, type, version) /\ ~Encodable(fsm, type)
  /\ stage' = "overflow"
  /\ UNCHANGED <<fsm, type, version, file, back>>

Write ==
  /\ stage = "fsm"
  /\ Writable(fsm, type, version) /\ Encodable(fsm, type)
  /\ file' = FileOf(fsm, type, version)
  /\ stage' = "file"
  /\ UNCHANGED <<fsm, type, version, back>>

(* Two gate lines of an ASCII file change places: its format does not      *)
(* order them.                                                             *)
GateLines == Skipped(file, "gates") + 1 .. Len(file.lines)
Swapped(s, j, k) == [s EXCEPT ![j] = s[k], ![k] = s[j]]
SwapGates ==
  /\ stage = "file" /\ type = "aag"
  /\ \E j, k \in GateLines : file' = [file EXCEPT !.lines = Swapped(@, j, k)]
  /\ UNCHANGED <<stage, fsm, type, version, back>>

RefuseRead ==
  /\ stage = "file"
  /\ ~Readable(file)
  /\ stage' = "unreadable"
  /\ UNCHANGED <<fsm, type, version, file, back>>

Read ==
  /\ stage = "file"
  /\ Readable(file)
  /\ back' = MachineIn(file)
  /\ stage' = "read"
  /\ UNCHANGED <<fsm, type, version, file>>

Ended == stage \in Panics \cup {"read"} /\ UNCHANGED vars

Next ==
  \/ RefuseWrite \/ Underflow \/ Write \/ SwapGates \/ RefuseRead \/ Read \/ Ended
Spec == Init /\ [][Next]_vars

--------------------------------------------------------------------------------
(* Each variable keeps the shape the source declares.                      *)
TypeOK ==
  /\ stage \in {"fsm", "file", "read"} \cup Panics
  /\ WellFormed(fsm) /\ type \in Types /\ version \in Versions
  /\ stage \in {"file", "read", "unreadable"} =>
       /\ file.header \in Seq(Nat) /\ file.lines \in Seq(Seq(Nat))
       /\ file.bytes \in Seq(0 .. 2 * Radix - 1)
  /\ stage = "read" => WellFormed(back)

(* What is read is what was written, in both formats, for every polarity   *)
(* and order of operands: an OR gate comes back as the AND of its inverted  *)
(* inputs and drives the same variable, resets, assumptions and outputs are *)
(* kept, and so are the assertions, but for the one a file of AIGER 1.0     *)
(* makes of its single output.                                             *)
AndForm(d) == IF d.kind = "gate"
              THEN GateDriver(TRUE, "And", Xor(d.a, ~d.sign), Xor(d.b, ~d.sign))
              ELSE d
RoundTrip ==
  stage = "read" =>
    /\ back.driver = [i \in VarsOf(fsm) |-> AndForm(fsm.driver[i])]
    /\ \A list \in {"outputs", "assumes", "covers"} : back.refs[list] = fsm.refs[list]
    /\ \/ back.refs["asserts"] = fsm.refs["asserts"]
       \/ fsm.refs["asserts"] = <<>> /\ Len(fsm.refs["outputs"]) = 1
    /\ \A i \in Inputs(fsm) \cup Latches(fsm) : back.label[i] = fsm.label[i]

(* The reader takes every file of an ordered FSM, whatever the order of    *)
(* its gate lines; for the binary one no variable may be undriven, as      *)
(* normalize_ordering sees to: the writer does not look at the end of the  *)
(* vector, the reader does.                                                *)
WrittenIsReadable ==
  stage = "unreadable" /\ OrderedGates(fsm) => type = "aig" /\ Driven(fsm) # VarsOf(fsm)

(* In an ordered FSM the order of a gate's operands is the order of their  *)
(* literals unless both are one variable or constants: only such a gate    *)
(* makes a difference of the binary writer negative.                       *)
UnderflowOnlyOnComplement ==
  stage = "overflow" /\ OrderedGates(fsm) =>
    \E g \in Gates(fsm) : LET d == fsm.driver[g] IN d.a.index = d.b.index /\ d.a # d.b

(* "ready for ASCII or binary AIGER 1.9 serialization": the binary writer  *)
(* takes every FSM its assertions admit.                                   *)
BinaryWriterTotal == stage # "overflow"

(* A file of AIGER 1.9 has no bad state its writer did not put in it.      *)
NoSpuriousAssert ==
  stage = "read" /\ version = "1.9" => back.refs["asserts"] = fsm.refs["asserts"]

================================================================================
