------------------------------ MODULE MCNormalize ------------------------------
(****************************************************************************)
(* Small FSMs for Reorder and Normalize: for each layout, every wiring of   *)
(* its gates to each other and to variable 0.                               *)
(****************************************************************************)
EXTENDS Normalize

(* The layouts: i input, l latch, g gate, n undriven.                      *)
Ordinary == {<<"i", "l", "g", "g", "g">>, <<"i", "g", "n", "g", "g">>,
             <<"l", "n", "g", "g", "n">>, <<"i", "g", "g", "g", "g">>, <<"i", "l", "n">>}
(* Gates before inputs and latches, latches before inputs, undriven indices *)
(* between and after them, gates alone.                                    *)
Misplaced == {<<"i", "g", "l", "g">>, <<"g", "g", "i">>,
              <<"g", "i", "l", "g">>, <<"l", "n", "i", "g", "g">>, <<"g", "g", "n", "l", "g">>,
              <<"g", "l", "i", "g", "n">>, <<"g", "n", "g">>, <<"l", "n", "i">>,
              <<"l", "i", "g">>}

At(layout, k) == {j - 1 : j \in {j \in DOMAIN layout : layout[j] = k}}

(* Both operands of a gate: gates of the FSM and variable 0; in a layout of *)
(* four gates each gate is a buffer of one of them.                         *)
Operands(layout) == {Lit(g, TRUE) : g \in At(layout, "g") \cup ({0} \ At(layout, "n"))}
Pairs(layout) ==
  IF Cardinality(At(layout, "g")) > 3
  THEN {Const(TRUE)} \X Operands(layout)
  ELSE {p \in Operands(layout) \X Operands(layout) : p[1].index <= p[2].index}

TopGate(layout) == CHOOSE g \in At(layout, "g") : \A h \in At(layout, "g") : h <= g

(* Driver i of a layout; wire gives each gate its operands.  A latch holds *)
(* the highest gate, and every list exposes it.                            *)
DriverOf(layout, wire, i) ==
  CASE layout[i + 1] = "i" -> InputDriver
    [] layout[i + 1] = "n" -> NoDriver
    [] layout[i + 1] = "l" -> LatchDriver(TRUE, IF At(layout, "g") = {} THEN Lit(i, FALSE)
                                                 ELSE Lit(TopGate(layout), TRUE), "0")
    [] OTHER -> GateDriver(TRUE, "And", wire[i][1], wire[i][2])

MachineOf(layout, wire) ==
  LET n == Len(layout)
      exposed == IF At(layout, "g") = {} THEN <<>>
                 ELSE <<Lit(TopGate(layout), FALSE)>>
  IN [size |-> n,
      driver |-> [i \in 0 .. n - 1 |-> DriverOf(layout, wire, i)],
      label |-> [i \in 0 .. n - 1 |-> IF layout[i + 1] = "n" THEN NoLabel ELSE i + 1],
      refs |-> [list \in Lists |-> exposed]]

Wired(layouts) ==
  UNION {{MachineOf(layout, wire) : wire \in [At(layout, "g") -> Pairs(layout)]} :
           layout \in layouts}

MCMachines == Wired(Ordinary \cup Misplaced)
================================================================================
