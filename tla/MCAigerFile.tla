------------------------------ MODULE MCAigerFile ------------------------------
(****************************************************************************)
(* Small FSMs for AigerFile: every pair of operands of a gate of either     *)
(* type, and the layouts, resets and lists the writers treat differently.   *)
(****************************************************************************)
EXTENDS AigerFile

MachineOf(drivers, outputs, asserts, assumes) ==
  LET n == Len(drivers)
  IN [size |-> n,
      driver |-> [i \in 0 .. n - 1 |-> drivers[i + 1]],
      label |-> [i \in 0 .. n - 1 |-> IF i = 1 THEN NoLabel ELSE i + 1],
      refs |-> [list \in Lists |-> CASE list = "outputs" -> outputs
                                     [] list = "asserts" -> asserts
                                     [] list = "assumes" -> assumes
                                     [] OTHER -> <<>>]]

Output == <<Lit(3, FALSE)>>
Literals == {Const(FALSE), Const(TRUE), Lit(0, TRUE), Lit(0, FALSE), Lit(1, TRUE), Lit(1, FALSE)}
Latch(s, r) == LatchDriver(s, Lit(3, FALSE), r)
Buffer(v) == GateDriver(TRUE, "And", Const(TRUE), v)
Nor(a, b) == GateDriver(FALSE, "Or", a, b)

(* A gate of every pair of operands, and one behind it.                    *)
Wirings == {MachineOf(<<InputDriver, Latch(TRUE, "X"), GateDriver(t = "And", t, a, b),
                        Nor(Lit(2, FALSE), Lit(0, TRUE))>>,
                      Output, Output, <<Lit(0, TRUE)>>) :
              t \in {"And", "Or"}, a \in Literals, b \in Literals}

(* Every choice of the lists and of the reset value of the latch.          *)
Exposures == {MachineOf(<<InputDriver, Latch(TRUE, r), Nor(Lit(0, TRUE), Lit(1, TRUE)),
                          Buffer(Lit(2, FALSE))>>, outputs, asserts, assumes) :
                r \in Ternary, outputs \in {<<>>, Output, <<Lit(1, TRUE), Const(TRUE)>>},
                asserts \in {<<>>, Output}, assumes \in {<<>>, <<Const(TRUE)>>}}

(* A latch before an input, a negative latch, a gate before an input, a    *)
(* positive OR, a hole in the middle and one at the end.                   *)
Layouts == {MachineOf(drivers, Output, <<>>, <<Const(TRUE)>>) :
              drivers \in {
                <<Latch(TRUE, "0"), InputDriver, Buffer(Lit(1, TRUE)), Buffer(Lit(2, FALSE))>>,
                <<InputDriver, Latch(FALSE, "1"), Buffer(Lit(1, TRUE)), Buffer(Lit(1, TRUE))>>,
                <<InputDriver, Buffer(Lit(0, TRUE)), InputDriver, Buffer(Lit(2, FALSE))>>,
                <<InputDriver, InputDriver, GateDriver(TRUE, "Or", Lit(0, TRUE), Lit(1, TRUE)),
                  Buffer(Lit(2, TRUE))>>,
                <<InputDriver, Latch(TRUE, "X"), NoDriver, Buffer(Lit(1, FALSE))>>,
                <<InputDriver, Latch(TRUE, "1"), Buffer(Lit(1, FALSE)), Buffer(Lit(2, TRUE)),
                  NoDriver>>}}

(* The gate at 2 reads the gate at 3.                                      *)
Backward == MachineOf(<<InputDriver, Latch(TRUE, "0"), Buffer(Lit(3, TRUE)),
                        Buffer(Lit(0, TRUE))>>, Output, Output, <<>>)

OrderedMachines == Wirings \cup Exposures \cup Layouts
MCMachines == OrderedMachines \cup {Backward}
================================================================================
