------------------------------- MODULE MCExport --------------------------------
(****************************************************************************)
(* Small designs for Export: signed latches and gates of both types, gates  *)
(* in and out of order, a hole, a cycle, no gate, a gate before an input.    *)
(****************************************************************************)
EXTENDS Export

(* The design with these drivers; its lists differ in length and sign.     *)
DesignOf(drivers, seen) ==
  LET n == Len(drivers)
  IN [size |-> n,
      driver |-> [i \in 0 .. n - 1 |-> drivers[i + 1]],
      label |-> [i \in 0 .. n - 1 |-> i + 1],
      refs |-> [list \in Lists |->
                  CASE list = "outputs" -> <<Lit(seen, FALSE), Const(TRUE), Lit(0, TRUE)>>
                    [] list = "asserts" -> <<Lit(1, FALSE), Lit(seen, TRUE)>>
                    [] list = "covers" -> <<Lit(1, TRUE), Lit(seen, FALSE)>>
                    [] OTHER -> <<Lit(seen, TRUE)>>]]

(* The gate at 2 reads the gate at 4, the gate at 4 the one at 3.          *)
Backward == DesignOf(<<InputDriver,
                       LatchDriver(FALSE, Lit(2, TRUE), "1"),
                       GateDriver(FALSE, "And", Lit(0, FALSE), Lit(4, TRUE)),
                       GateDriver(TRUE, "Or", Lit(0, TRUE), Lit(1, FALSE)),
                       GateDriver(TRUE, "And", Lit(1, TRUE), Lit(3, FALSE))>>, 2)
Holed == DesignOf(<<InputDriver,
                    LatchDriver(TRUE, Lit(4, FALSE), "X"),
                    NoDriver,
                    GateDriver(FALSE, "Or", Lit(1, TRUE), Lit(4, TRUE)),
                    GateDriver(FALSE, "And", Lit(0, TRUE), Lit(1, FALSE))>>, 3)
LatchFirst == DesignOf(<<LatchDriver(FALSE, Lit(2, TRUE), "X"),
                         InputDriver,
                         GateDriver(TRUE, "Or", Lit(0, FALSE), Lit(1, TRUE))>>, 2)
Loop == DesignOf(<<InputDriver,
                   GateDriver(TRUE, "And", Lit(0, TRUE), Lit(2, TRUE)),
                   GateDriver(TRUE, "Or", Lit(0, TRUE), Lit(1, FALSE))>>, 2)
Bypass == DesignOf(<<LatchDriver(FALSE, Lit(1, FALSE), "1"), InputDriver>>, 0)
GateFirst == DesignOf(<<GateDriver(TRUE, "And", Const(TRUE), Lit(1, TRUE)), InputDriver>>, 0)

MCMachines == {Backward, Holed, LatchFirst, Loop, Bypass, GateFirst}
MCOptions == {[zeroInit |-> FALSE, assertion |-> 0, cover |-> 0],
              [zeroInit |-> TRUE, assertion |-> 2, cover |-> 0],
              [zeroInit |-> FALSE, assertion |-> 0, cover |-> 2],
              [zeroInit |-> FALSE, assertion |-> 1, cover |-> 1],
              [zeroInit |-> TRUE, assertion |-> 3, cover |-> 0],
              [zeroInit |-> TRUE, assertion |-> 0, cover |-> 3]}
================================================================================
