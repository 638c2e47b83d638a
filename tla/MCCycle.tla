-------------------------------- MODULE MCCycle --------------------------------
(****************************************************************************)
(* Ordered FSMs for Cycle: latches that swap through gates, a shift chain   *)
(* of three latches that must all move at once, a toggle, and one behind a  *)
(* constant gate at index 0.                                                *)
(****************************************************************************)
EXTENDS Cycle

(* The FSM with these drivers, exposing its last variable.                 *)
FsmOf(drivers) ==
  LET n == Len(drivers)
  IN [size |-> n,
      driver |-> [i \in 0 .. n - 1 |-> drivers[i + 1]],
      label |-> [i \in 0 .. n - 1 |-> i + 1],
      refs |-> [list \in Lists |-> <<Lit(n - 1, FALSE)>>]]

(* Two latches that swap through a negative AND and a positive OR.         *)
Swap == FsmOf(<<InputDriver,
                LatchDriver(FALSE, Lit(3, TRUE), "1"),
                LatchDriver(TRUE, Lit(1, FALSE), "X"),
                GateDriver(FALSE, "And", Lit(0, TRUE), Lit(2, TRUE)),
                GateDriver(TRUE, "Or", Lit(1, TRUE), Lit(3, FALSE))>>)
Shift == FsmOf(<<InputDriver,
                 LatchDriver(TRUE, Lit(0, TRUE), "1"),
                 LatchDriver(FALSE, Lit(1, TRUE), "0"),
                 LatchDriver(TRUE, Lit(2, FALSE), "X"),
                 GateDriver(TRUE, "And", Lit(1, TRUE), Lit(3, TRUE))>>)
Toggle == FsmOf(<<LatchDriver(FALSE, Lit(2, FALSE), "0"),
                  GateDriver(TRUE, "Or", Const(FALSE), Lit(0, FALSE)),
                  GateDriver(FALSE, "And", Lit(0, FALSE), Lit(1, TRUE))>>)
Behind == FsmOf(<<GateDriver(TRUE, "And", Const(TRUE), Const(FALSE)),
                  LatchDriver(TRUE, Lit(2, TRUE), "0"),
                  GateDriver(FALSE, "Or", Lit(0, TRUE), Lit(1, TRUE)),
                  GateDriver(TRUE, "And", Lit(1, FALSE), Lit(2, TRUE))>>)

MCMachines == {Swap, Shift, Toggle, Behind}
================================================================================
