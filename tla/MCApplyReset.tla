----------------------------- MODULE MCApplyReset ------------------------------
(****************************************************************************)
(* Small designs with a reset input of either polarity: registers that      *)
(* reset, one that only a known register feeds, one held by its preset.     *)
(****************************************************************************)
EXTENDS ApplyReset

(* The FSM with these drivers, exposing its last variable.                 *)
FsmOf(drivers) ==
  LET n == Len(drivers)
  IN [size |-> n,
      driver |-> [i \in 0 .. n - 1 |-> drivers[i + 1]],
      label |-> [i \in 0 .. n - 1 |-> i + 1],
      refs |-> [list \in Lists |-> <<Lit(n - 1, FALSE)>>]]

(* q <= !reset_n ? 0 : d; p <= q | !d, neither with a preset.              *)
Pipeline == FsmOf(<<InputDriver,
                    LatchDriver(TRUE, Lit(4, TRUE), "X"),
                    InputDriver,
                    LatchDriver(FALSE, Lit(5, TRUE), "X"),
                    GateDriver(TRUE, "And", Lit(0, TRUE), Lit(2, TRUE)),
                    GateDriver(FALSE, "And", Lit(1, FALSE), Lit(2, TRUE))>>)
(* q keeps its preset under reset and toggles with d otherwise.            *)
Preset == FsmOf(<<LatchDriver(FALSE, Lit(3, FALSE), "1"),
                  InputDriver,
                  InputDriver,
                  GateDriver(FALSE, "Or", Lit(0, FALSE), Lit(1, TRUE)),
                  GateDriver(TRUE, "Or", Lit(0, TRUE), Lit(3, TRUE))>>)
(* An undriven index, and a preset that reset does not reach.              *)
Unreached == FsmOf(<<InputDriver, NoDriver, InputDriver,
                     LatchDriver(TRUE, Lit(2, TRUE), "0"),
                     GateDriver(TRUE, "And", Lit(0, TRUE), Lit(3, FALSE))>>)

MCCases == {[fsm |-> Pipeline, tied |-> 0, active |-> "0"],
            [fsm |-> Preset, tied |-> 1, active |-> "1"],
            [fsm |-> Preset, tied |-> 2, active |-> "1"],
            [fsm |-> Unreached, tied |-> 0, active |-> "1"]}
MCMachines == {c.fsm : c \in MCCases}
================================================================================
