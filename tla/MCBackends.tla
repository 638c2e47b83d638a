------------------------------- MODULE MCBackends -------------------------------
(****************************************************************************)
(* Every pair of statements in one process or two, under combinational      *)
(* logic with and without an order, and the designs that show where the     *)
(* backends part.                                                           *)
(****************************************************************************)
EXTENDS Backends, Programs

(* c and o oscillate when a is 1, and settle when it is 0.                 *)
Oscillates ==
  <<<<Now(Whole("c"), ExclusiveOr("o", "a"))>>, <<Now(Whole("o"), Variable("c"))>>>>

(* The array is read by a block that stands before the one that fills it.  *)
ArrayReadFirst ==
  {Design(2, {"m"}, <<ReadsArray, FillsArray>>, <<<<Now(Whole("y"), Variable("a"))>>>>)}

MCDesigns ==
  {Design(2, {}, comb, seq) :
     comb \in {ShowsVector, ShowsWire}, seq \in OneProcess \cup TwoProcesses}
  \cup {Design(2, {"m"}, comb, seq) :
     comb \in {<<FillsArray, ReadsArray>>, Reverse(Chain(2)) \o <<ReadsArray>>},
     seq \in TwoProcesses}
  \cup {Design(2, {}, Chain(2) \o <<ReadsArray>>, seq) : seq \in TwoProcesses}
  \cup {Design(5, {}, Chain(5) \o <<ReadsArray>>, seq) : seq \in OneStatement}
  \cup {Design(4, {"m"}, ShowsVector, seq) : seq \in LaneProcesses}
  \cup {Initialized(Design(2, {}, ShowsWire, seq)) : seq \in OneStatement}
  \cup {Observed(Design(2, {}, ShowsWire, seq)) : seq \in TwoProcesses}
  \cup {Design(2, {}, Oscillates, seq) : seq \in OneStatement}
================================================================================
