------------------------------- MODULE MCSchedule -------------------------------
(****************************************************************************)
(* Two processes of up to three statements in all, over the small designs.  *)
(****************************************************************************)
EXTENDS Schedule, Programs

MCDesigns ==
  {Design(2, {}, ShowsWire, seq) : seq \in TwoProcesses \cup ThreeStatements}
  \cup {Design(4, {"m"}, ShowsVector, seq) : seq \in LanePairs}
================================================================================
