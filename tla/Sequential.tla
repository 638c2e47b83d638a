------------------------------- MODULE Sequential -------------------------------
(****************************************************************************)
(* sequential::analyze of verilator-parser: which designs are refused,      *)
(* which variables are registers and which are assigned non-blocking.       *)
(****************************************************************************)
EXTENDS Rtl

(* target_regions and collect_footprints: the bits a target may write.     *)
Regions(d, t) ==
  LET bits == 0 .. d.width[t.var] - 1
  IN CASE t.whole -> bits
       [] ~t.whole /\ t.at.op = "constant" ->
            {Number(t.at.value) * t.stride + t.lane} \cap bits
       [] OTHER -> {k \in bits : k % t.stride = t.lane}
Footprint(d, stmts) ==
  UNION {{s.target.var} \X Regions(d, s.target) : s \in Assignments(stmts)}

BlockingIn(processes) ==
  UNION {{s.target.var : s \in {s \in Assignments(processes[k]) : ~s.nonblocking}} :
           k \in DOMAIN processes}
NonblockingIn(processes) ==
  UNION {{s.target.var : s \in {s \in Assignments(processes[k]) : s.nonblocking}} :
           k \in DOMAIN processes}

(****************************************************************************)
(* analyze_statement: flow.assigned are the variables surely assigned so    *)
(* far, flow.live those that may be read before they are.                   *)
(****************************************************************************)
\* Mutant: assigned in one branch is assigned.
JoinedUnion(then, else) == then.assigned \cup else.assigned

Joined(then, else) == then.assigned \cap else.assigned

RECURSIVE Flow(_, _)
Flow(stmts, flow) ==
  IF stmts = <<>> THEN flow
  ELSE LET s == Head(stmts)
           live == flow.live \cup (ReadsHere(s) \ flow.assigned)
       IN Flow(Tail(stmts),
               IF s.kind = "if"
               THEN LET then == Flow(s.then, [flow EXCEPT !.live = live])
                        else == Flow(s.else, [flow EXCEPT !.live = then.live])
                    IN [assigned |-> Joined(then, else), live |-> else.live]
               ELSE [live |-> live,
                     assigned |-> flow.assigned \cup
                       (IF ~s.nonblocking /\ s.target.whole THEN {s.target.var} ELSE {})])
LiveIn(stmts) == Flow(stmts, [assigned |-> {}, live |-> {}]).live

--------------------------------------------------------------------------------
(* Two clocked processes may write the same bit.                           *)
Overlapping(d) ==
  \E p, q \in DOMAIN d.sequential :
    p # q /\ Footprint(d, d.sequential[p]) \cap Footprint(d, d.sequential[q]) # {}

Mixed(d) == BlockingIn(d.sequential) \cap NonblockingIn(d.sequential) # {}

(* A clocked process and combinational logic write one variable.           *)
DrivenTwice(d) == WritesOfAll(d.sequential) \cap WritesOfAll(d.combinational) # {}

Owners(d, v) ==
  {p \in DOMAIN d.sequential : \E bit \in Footprint(d, d.sequential[p]) : bit[1] = v}
\* Mutant: reads by other processes are not looked for.
CrossReadUnseen(d) == FALSE

(* A process reads a blocking-written variable another one also writes.    *)
CrossRead(d) ==
  \E v \in BlockingIn(d.sequential), p \in DOMAIN d.sequential :
    v \in Reads(d.sequential[p]) /\ Owners(d, v) \ {p} # {}

NonblockingOutside(d) == NonblockingIn(<<d.initial>> \o d.combinational) # {}

Accepted(d) == ~(Overlapping(d) \/ Mixed(d) \/ DrivenTwice(d) \/ CrossRead(d)
                 \/ NonblockingOutside(d))

--------------------------------------------------------------------------------
(* SequentialInfo.  A blocking variable that is neither live into its      *)
(* process nor seen outside needs no register.                             *)
SeenOutside(d) == ReadsOfAll(d.combinational) \cup ReadsOfSampled(d) \cup d.outputs
Held(d) ==
  UNION {LiveIn(d.sequential[p]) \cap Writes(d.sequential[p]) : p \in DOMAIN d.sequential}
\* Mutant: the values a process holds between edges are no registers.
RegistersWithoutHeld(d) ==
  (BlockingIn(d.sequential) \cap SeenOutside(d)) \cup NonblockingIn(d.sequential)

Registers(d) ==
  Held(d) \cup (BlockingIn(d.sequential) \cap SeenOutside(d)) \cup NonblockingIn(d.sequential)
================================================================================
