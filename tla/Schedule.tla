-------------------------------- MODULE Schedule --------------------------------
(****************************************************************************)
(* A clock edge as SystemVerilog has it: the clocked processes run          *)
(* interleaved in any order, combinational blocks run whenever they like,   *)
(* blocking assignments are done at once and non-blocking ones are queued   *)
(* until all processes have ended.  It is the rule both backends claim to   *)
(* implement; the language, not this repository, defines it.                *)
(****************************************************************************)
EXTENDS Emitted

CONSTANT Designs

VARIABLES
  design,   \* the design
  before,   \* values at the edge, combinational logic settled
  env,      \* values now
  todo,     \* what is left of each process
  queue     \* non-blocking assignments not yet done

vars == <<design, before, env, todo, queue>>

(* Any value of what is not combinational, and a settled rest.             *)
Starts(d) ==
  LET order == OrderCombinational(d)
      pass(e) == RunPhase(order.blocks, e).env
      given(e) == [v \in Vars(d) |-> IF v \in DOMAIN e THEN e[v] ELSE Zero(d.width[v])]
  IN {CaptureSampled(d, pass(given(e))) :
        e \in Valuations(d, Vars(d) \ (WritesOfAll(d.combinational) \cup Sampled(d)))}

Init ==
  /\ design \in {d \in Designs : Accepted(d) /\ ~OrderCombinational(d).loop}
  /\ before \in Starts(design)
  /\ env = before
  /\ todo = design.sequential
  /\ queue = <<>>

(* The next statement of process p.                                        *)
Blocking(s) == Written(s.target, env[s.target.var], Eval(s.value, env), env)
Deferred(s) ==
  [target |-> [s.target EXCEPT !.at = Constant(Eval(s.target.at, env))],
   bits |-> Eval(s.value, env)]

Branch(p, s) ==
  /\ s.kind = "if"
  /\ todo' = [todo EXCEPT ![p] = (IF Truthy(Eval(s.condition, env)) THEN s.then ELSE s.else)
                                   \o Tail(@)]
  /\ UNCHANGED <<env, queue>>
AssignNow(p, s) ==
  /\ s.kind = "assign" /\ ~s.nonblocking
  /\ env' = [env EXCEPT ![s.target.var] = Blocking(s)]
  /\ todo' = [todo EXCEPT ![p] = Tail(@)]
  /\ UNCHANGED queue
AssignLater(p, s) ==
  /\ s.kind = "assign" /\ s.nonblocking
  /\ queue' = Append(queue, Deferred(s))
  /\ todo' = [todo EXCEPT ![p] = Tail(@)]
  /\ UNCHANGED env
Execute(p) ==
  /\ todo[p] # <<>>
  /\ LET s == Head(todo[p]) IN Branch(p, s) \/ AssignNow(p, s) \/ AssignLater(p, s)
  /\ UNCHANGED <<design, before>>

(* A combinational block is evaluated again.                               *)
Fire(k) ==
  /\ \E p \in DOMAIN todo : todo[p] # <<>>
  /\ env' = Run(design.combinational[k], [env |-> env, pending |-> env]).env
  /\ UNCHANGED <<design, before, todo, queue>>

(* All processes have ended: the oldest non-blocking assignment is done.   *)
Idle == \A p \in DOMAIN todo : todo[p] = <<>>
Commit ==
  /\ Idle /\ queue # <<>>
  /\ LET w == Head(queue)
         v == w.target.var
     IN env' = [env EXCEPT ![v] = Written(w.target, @, w.bits, env)]
  /\ queue' = Tail(queue)
  /\ UNCHANGED <<design, before, todo>>

Over == Idle /\ queue = <<>>
Stay == Over /\ UNCHANGED vars

Next ==
  \/ \E p \in DOMAIN todo : Execute(p)
  \/ \E k \in DOMAIN design.combinational : Fire(k)
  \/ Commit
  \/ Stay
Spec == Init /\ [][Next]_vars

--------------------------------------------------------------------------------
(* What blocking assignments of an edge reach through combinational logic. *)
Downstream(d) ==
  LET reach[n \in 0 .. Len(d.combinational)] ==
        IF n = 0 THEN BlockingIn(d.sequential)
        ELSE LET fed == {k \in DOMAIN d.combinational :
                           Reads(d.combinational[k]) \cap reach[n - 1] # {}}
             IN reach[n - 1] \cup UNION {Writes(d.combinational[k]) : k \in fed}
  IN reach[Len(d.combinational)] \cap WritesOfAll(d.combinational)
RacesThroughLogic(d) == Downstream(d) \cap ReadsOfAll(d.sequential) # {}

(* In every order of the processes the registers end with the values that  *)
(* the generated run_sequential gives them in one order: a race between    *)
(* processes that the analysis accepts goes through combinational logic.   *)
OrderIrrelevant == 
  Over /\ ~RacesThroughLogic(design) =>
    \A v \in Registers(design) : env[v] = RunSequential(design, before)[v]
================================================================================
