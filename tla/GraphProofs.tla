------------------------------- MODULE GraphProofs -------------------------------
(****************************************************************************)
(* What Graph::build guarantees for every hierarchy.  expand leaves nodes   *)
(* which read only nodes that are there.  The depth-first walk of validate  *)
(* then decides: the nodes it lets pass have an order, and a combinational  *)
(* cycle it refuses is one.                                                *)
(****************************************************************************)
EXTENDS Graph, SequenceTheorems, FiniteSetTheorems, WellFoundedInduction, TLAPS

(****************************************************************************)
(* The inductive invariant of the expansion, over a file, its nodes ns and  *)
(* the calls fs of expand.  A call knows the results of its operations as   *)
(* far as they are declared, as many as each operation has; the node of a   *)
(* result knows which result it is; a call whose last operation is done and *)
(* is an output has as many outputs as its module; and a call that waits    *)
(* for an inner one is at an instance with the inner module's outputs.      *)
(****************************************************************************)
NodeFits(ns, n) ==
  /\ n = Node(n.type, n.driver, n.path, n.at)
  /\ n.driver.kind = "alias" => n.driver.of \in DOMAIN ns
  /\ n.driver.kind = "op" => n.driver.args \in Seq(DOMAIN ns)
NodesFit(ns) == IsList(ns) /\ \A id \in DOMAIN ns : NodeFits(ns, ns[id])

Frames(file, ns) ==
  [module : DOMAIN file.modules, bindings : Seq(DOMAIN ns), path : Seq(Nat),
   results : Seq(Seq(DOMAIN ns)), next : Nat, outputs : Seq(DOMAIN ns)]

ResultsFit(file, ns, f, i) ==
  /\ Len(f.results[i]) = Len(ResultTypes(file.modules[f.module].body[i]))
  /\ \A r \in 1 .. Len(f.results[i]) : ns[f.results[i][r]].at[2] = r

Complete(file, f) ==
  LET module == file.modules[f.module] IN
  f.next = Len(module.body) + 1 /\ module.body # <<>> /\ Last(module.body).kind = "Output" =>
    Len(f.outputs) = Len(module.outputs)

FrameFits(file, ns, f) ==
  LET ends == Len(file.modules[f.module].body) IN
  /\ f.next <= ends + 1 /\ Len(f.results) <= ends
  /\ f.next > 1 => Len(f.results) = ends
  /\ \A i \in 1 .. Len(f.results) : ResultsFit(file, ns, f, i)
  /\ Complete(file, f)

FrameWaits(file, f, inner) ==
  LET body == file.modules[f.module].body IN
  /\ f.next \in 1 .. Len(body) /\ Len(f.results) = Len(body)
  /\ body[f.next].kind = "Instance"
  /\ body[f.next].outputs = file.modules[inner.module].outputs

StackFits(file, ns, fs) ==
  /\ fs \in Seq(Frames(file, ns))
  /\ \A k \in 1 .. Len(fs) : FrameFits(file, ns, fs[k])
  /\ \A k \in 1 .. Len(fs) - 1 : FrameWaits(file, fs[k], fs[k + 1])

(* What operations of expand do to nodes: those there are stay, and each    *)
(* remembers which result it is.                                           *)
Extends(ns, ms) ==
  /\ Len(ns) <= Len(ms)
  /\ \A id \in 1 .. Len(ns) : ms[id].at = ns[id].at

FileFits(file) == \A k \in DOMAIN file.modules :
  LET module == file.modules[k] IN
  /\ IsList(module.inputs) /\ IsList(module.outputs) /\ IsList(module.body)
  /\ \A i \in DOMAIN module.body : IsList(module.body[i].args) /\ IsList(module.body[i].outputs)

Built ==
  /\ given \in Conversions /\ (pc = "refused" <=> refusal # "none")
  /\ pc = "start" => nodes = <<>> /\ outputs = <<>>
  /\ NodesFit(nodes) /\ StackFits(File, nodes, frames)
  /\ inputs \in Seq(DOMAIN nodes) /\ outputs \in Seq(DOMAIN nodes) /\ clock \in 0 .. Len(nodes)

--------------------------------------------------------------------------------
(* The last element of a sequence, and what is before it.                   *)
LEMMA FrontAndLast ==
  ASSUME NEW S, NEW s \in Seq(S), s # <<>>
  PROVE  /\ Len(s) \in Nat \ {0} /\ Last(s) = s[Len(s)] /\ Last(s) \in S
         /\ Front(s) \in Seq(S) /\ Len(Front(s)) = Len(s) - 1
         /\ \A j \in 1 .. Len(s) - 1 : Front(s)[j] = s[j]
<1>1. Len(s) \in Nat \ {0}
  BY EmptySeq
<1>2. \A j \in 1 .. Len(s) : s[j] \in S
  BY ElementOfSeq
<1> DEFINE n == Len(s) - 1
           f == SubSeq(s, 1, n)
<1>3. n \in Nat /\ \A j \in 1 .. n : s[j] \in S
  BY <1>1, <1>2
<1> HIDE DEF n
<1>4. /\ f \in Seq(S)
      /\ Len(f) = IF 1 <= n THEN n - 1 + 1 ELSE 0
      /\ \A j \in 1 .. n - 1 + 1 : f[j] = s[1 + j - 1]
  BY <1>3, SubSeqProperties
<1> HIDE DEF f
<1>5. Len(f) = n
  BY <1>3, <1>4
<1>6. ASSUME NEW j \in 1 .. n  PROVE  f[j] = s[j]
  <2>1. j \in 1 .. n - 1 + 1 /\ 1 + j - 1 = j
    BY <1>3
  <2> QED
    BY <2>1, <1>4
<1> USE DEF n, f
<1> QED
  BY <1>1, <1>2, <1>4, <1>5, <1>6 DEF Front, Last

(* The last element replaced.                                              *)
LEMMA LastReplaced ==
  ASSUME NEW S, NEW s \in Seq(S), s # <<>>, NEW e \in S
  PROVE  /\ Append(Front(s), e) \in Seq(S)
         /\ Len(Append(Front(s), e)) = Len(s)
         /\ \A j \in 1 .. Len(s) - 1 : Append(Front(s), e)[j] = s[j]
         /\ Append(Front(s), e)[Len(s)] = e
  BY FrontAndLast, AppendProperties

(* A sequence that is not empty holds its head and what its tail holds.     *)
LEMMA HeadOrTail ==
  ASSUME NEW S, NEW s \in Seq(S), s # <<>>
  PROVE  /\ Head(s) \in S /\ Tail(s) \in Seq(S)
         /\ ToSet(s) = {Head(s)} \cup ToSet(Tail(s))
<1>1. Len(s) \in Nat \ {0} /\ DOMAIN s = 1 .. Len(s)
  BY EmptySeq, LenProperties
<1>2. /\ Head(s) \in S /\ Tail(s) \in Seq(S) /\ Head(s) = s[1]
      /\ Len(Tail(s)) = Len(s) - 1
      /\ \A i \in 1 .. Len(Tail(s)) : Tail(s)[i] = s[i + 1]
  BY HeadTailProperties
<1>3. DOMAIN Tail(s) = 1 .. Len(s) - 1
  BY <1>2, LenProperties
<1>4. ASSUME NEW i \in 1 .. Len(s)  PROVE  s[i] \in {Head(s)} \cup ToSet(Tail(s))
  <2>1. CASE i = 1
    BY <2>1, <1>2
  <2>2. CASE i # 1
    <3>1. i - 1 \in 1 .. Len(s) - 1 /\ Tail(s)[i - 1] = s[i]
      BY <2>2, <1>1, <1>2
    <3> QED
      BY <3>1, <1>3 DEF ToSet
  <2> QED
    BY <2>1, <2>2
<1>5. ASSUME NEW i \in 1 .. Len(s) - 1  PROVE  Tail(s)[i] \in ToSet(s)
  <2>1. Tail(s)[i] = s[i + 1] /\ i + 1 \in 1 .. Len(s)
    BY <1>1, <1>2
  <2> QED
    BY <2>1, <1>1 DEF ToSet
<1>6. Head(s) \in ToSet(s)
  BY <1>1, <1>2 DEF ToSet
<1> QED
  BY <1>1, <1>2, <1>3, <1>4, <1>5, <1>6 DEF ToSet

(* A sequence of Seq(S) holds members of S.                                *)
LEMMA ToSetInside ==
  ASSUME NEW S, NEW s \in Seq(S)
  PROVE  ToSet(s) \subseteq S /\ (s = <<>> <=> ToSet(s) = {})
  BY LenProperties, ElementOfSeq, EmptySeq DEF ToSet

(* Every non-empty set of naturals has a least member, which Min picks.     *)
LEMMA MinOfNaturals ==
  ASSUME NEW T, T \subseteq Nat, T # {}
  PROVE  Min(T) \in T
<1>1. PICK x \in T : \A y \in T : ~ (<<y, x>> \in OpToRel(<, Nat))
  BY NatLessThanWellFounded, WFMin
<1>2. \A y \in T : ~ (y < x)
  BY <1>1 DEF OpToRel
<1>3. \A y \in T : x <= y
  BY <1>2
<1> QED
  BY <1>1, <1>3 DEF Min

(* The parts of a list.                                                    *)
LEMMA ListParts ==
  ASSUME NEW s, IsList(s)
  PROVE  Len(s) \in Nat /\ DOMAIN s = 1 .. Len(s) /\ (s # <<>> => Len(s) # 0)
  BY LenProperties, EmptySeq DEF IsList

(* What is indexed by 1 .. n is a list of n elements.                       *)
LEMMA FunctionIsList ==
  ASSUME NEW S, NEW n \in Nat, NEW s \in [1 .. n -> S]
  PROVE  s \in Seq(S) /\ Len(s) = n /\ IsList(s)
<1>1. s \in Seq(S)
  BY SeqDef
<1>2. s \in [1 .. n -> ToSet(s)]
  BY DEF ToSet
<1>3. s \in Seq(ToSet(s))
  BY <1>2, SeqDef
<1> QED
  BY <1>1, <1>3, LenProperties DEF IsList

(* A list of members of S.                                                 *)
LEMMA ListOf ==
  ASSUME NEW S, NEW s, IsList(s), \A k \in 1 .. Len(s) : s[k] \in S
  PROVE  s \in Seq(S)
<1>1. s \in [1 .. Len(s) -> ToSet(s)] /\ Len(s) \in Nat
  BY LenProperties DEF IsList
<1>2. s \in [1 .. Len(s) -> S]
  BY <1>1
<1> QED
  BY <1>1, <1>2, FunctionIsList

(* A sequence is a list.                                                   *)
LEMMA SeqIsList ==
  ASSUME NEW S, NEW s \in Seq(S)
  PROVE  IsList(s)
  BY LenProperties, FunctionIsList

(* One list after another.                                                 *)
Joined(u, s, t) ==
  /\ IsList(u) /\ Len(u) = Len(s) + Len(t)
  /\ \A k \in 1 .. Len(s) : u[k] = s[k]
  /\ \A k \in 1 .. Len(t) : u[Len(s) + k] = t[k]

LEMMA ConcatIsList ==
  ASSUME NEW s, IsList(s), NEW t, IsList(t)
  PROVE  Joined(s \o t, s, t)
<1> DEFINE S == ToSet(s) \cup ToSet(t)
<1>1. s \in Seq(S) /\ t \in Seq(S)
  BY SeqMonotonic DEF IsList
<1>2. Len(s) \in Nat /\ Len(t) \in Nat
  BY ListParts
<1>3. /\ s \o t \in Seq(S) /\ Len(s \o t) = Len(s) + Len(t)
      /\ \A i \in 1 .. Len(s) + Len(t) :
           (s \o t)[i] = IF i <= Len(s) THEN s[i] ELSE t[i - Len(s)]
  BY <1>1, ConcatProperties
<1>4. ASSUME NEW k \in 1 .. Len(s)  PROVE (s \o t)[k] = s[k]
  <2>1. k \in 1 .. Len(s) + Len(t) /\ k <= Len(s)
    BY <1>2
  <2> QED
    BY <2>1, <1>3
<1>5. ASSUME NEW k \in 1 .. Len(t)  PROVE (s \o t)[Len(s) + k] = t[k]
  <2>1. /\ Len(s) + k \in 1 .. Len(s) + Len(t) /\ ~(Len(s) + k <= Len(s))
        /\ Len(s) + k - Len(s) = k
    BY <1>2
  <2> QED
    BY <2>1, <1>3
<1>6. IsList(s \o t)
  BY <1>3, SeqIsList
<1> QED
  BY <1>3, <1>4, <1>5, <1>6 DEF Joined

(* The results of an operation are a list: those of an instance as many as  *)
(* it has outputs, one of every operation that gets a driver.               *)
LEMMA ResultTypesLength ==
  ASSUME NEW op, IsList(op.outputs)
  PROVE  /\ IsList(ResultTypes(op))
         /\ op.kind = "Instance" => Len(ResultTypes(op)) = Len(op.outputs)
         /\ op.kind \notin {"Instance", "Output", "Property"} => Len(ResultTypes(op)) = 1
<1>1. ASSUME NEW t  PROVE IsList(<<t>>) /\ Len(<<t>>) = 1
  <2>1. <<t>> \in [1 .. 1 -> {t}]
    OBVIOUS
  <2> QED
    BY <2>1, FunctionIsList
<1>2. IsList(<<>>)
  BY EmptySeq, SeqIsList
<1>3. CASE op.kind \in {"Output", "Property"}
  BY <1>2, <1>3 DEF ResultTypes
<1>4. CASE op.kind = "Instance"
  <2> DEFINE types == [k \in DOMAIN op.outputs |-> op.outputs[k].type]
  <2> DEFINE T == {op.outputs[k].type : k \in 1 .. Len(op.outputs)}
  <2>1. Len(op.outputs) \in Nat /\ types \in [1 .. Len(op.outputs) -> T]
    BY ListParts
  <2> HIDE DEF types, T
  <2>2. IsList(types) /\ Len(types) = Len(op.outputs)
    BY <2>1, FunctionIsList
  <2> USE DEF types
  <2>3. ResultTypes(op) = types
    BY <1>4 DEF ResultTypes
  <2> QED
    BY <1>4, <2>2, <2>3
<1>5. CASE op.kind \notin {"Instance", "Output", "Property"}
  <2>1. \E t : ResultTypes(op) = <<t>>
    BY <1>5 DEF ResultTypes
  <2> QED
    BY <1>1, <1>5, <2>1
<1> QED
  BY <1>3, <1>4, <1>5

--------------------------------------------------------------------------------
(* A call fits when it starts.                                             *)
LEMMA CallStarts ==
  ASSUME NEW file, NEW ns, NEW k, Len(file.modules[k].body) \in Nat, NEW bindings, NEW path
  PROVE  FrameFits(file, ns, Frame(k, bindings, path))
<1> DEFINE e == Frame(k, bindings, path)
<1>1. e.next = 0 /\ e.results = <<>> /\ e.module = k
  BY DEF Frame
<1>2. Len(e.results) = 0
  BY <1>1, EmptySeq
<1> HIDE DEF e
<1>3. Complete(file, e)
  BY <1>1 DEF Complete
<1>4. FrameFits(file, ns, e)
  BY <1>1, <1>2, <1>3 DEF FrameFits
<1> QED
  BY <1>4 DEF e

(* What a call needs of the nodes it keeps when more are declared.          *)
LEMMA CallSurvives ==
  ASSUME NEW file, NEW ns, NEW ms, IsList(ns), IsList(ms), Extends(ns, ms),
         NEW f \in Frames(file, ns), FrameFits(file, ns, f)
  PROVE  f \in Frames(file, ms) /\ FrameFits(file, ms, f)
<1>1. DOMAIN ns \subseteq DOMAIN ms /\ DOMAIN ns = 1 .. Len(ns)
  BY ListParts DEF Extends
<1>2. /\ f.module \in DOMAIN file.modules /\ f.bindings \in Seq(DOMAIN ns) /\ f.path \in Seq(Nat)
      /\ f.results \in Seq(Seq(DOMAIN ns)) /\ f.next \in Nat /\ f.outputs \in Seq(DOMAIN ns)
      /\ f = [module |-> f.module, bindings |-> f.bindings, path |-> f.path,
              results |-> f.results, next |-> f.next, outputs |-> f.outputs]
  BY DEF Frames
<1>3. Seq(DOMAIN ns) \subseteq Seq(DOMAIN ms)
  BY <1>1, SeqMonotonic
<1>4. f.results \in Seq(Seq(DOMAIN ms))
  BY <1>2, <1>3, SeqMonotonic
<1>5. f \in Frames(file, ms)
  BY <1>2, <1>3, <1>4 DEF Frames
<1>6. ASSUME NEW i \in 1 .. Len(f.results)  PROVE ResultsFit(file, ms, f, i)
  <2>1. ResultsFit(file, ns, f, i) /\ f.results[i] \in Seq(DOMAIN ns)
    BY <1>2, ElementOfSeq DEF FrameFits
  <2>2. \A r \in 1 .. Len(f.results[i]) : f.results[i][r] \in 1 .. Len(ns)
    BY <1>1, <2>1, ElementOfSeq
  <2> QED
    BY <2>1, <2>2 DEF ResultsFit, Extends
<1> QED
  BY <1>5, <1>6 DEF FrameFits

LEMMA StackSurvives ==
  ASSUME NEW file, NEW ns, NEW ms, IsList(ns), IsList(ms), Extends(ns, ms),
         NEW fs, StackFits(file, ns, fs)
  PROVE  StackFits(file, ms, fs)
<1>1. fs \in Seq(Frames(file, ns)) /\ Len(fs) \in Nat
  BY LenProperties DEF StackFits
<1>2. ASSUME NEW k \in 1 .. Len(fs)  PROVE fs[k] \in Frames(file, ms) /\ FrameFits(file, ms, fs[k])
  <2>1. fs[k] \in Frames(file, ns) /\ FrameFits(file, ns, fs[k])
    BY <1>1, ElementOfSeq DEF StackFits
  <2> QED
    BY <2>1, CallSurvives
<1>3. fs \in Seq(Frames(file, ms))
  BY <1>1, <1>2, SeqIsList, ListOf
<1> QED
  BY <1>2, <1>3 DEF StackFits

(* The innermost call is replaced by one in the same module.                *)
LEMMA CallReplaced ==
  ASSUME NEW file, NEW ns, NEW fs, StackFits(file, ns, fs), fs # <<>>,
         NEW e \in Frames(file, ns), FrameFits(file, ns, e), e.module = Last(fs).module
  PROVE  StackFits(file, ns, Append(Front(fs), e))
<1> DEFINE gs == Append(Front(fs), e)
           n == Len(fs)
           F == Frames(file, ns)
<1>1. fs \in Seq(F)
  BY DEF StackFits
<1>2. /\ n \in Nat \ {0} /\ Last(fs) = fs[n] /\ gs \in Seq(F) /\ Len(gs) = n
      /\ \A k \in 1 .. n - 1 : gs[k] = fs[k]
      /\ gs[n] = e
  BY <1>1, FrontAndLast, LastReplaced
<1> HIDE DEF gs, F
<1>3. ASSUME NEW k \in 1 .. n  PROVE FrameFits(file, ns, gs[k])
  <2>1. k = n \/ k \in 1 .. n - 1
    BY <1>2
  <2> QED
    BY <2>1, <1>2 DEF StackFits
<1>4. ASSUME NEW k \in 1 .. n - 1  PROVE FrameWaits(file, gs[k], gs[k + 1])
  <2>1. FrameWaits(file, fs[k], fs[k + 1]) /\ gs[k] = fs[k]
    BY <1>2 DEF StackFits
  <2>2. gs[k + 1].module = fs[k + 1].module
    <3>1. k + 1 = n \/ k + 1 \in 1 .. n - 1
      BY <1>2
    <3> QED
      BY <3>1, <1>2
  <2> QED
    BY <2>1, <2>2 DEF FrameWaits
<1> QED
  BY <1>2, <1>3, <1>4 DEF StackFits, gs, F

(* A call is made by one that waits for it.                                 *)
LEMMA CallMade ==
  ASSUME NEW file, NEW ns, NEW fs, StackFits(file, ns, fs), fs # <<>>,
         NEW e \in Frames(file, ns), FrameFits(file, ns, e), FrameWaits(file, Last(fs), e)
  PROVE  StackFits(file, ns, Append(fs, e))
<1> DEFINE gs == Append(fs, e)
           n == Len(fs)
           F == Frames(file, ns)
<1>1. fs \in Seq(F)
  BY DEF StackFits
<1>2. n \in Nat \ {0} /\ Last(fs) = fs[n]
  BY <1>1, FrontAndLast
<1>3. /\ gs \in Seq(F) /\ Len(gs) = n + 1
      /\ \A k \in 1 .. n : gs[k] = fs[k]
      /\ gs[n + 1] = e
  BY <1>1, AppendProperties
<1> HIDE DEF gs, F
<1>4. ASSUME NEW k \in 1 .. n + 1  PROVE FrameFits(file, ns, gs[k])
  <2>1. k = n + 1 \/ k \in 1 .. n
    BY <1>2
  <2> QED
    BY <2>1, <1>3 DEF StackFits
<1>5. ASSUME NEW k \in 1 .. n  PROVE FrameWaits(file, gs[k], gs[k + 1])
  <2>1. CASE k = n
    BY <2>1, <1>2, <1>3
  <2>2. CASE k \in 1 .. n - 1
    <3>1. k + 1 \in 1 .. n
      BY <2>2, <1>2
    <3> QED
      BY <2>2, <3>1, <1>3 DEF StackFits
  <2> QED
    BY <2>1, <2>2, <1>2
<1>6. Len(gs) - 1 = n
  BY <1>2, <1>3
<1> QED
  BY <1>3, <1>4, <1>5, <1>6 DEF StackFits, gs, F

(* The innermost call ends.                                                *)
LEMMA CallEnded ==
  ASSUME NEW file, NEW ns, NEW fs, StackFits(file, ns, fs), fs # <<>>
  PROVE  StackFits(file, ns, Front(fs))
<1> DEFINE gs == Front(fs)
           n == Len(fs)
<1>1. fs \in Seq(Frames(file, ns))
  BY DEF StackFits
<1>2. /\ n \in Nat \ {0} /\ gs \in Seq(Frames(file, ns)) /\ Len(gs) = n - 1
      /\ \A k \in 1 .. n - 1 : gs[k] = fs[k]
  BY <1>1, FrontAndLast
<1> HIDE DEF gs
<1>3. ASSUME NEW k \in 1 .. n - 1  PROVE FrameFits(file, ns, gs[k])
  <2>1. k \in 1 .. n
    BY <1>2
  <2> QED
    BY <2>1, <1>2 DEF StackFits
<1>4. ASSUME NEW k \in 1 .. n - 1 - 1  PROVE FrameWaits(file, gs[k], gs[k + 1])
  <2>1. k \in 1 .. n - 1 /\ k + 1 \in 1 .. n - 1
    BY <1>2
  <2> QED
    BY <2>1, <1>2 DEF StackFits
<1> QED
  BY <1>2, <1>3, <1>4 DEF StackFits, gs

--------------------------------------------------------------------------------
(* A refusal leaves what is built.                                         *)
LEMMA RefusalKeeps ==
  ASSUME Built, NEW why, why # "none", Refuse(why)
  PROVE  Built'
<1>1. UNCHANGED <<given, nodes, frames, inputs, outputs, clock>> /\ pc' = "refused" /\ refusal' # "none"
  BY DEF Refuse, buildVars
<1>2. NodesFit(nodes)' /\ StackFits(File, nodes, frames)'
  BY <1>1 DEF Built, File
<1> QED
  BY <1>1, <1>2 DEF Built

(* So much for a step of expand that does not refuse.                       *)
LEMMA StepKeeps ==
  ASSUME Built, pc = "expand", pc' \in {"expand", "visit"}, UNCHANGED <<given, refusal, inputs, clock>>,
         NodesFit(nodes'), Extends(nodes, nodes'), StackFits(File, nodes', frames'),
         outputs' \in Seq(DOMAIN nodes)
  PROVE  Built'
<1>1. IsList(nodes) /\ IsList(nodes')
  BY DEF Built, NodesFit
<1>2. /\ DOMAIN nodes = 1 .. Len(nodes) /\ DOMAIN nodes' = 1 .. Len(nodes')
      /\ Len(nodes) \in Nat /\ Len(nodes') \in Nat /\ Len(nodes) <= Len(nodes')
  BY <1>1, ListParts DEF Extends
<1>3. DOMAIN nodes \subseteq DOMAIN nodes'
  BY <1>2
<1>4. inputs' \in Seq(DOMAIN nodes') /\ outputs' \in Seq(DOMAIN nodes')
  <2>1. inputs \in Seq(DOMAIN nodes) /\ outputs' \in Seq(DOMAIN nodes)
    BY DEF Built
  <2> QED
    BY <1>3, <2>1, SeqMonotonic
<1>5. clock' \in 0 .. Len(nodes')
  BY <1>2 DEF Built
<1>6. given' \in Conversions /\ File' = File
  BY DEF Built, File
<1>7. pc' # "refused" /\ refusal' = "none" /\ pc' # "start"
  BY DEF Built
<1> QED
  BY <1>4, <1>5, <1>6, <1>7 DEF Built

(* The nodes of the ports of the top module, and the outermost call.        *)
LEMMA StartKeeps ==
  ASSUME Built, Start
  PROVE  Built'
<1> DEFINE tops == Candidates(File, given.top)
           top == CHOOSE k \in tops : TRUE
           ports == Module(top).inputs
           n == Len(ports)
<1>1. pc = "start" /\ refusal = "none" /\ nodes = <<>> /\ outputs = <<>> /\ given \in Conversions
  BY DEF Built, Start
<1>2. CASE Duplicates(File) \/ Cardinality(tops) # 1 \/ ~OptionsFit(ports)
  BY <1>2, RefusalKeeps DEF Start
<1>3. CASE ~(Duplicates(File) \/ Cardinality(tops) # 1 \/ ~OptionsFit(ports))
  <2>1. /\ pc' = "expand" /\ UNCHANGED <<given, refusal, outputs>>
        /\ nodes' = [k \in DOMAIN ports |-> Node(ports[k].type, Input, <<>>, <<0, k>>)]
        /\ inputs' = [k \in DOMAIN ports |-> k]
        /\ clock' = CHOOSE k \in DOMAIN ports : ports[k].name = given.clock
        /\ frames' = <<Frame(top, inputs', <<>>)>>
    BY <1>3 DEF Start
  <2>2. top \in DOMAIN File.modules
    <3>1. tops # {}
      BY <1>3, FS_EmptySet
    <3>2. tops \subseteq DOMAIN File.modules
      BY DEF Candidates
    <3> QED
      BY <3>1, <3>2
  <2> HIDE DEF top
  <2>3. IsList(ports) /\ IsList(File.modules[top].body)
    BY <1>1, <2>2, ConversionsAssumption DEF File, Module
  <2>4. n \in Nat /\ DOMAIN ports = 1 .. n /\ Len(File.modules[top].body) \in Nat
    BY <2>3, ListParts
  <2>5. \E k \in DOMAIN ports : ports[k].name = given.clock
    BY <1>3 DEF OptionsFit
  <2>6. clock' \in 1 .. n
    BY <2>1, <2>4, <2>5
  <2> HIDE DEF ports, n
  <2>7. DOMAIN nodes' = 1 .. n /\ IsList(nodes') /\ Len(nodes') = n
    <3> DEFINE T == {nodes'[k] : k \in 1 .. n}
    <3>1. nodes' \in [1 .. n -> T] /\ DOMAIN nodes' = 1 .. n
      BY <2>1, <2>4
    <3> HIDE DEF T
    <3> QED
      BY <3>1, <2>4, FunctionIsList
  <2>8. NodesFit(nodes')
    <3>1. ASSUME NEW k \in 1 .. n  PROVE NodeFits(nodes', nodes'[k])
      <4>1. PICK t : nodes'[k] = Node(t, Input, <<>>, <<0, k>>)
        BY <2>1, <2>4
      <4> QED
        BY <4>1 DEF NodeFits, Node, Input
    <3> QED
      BY <2>7, <3>1 DEF NodesFit
  <2>9. inputs' \in Seq(DOMAIN nodes')
    <3>1. inputs' \in [1 .. n -> 1 .. n]
      BY <2>1, <2>4
    <3> QED
      BY <2>4, <2>7, <3>1, FunctionIsList
  <2> DEFINE e == Frame(top, inputs', <<>>)
  <2>10. e \in Frames(File, nodes')
    <3>1. /\ <<>> \in Seq(DOMAIN nodes') /\ <<>> \in Seq(Seq(DOMAIN nodes')) /\ <<>> \in Seq(Nat)
      BY EmptySeq
    <3> QED
      BY <2>2, <2>9, <3>1 DEF Frame, Frames
  <2>11. FrameFits(File, nodes', e)
    BY <2>4, CallStarts
  <2> HIDE DEF e
  <2>12. StackFits(File, nodes', frames')
    <3>1. frames' = <<e>>
      BY <2>1 DEF e
    <3>2. frames' \in Seq(Frames(File, nodes')) /\ Len(frames') = 1 /\ frames'[1] = e
      BY <2>10, <3>1
    <3> QED
      BY <2>11, <3>2 DEF StackFits
  <2>13. outputs' \in Seq(DOMAIN nodes')
    BY <1>1, <2>1, EmptySeq
  <2>14. File' = File /\ given' \in Conversions /\ pc' = "expand" /\ refusal' = "none"
    BY <1>1, <2>1 DEF File
  <2>15. clock' \in 0 .. Len(nodes')
    BY <2>4, <2>6, <2>7
  <2> QED
    BY <2>8, <2>9, <2>12, <2>13, <2>14, <2>15 DEF Built
<1> QED
  BY <1>2, <1>3

(* The innermost call, its module and the operation it is at.               *)
LEMMA CallParts ==
  ASSUME Built, frames # <<>>
  PROVE  /\ Len(frames) \in Nat \ {0} /\ Call = frames[Len(frames)]
         /\ Call \in Frames(File, nodes) /\ FrameFits(File, nodes, Call)
         /\ FileFits(File) /\ Body = File.modules[Call.module].body
         /\ IsList(Body) /\ IsList(nodes)
<1>1. frames \in Seq(Frames(File, nodes)) /\ IsList(nodes) /\ given \in Conversions
  BY DEF Built, StackFits, NodesFit
<1>2. /\ Len(frames) \in Nat \ {0} /\ Call = frames[Len(frames)]
      /\ Call \in Frames(File, nodes)
  BY <1>1, FrontAndLast DEF Call
<1>3. FrameFits(File, nodes, Call)
  BY <1>2 DEF Built, StackFits
<1>4. FileFits(File)
  BY <1>1, ConversionsAssumption DEF FileFits, File
<1>5. Body = File.modules[Call.module].body /\ Call.module \in DOMAIN File.modules
  BY <1>2 DEF Body, Module, Frames
<1> QED
  BY <1>1, <1>2, <1>3, <1>4, <1>5 DEF FileFits

(* Fields of a call replaced.                                              *)
LEMMA ReplaceKeeps ==
  ASSUME Built, pc = "expand", frames # <<>>, UNCHANGED <<given, pc, refusal, inputs, outputs, clock>>,
         NodesFit(nodes'), Extends(nodes, nodes'),
         NEW e, frames' = CallWith(e), e.module = Call.module,
         e \in Frames(File, nodes'), FrameFits(File, nodes', e)
  PROVE  Built'
<1>1. IsList(nodes) /\ IsList(nodes') /\ StackFits(File, nodes, frames)
  BY DEF Built, NodesFit
<1>2. StackFits(File, nodes', frames)
  BY <1>1, StackSurvives
<1>3. StackFits(File, nodes', frames')
  BY <1>2, CallReplaced DEF CallWith, Call
<1> QED
  BY <1>3, StepKeeps DEF Built

LEMMA EnterKeeps ==
  ASSUME Built, Enter
  PROVE  Built'
<1>1. pc = "expand" /\ frames # <<>> /\ Call.next = 0
  BY DEF Enter
<1>2. CASE Stacked(Call.module) \/ Module(Call.module).external
  BY <1>2, RefusalKeeps DEF Enter
<1>3. CASE ~(Stacked(Call.module) \/ Module(Call.module).external)
  <2> DEFINE e == [Call EXCEPT !.next = 1]
  <2>1. frames' = CallWith(e) /\ UNCHANGED <<given, pc, refusal, nodes, inputs, outputs, clock>>
    BY <1>3 DEF Enter, buildVars
  <2>2. NodesFit(nodes') /\ Extends(nodes, nodes')
    BY <2>1, ListParts DEF Built, NodesFit, Extends
  <2>3. Call \in Frames(File, nodes') /\ FrameFits(File, nodes', Call) /\ IsList(Body)
        /\ Body = File.modules[Call.module].body
    BY <1>1, <2>1, CallParts
  <2>4. e \in Frames(File, nodes') /\ e.module = Call.module
    BY <2>3 DEF Frames
  <2>5. FrameFits(File, nodes', e)
    <3>1. /\ e.next = 1 /\ e.results = Call.results /\ e.module = Call.module /\ e.outputs = Call.outputs
      BY <2>3 DEF Frames
    <3>2. Len(Body) \in Nat /\ (Body # <<>> => Len(Body) # 0)
      BY <2>3, ListParts
    <3> HIDE DEF e
    <3>3. Complete(File, e)
      BY <2>3, <3>1, <3>2 DEF Complete
    <3>4. \A i \in 1 .. Len(e.results) : ResultsFit(File, nodes', e, i)
      BY <2>3, <3>1 DEF FrameFits, ResultsFit
    <3> QED
      BY <2>3, <3>1, <3>2, <3>3, <3>4 DEF FrameFits
  <2> HIDE DEF e
  <2> QED
    BY <1>1, <2>1, <2>2, <2>4, <2>5, ReplaceKeeps
<1> QED
  BY <1>2, <1>3

(* Pending nodes put after those there are.                                *)
PendingNodes(types, path, i) == [r \in DOMAIN types |-> Node(types[r], Pending, path, <<i, r>>)]

HoldsDeclared(ms, ns, types) ==
  /\ NodesFit(ms) /\ Extends(ns, ms) /\ Len(ms) = Len(ns) + Len(types)
  /\ \A r \in 1 .. Len(types) : ms[Len(ns) + r].at[2] = r

LEMMA DeclaredFit ==
  ASSUME NEW ns, NodesFit(ns), NEW types, IsList(types), NEW path, NEW i,
         NEW ms, ms = ns \o PendingNodes(types, path, i)
  PROVE  HoldsDeclared(ms, ns, types)
<1> DEFINE new == PendingNodes(types, path, i)
           T == {new[r] : r \in 1 .. Len(types)}
<1>1. Len(types) \in Nat /\ DOMAIN types = 1 .. Len(types) /\ Len(ns) \in Nat /\ DOMAIN ns = 1 .. Len(ns)
  BY ListParts DEF NodesFit
<1>2. new \in [1 .. Len(types) -> T]
  BY <1>1 DEF PendingNodes
<1>3. \A r \in 1 .. Len(types) : new[r] = Node(types[r], Pending, path, <<i, r>>)
  BY <1>1 DEF PendingNodes
<1>4. ms = ns \o new /\ IsList(ns)
  BY DEF NodesFit
<1> HIDE DEF new, T
<1>41. IsList(new) /\ Len(new) = Len(types)
  BY <1>1, <1>2, FunctionIsList
<1>5. /\ IsList(ms) /\ Len(ms) = Len(ns) + Len(types)
      /\ \A k \in 1 .. Len(ns) : ms[k] = ns[k]
      /\ \A k \in 1 .. Len(types) : ms[Len(ns) + k] = new[k]
  <2>1. Joined(ms, ns, new)
    BY <1>4, <1>41, ConcatIsList
  <2> QED
    BY <2>1, <1>41 DEF Joined
<1>6. DOMAIN ms = 1 .. Len(ns) + Len(types) /\ DOMAIN ns \subseteq DOMAIN ms
  BY <1>1, <1>5, ListParts
<1>7. ASSUME NEW id \in DOMAIN ms  PROVE NodeFits(ms, ms[id])
  <2>1. CASE id \in 1 .. Len(ns)
    <3>1. NodeFits(ns, ns[id]) /\ ms[id] = ns[id]
      BY <2>1, <1>1, <1>5 DEF NodesFit
    <3>2. Seq(DOMAIN ns) \subseteq Seq(DOMAIN ms)
      BY <1>6, SeqMonotonic
    <3> QED
      BY <3>1, <3>2, <1>6 DEF NodeFits
  <2>2. CASE id \notin 1 .. Len(ns)
    <3>1. id - Len(ns) \in 1 .. Len(types) /\ id = Len(ns) + (id - Len(ns))
      BY <2>2, <1>1, <1>6
    <3>2. ms[id] = new[id - Len(ns)]
      BY <3>1, <1>5
    <3>3. PICK r : ms[id] = Node(types[r], Pending, path, <<i, r>>)
      BY <3>1, <3>2, <1>3
    <3> QED
      BY <3>3 DEF NodeFits, Node, Pending
  <2> QED
    BY <2>1, <2>2
<1>8. ASSUME NEW r \in 1 .. Len(types)  PROVE ms[Len(ns) + r].at[2] = r
  <2>1. ms[Len(ns) + r] = Node(types[r], Pending, path, <<i, r>>)
    BY <1>3, <1>5
  <2>2. ms[Len(ns) + r].at = <<i, r>>
    BY <2>1 DEF Node
  <2> QED
    BY <2>2
<1>9. Extends(ns, ms)
  BY <1>1, <1>5 DEF Extends
<1> QED
  BY <1>5, <1>7, <1>8, <1>9 DEF NodesFit, HoldsDeclared

LEMMA DeclareKeeps ==
  ASSUME Built, Declare
  PROVE  Built'
<1> DEFINE i == Len(Call.results) + 1
           types == ResultTypes(Body[i])
           ids == ResultIds(types)
           e == [Call EXCEPT !.results = Append(@, ids)]
<1>1. /\ pc = "expand" /\ frames # <<>> /\ Call.next = 1 /\ Len(Call.results) < Len(Body)
      /\ nodes' = nodes \o PendingNodes(types, Call.path, i)
      /\ frames' = CallWith(e)
      /\ UNCHANGED <<given, pc, refusal, inputs, outputs, clock>>
  BY DEF Declare, buildVars, PendingNodes
<1>2. /\ Call \in Frames(File, nodes) /\ FrameFits(File, nodes, Call) /\ FileFits(File)
      /\ Body = File.modules[Call.module].body /\ IsList(Body) /\ IsList(nodes)
  BY <1>1, CallParts
<1>3. Len(Body) \in Nat /\ DOMAIN Body = 1 .. Len(Body) /\ Len(Call.results) \in Nat /\ i \in 1 .. Len(Body)
  <2>1. Len(Body) \in Nat /\ DOMAIN Body = 1 .. Len(Body)
    BY <1>2, ListParts
  <2>2. Len(Call.results) \in Nat
    BY <1>2, LenProperties DEF Frames
  <2> QED
    BY <1>1, <2>1, <2>2
<1>4. IsList(types)
  <2>1. IsList(Body[i].outputs)
    BY <1>2, <1>3 DEF FileFits, Frames
  <2> QED
    BY <2>1, ResultTypesLength
<1> HIDE DEF types
<1>5. /\ NodesFit(nodes') /\ Extends(nodes, nodes') /\ Len(nodes') = Len(nodes) + Len(types)
      /\ \A r \in 1 .. Len(types) : nodes'[Len(nodes) + r].at[2] = r
  <2> HIDE DEF i
  <2>1. NodesFit(nodes)
    BY DEF Built
  <2>2. HoldsDeclared(nodes', nodes, types)
    BY <1>1, <1>4, <2>1, DeclaredFit
  <2> QED
    BY <2>2 DEF HoldsDeclared
<1>6. /\ Len(nodes) \in Nat /\ Len(types) \in Nat /\ DOMAIN types = 1 .. Len(types)
      /\ DOMAIN nodes' = 1 .. Len(nodes')
  BY <1>2, <1>4, <1>5, ListParts DEF NodesFit
<1>7. /\ ids \in Seq(DOMAIN nodes') /\ Len(ids) = Len(types)
      /\ \A r \in 1 .. Len(ids) : nodes'[ids[r]].at[2] = r
  <2>1. ids \in [1 .. Len(types) -> DOMAIN nodes'] /\ \A r \in 1 .. Len(types) : ids[r] = Len(nodes) + r
    BY <1>5, <1>6 DEF ResultIds
  <2> HIDE DEF ids
  <2>2. ids \in Seq(DOMAIN nodes') /\ Len(ids) = Len(types)
    BY <2>1, <1>6, FunctionIsList
  <2> QED
    BY <2>1, <2>2, <1>5
<1> HIDE DEF ids
<1>8. Call \in Frames(File, nodes') /\ FrameFits(File, nodes', Call)
  BY <1>2, <1>5, CallSurvives DEF NodesFit
<1>9. Call.results \in Seq(Seq(DOMAIN nodes'))
  BY <1>8 DEF Frames
<1> DEFINE results == Append(Call.results, ids)
<1>10. /\ results \in Seq(Seq(DOMAIN nodes')) /\ Len(results) = i /\ results[i] = ids
       /\ \A k \in 1 .. Len(Call.results) : results[k] = Call.results[k]
  BY <1>7, <1>9, AppendProperties
<1>11. /\ e \in Frames(File, nodes') /\ e.module = Call.module /\ e.results = results
       /\ e.next = 1
  BY <1>1, <1>8, <1>10 DEF Frames
<1> HIDE DEF e, results
<1>12. FrameFits(File, nodes', e)
  <2>1. ASSUME NEW k \in 1 .. i  PROVE ResultsFit(File, nodes', e, k)
    <3>1. CASE k \in 1 .. Len(Call.results)
      BY <3>1, <1>8, <1>10, <1>11 DEF FrameFits, ResultsFit
    <3>2. CASE k = i
      BY <3>2, <1>2, <1>7, <1>10, <1>11 DEF ResultsFit, types
    <3> QED
      BY <3>1, <3>2, <1>3
  <2>2. Complete(File, e) /\ 1 <= Len(Body) + 1
    BY <1>2, <1>3, <1>11 DEF Complete
  <2>3. Len(e.results) = i /\ i <= Len(Body)
    BY <1>3, <1>10, <1>11
  <2> HIDE DEF i
  <2> QED
    BY <2>1, <2>2, <2>3, <1>2, <1>11 DEF FrameFits
<1> QED
  BY <1>1, <1>5, <1>11, <1>12, ReplaceKeeps

LEMMA RefuseValueKeeps ==
  ASSUME Built, RefuseValue
  PROVE  Built'
  BY RefusalKeeps DEF RefuseValue

(* The operands of the operation are nodes that are there.                  *)
LEMMA OperandsTyped ==
  ASSUME Built, Performing
  PROVE  /\ pc = "expand" /\ frames # <<>> /\ Call.next \in 1 .. Len(Body)
         /\ Len(Body) \in Nat /\ Len(Call.results) = Len(Body)
         /\ IsList(Present.outputs)
         /\ Args \in Seq(DOMAIN nodes) /\ DOMAIN Args = DOMAIN Present.args
<1>1. /\ pc = "expand" /\ frames # <<>> /\ Call.next \in DOMAIN Body
      /\ Len(Call.results) = Len(Body) /\ ArgsKnown
  BY DEF Performing, AtOperation
<1>2. /\ Call \in Frames(File, nodes) /\ FileFits(File)
      /\ Body = File.modules[Call.module].body /\ IsList(Body)
  BY <1>1, CallParts
<1>3. Len(Body) \in Nat /\ DOMAIN Body = 1 .. Len(Body)
  BY <1>2, ListParts
<1>4. IsList(Present.args) /\ IsList(Present.outputs)
  BY <1>1, <1>2 DEF FileFits, Frames, Present
<1>5. Len(Present.args) \in Nat /\ DOMAIN Present.args = 1 .. Len(Present.args)
  BY <1>4, ListParts
<1>6. ASSUME NEW ref, Known(ref)  PROVE Lookup(ref) \in DOMAIN nodes
  <2>1. CASE ref[1] = 0
    <3>1. Call.bindings \in Seq(DOMAIN nodes) /\ ref[2] \in DOMAIN Call.bindings
      BY <1>2, <1>6, <2>1 DEF Known, Frames
    <3>2. Call.bindings[ref[2]] \in DOMAIN nodes
      BY <3>1, LenProperties
    <3> QED
      BY <2>1, <3>2 DEF Lookup
  <2>2. CASE ref[1] # 0
    <3>1. /\ Call.results \in Seq(Seq(DOMAIN nodes)) /\ ref[1] \in DOMAIN Call.results
          /\ ref[2] \in DOMAIN Call.results[ref[1]]
      BY <1>2, <1>6, <2>2 DEF Known, Frames
    <3>2. Call.results[ref[1]] \in Seq(DOMAIN nodes)
      BY <3>1, LenProperties
    <3>3. Call.results[ref[1]][ref[2]] \in DOMAIN nodes
      BY <3>1, <3>2, LenProperties
    <3> QED
      BY <2>2, <3>3 DEF Lookup
  <2> QED
    BY <2>1, <2>2
<1>7. Args \in [1 .. Len(Present.args) -> DOMAIN nodes]
  BY <1>1, <1>5, <1>6 DEF ArgsKnown, Args
<1>8. Args \in Seq(DOMAIN nodes)
  BY <1>5, <1>7, FunctionIsList
<1> QED
  BY <1>1, <1>3, <1>4, <1>5, <1>7, <1>8

(* The innermost call goes on to the next operation.  If the one it did is  *)
(* the last and an output, its outputs are as many as the module's.         *)
LEMMA AdvanceFits ==
  ASSUME Built, Performing, NEW ns, NEW e, NEW outs \in Seq(DOMAIN ns),
         Call \in Frames(File, ns), FrameFits(File, ns, Call),
         e = [Call EXCEPT !.next = @ + 1, !.outputs = outs],
         Call.next = Len(Body) /\ Present.kind = "Output" => Len(outs) = Len(Module(Call.module).outputs)
  PROVE  e \in Frames(File, ns) /\ FrameFits(File, ns, e) /\ e.module = Call.module
<1>1. /\ Call.next \in 1 .. Len(Body) /\ Len(Body) \in Nat /\ Len(Call.results) = Len(Body)
      /\ frames # <<>>
  BY OperandsTyped
<1>2. /\ Body = File.modules[Call.module].body /\ IsList(Body)
      /\ Module(Call.module) = File.modules[Call.module]
  BY <1>1, CallParts DEF Module
<1>3. /\ e \in Frames(File, ns) /\ e.module = Call.module /\ e.next = Call.next + 1
      /\ e.results = Call.results /\ e.outputs = outs
  <2>1. Call.next + 1 \in Nat
    BY <1>1
  <2> DEFINE next == Call.next + 1
  <2>2. e = [Call EXCEPT !.next = next, !.outputs = outs]
    OBVIOUS
  <2> HIDE DEF next
  <2>3. /\ e \in Frames(File, ns) /\ e.module = Call.module /\ e.next = next
        /\ e.results = Call.results /\ e.outputs = outs
    BY <2>1, <2>2 DEF Frames, next
  <2> QED
    BY <2>3 DEF next
<1>4. Complete(File, e)
  <2> SUFFICES ASSUME e.next = Len(Body) + 1, Last(Body).kind = "Output"
               PROVE  Len(outs) = Len(Module(Call.module).outputs)
    BY <1>2, <1>3 DEF Complete
  <2>1. Call.next = Len(Body)
    BY <1>1, <1>3
  <2>2. Present = Last(Body)
    BY <2>1 DEF Present, Last
  <2> QED
    BY <2>1, <2>2
<1>5. \A i \in 1 .. Len(e.results) : ResultsFit(File, ns, e, i)
  BY <1>3 DEF FrameFits, ResultsFit
<1>6. e.next <= Len(Body) + 1 /\ Len(e.results) <= Len(Body) /\ Len(e.results) = Len(Body)
  BY <1>1, <1>3
<1> QED
  BY <1>2, <1>3, <1>4, <1>5, <1>6 DEF FrameFits

(* The call that is made is at its start, and the one before it waits.      *)
LEMMA CallInstanceKeeps ==
  ASSUME Built, CallInstance
  PROVE  Built'
<1> DEFINE child == Resolve(File, Module(Call.module).scope, Present.module)
           bound == BoundByName(child)
           path == Append(Call.path, Call.next)
           e == Frame(child, bound, path)
<1>1. Performing /\ Present.kind = "Instance"
  BY DEF CallInstance
<1>2. CASE child \notin DOMAIN File.modules \/ ~SignatureFits(child)
  BY <1>2, RefusalKeeps DEF CallInstance
<1>3. CASE child \in DOMAIN File.modules /\ SignatureFits(child)
  <2> HIDE DEF child
  <2>1. /\ frames' = Append(frames, e)
        /\ UNCHANGED <<given, pc, refusal, nodes, inputs, outputs, clock>>
    BY <1>3 DEF CallInstance, child, buildVars
  <2>2. /\ pc = "expand" /\ frames # <<>> /\ Call.next \in 1 .. Len(Body)
        /\ Len(Body) \in Nat /\ Len(Call.results) = Len(Body)
        /\ Args \in Seq(DOMAIN nodes)
    BY <1>1, OperandsTyped
  <2>3. /\ Call \in Frames(File, nodes) /\ FrameFits(File, nodes, Call) /\ FileFits(File)
        /\ Body = File.modules[Call.module].body /\ IsList(Body) /\ IsList(nodes)
    BY <2>2, CallParts
  <2>4. IsList(Module(child).inputs) /\ IsList(Module(child).body)
    BY <1>3, <2>3 DEF FileFits, Module
  <2> DEFINE n == Len(Module(child).inputs)
  <2>5. n \in Nat /\ DOMAIN Module(child).inputs = 1 .. n
    BY <2>4, ListParts
  <2>6. bound \in [1 .. n -> DOMAIN nodes]
    <3>1. ASSUME NEW k \in 1 .. n
          PROVE  Args[CHOOSE j \in DOMAIN Args : Present.names[j] = Module(child).inputs[k].name] \in DOMAIN nodes
      <4>1. \E j \in DOMAIN Args : Present.names[j] = Module(child).inputs[k].name
        BY <1>3, <2>5 DEF SignatureFits
      <4>2. (CHOOSE j \in DOMAIN Args : Present.names[j] = Module(child).inputs[k].name) \in DOMAIN Args
        BY <4>1
      <4>3. \A j \in DOMAIN Args : Args[j] \in DOMAIN nodes
        BY <2>2, LenProperties
      <4> QED
        BY <4>2, <4>3
    <3> QED
      BY <2>5, <3>1 DEF BoundByName
  <2> HIDE DEF n, bound
  <2>7. bound \in Seq(DOMAIN nodes)
    BY <2>5, <2>6, FunctionIsList
  <2>8. path \in Seq(Nat)
    <3>1. Call.path \in Seq(Nat) /\ Call.next \in Nat
      BY <2>3 DEF Frames
    <3> QED
      BY <3>1, AppendProperties
  <2> HIDE DEF path
  <2>9. e \in Frames(File, nodes)
    <3>1. <<>> \in Seq(DOMAIN nodes) /\ <<>> \in Seq(Seq(DOMAIN nodes))
      BY EmptySeq
    <3> QED
      BY <1>3, <2>7, <2>8, <3>1 DEF Frame, Frames
  <2>10. FrameFits(File, nodes, e)
    BY <2>4, ListParts, CallStarts DEF Module
  <2>11. FrameWaits(File, Last(frames), e)
    <3>1. Body[Call.next].kind = "Instance" /\ Body[Call.next].outputs = File.modules[child].outputs
      BY <1>1, <1>3 DEF Present, SignatureFits, Module
    <3> QED
      BY <2>2, <2>3, <3>1 DEF FrameWaits, Frame, Call
  <2> HIDE DEF e
  <2>12. StackFits(File, nodes, frames')
    BY <2>1, <2>2, <2>9, <2>10, <2>11, CallMade DEF Built
  <2>13. NodesFit(nodes') /\ Extends(nodes, nodes') /\ StackFits(File, nodes', frames')
    BY <2>1, <2>12, <2>3, ListParts DEF Built, Extends
  <2> QED
    BY <2>1, <2>2, <2>13, StepKeeps DEF Built
<1> QED
  BY <1>2, <1>3

LEMMA SetOutputsKeeps ==
  ASSUME Built, SetOutputs
  PROVE  Built'
<1> DEFINE ports == Module(Call.module).outputs
           wrong == \/ Call.next # Len(Body)
                    \/ [k \in DOMAIN Args |-> nodes[Args[k]].type] # [k \in DOMAIN ports |-> ports[k].type]
<1>1. Performing /\ Present.kind = "Output"
  BY DEF SetOutputs
<1>2. CASE wrong
  BY <1>2, RefusalKeeps DEF SetOutputs
<1>3. CASE ~wrong
  <2> DEFINE e == [Call EXCEPT !.next = @ + 1, !.outputs = Args]
  <2>1. frames' = CallWith(e) /\ UNCHANGED <<given, pc, refusal, nodes, inputs, outputs, clock>>
    BY <1>3 DEF SetOutputs, buildVars
  <2>2. DOMAIN Args = DOMAIN ports
    BY <1>3
  <2>3. pc = "expand" /\ frames # <<>> /\ Args \in Seq(DOMAIN nodes)
    BY <1>1, OperandsTyped
  <2>4. Call \in Frames(File, nodes) /\ FrameFits(File, nodes, Call) /\ FileFits(File) /\ IsList(nodes)
    BY <2>3, CallParts
  <2>5. IsList(ports)
    BY <2>4 DEF FileFits, Frames, Module
  <2>6. Len(Args) = Len(ports)
    BY <2>2, <2>3, <2>5, ListParts, SeqIsList
  <2> HIDE DEF e, ports
  <2>7. e \in Frames(File, nodes) /\ FrameFits(File, nodes, e) /\ e.module = Call.module
    BY <1>1, <2>3, <2>4, <2>6, AdvanceFits DEF e, ports
  <2>8. NodesFit(nodes') /\ Extends(nodes, nodes')
    BY <2>1, <2>4, ListParts DEF Built, Extends
  <2>9. e \in Frames(File, nodes') /\ FrameFits(File, nodes', e)
    BY <2>1, <2>7
  <2> QED
    BY <2>1, <2>3, <2>7, <2>8, <2>9, ReplaceKeeps
<1> QED
  BY <1>2, <1>3

(* Advanced, over the nodes there are afterwards.                          *)
LEMMA AdvancedKeeps ==
  ASSUME Built, Performing, Present.kind # "Output", frames' = Advanced,
         UNCHANGED <<given, pc, refusal, inputs, outputs, clock>>,
         NodesFit(nodes'), Extends(nodes, nodes')
  PROVE  Built'
<1> DEFINE e == [Call EXCEPT !.next = @ + 1]
<1>1. pc = "expand" /\ frames # <<>>
  BY OperandsTyped
<1>2. Call \in Frames(File, nodes) /\ FrameFits(File, nodes, Call) /\ IsList(nodes) /\ IsList(nodes')
  BY <1>1, CallParts DEF NodesFit
<1>3. Call \in Frames(File, nodes') /\ FrameFits(File, nodes', Call)
  BY <1>2, CallSurvives
<1>4. Call.outputs \in Seq(DOMAIN nodes') /\ e = [Call EXCEPT !.next = @ + 1, !.outputs = Call.outputs]
  BY <1>3 DEF Frames
<1>5. frames' = CallWith(e)
  BY DEF Advanced
<1> HIDE DEF e
<1>6. e \in Frames(File, nodes') /\ FrameFits(File, nodes', e) /\ e.module = Call.module
  BY <1>3, <1>4, AdvanceFits
<1> QED
  BY <1>1, <1>5, <1>6, ReplaceKeeps

LEMMA AddPropertyKeeps ==
  ASSUME Built, AddProperty
  PROVE  Built'
<1>1. /\ Performing /\ Present.kind # "Output" /\ frames' = Advanced
      /\ UNCHANGED <<given, pc, refusal, nodes, inputs, outputs, clock>>
  BY DEF AddProperty
<1>2. NodesFit(nodes') /\ Extends(nodes, nodes')
  BY <1>1, ListParts DEF Built, NodesFit, Extends
<1> QED
  BY <1>1, <1>2, AdvancedKeeps

(* A node gets a driver that fits.                                         *)
LEMMA DriverSet ==
  ASSUME NEW ns, NodesFit(ns), NEW ms,
         DOMAIN ms = DOMAIN ns, ms = [id \in DOMAIN ms |-> ms[id]],
         \A id \in DOMAIN ns : \E driver :
           /\ ms[id] = [ns[id] EXCEPT !.driver = driver]
           /\ driver.kind = "alias" => driver.of \in DOMAIN ns
           /\ driver.kind = "op" => driver.args \in Seq(DOMAIN ns)
  PROVE  NodesFit(ms) /\ Extends(ns, ms)
<1>1. DOMAIN ns = 1 .. Len(ns) /\ Len(ns) \in Nat
  BY ListParts DEF NodesFit
<1> DEFINE T == {ms[id] : id \in 1 .. Len(ns)}
<1>2. ms \in [1 .. Len(ns) -> T]
  BY <1>1
<1> HIDE DEF T
<1>3. IsList(ms) /\ Len(ms) = Len(ns)
  BY <1>1, <1>2, FunctionIsList
<1>4. ASSUME NEW id \in DOMAIN ns  PROVE NodeFits(ms, ms[id]) /\ ms[id].at = ns[id].at
  <2>1. PICK driver :
           /\ ms[id] = [ns[id] EXCEPT !.driver = driver]
           /\ driver.kind = "alias" => driver.of \in DOMAIN ns
           /\ driver.kind = "op" => driver.args \in Seq(DOMAIN ns)
    OBVIOUS
  <2>2. ns[id] = Node(ns[id].type, ns[id].driver, ns[id].path, ns[id].at)
    BY DEF NodesFit, NodeFits
  <2>3. ms[id] = Node(ns[id].type, driver, ns[id].path, ns[id].at)
    BY <2>1, <2>2 DEF Node
  <2> QED
    BY <2>1, <2>3 DEF NodeFits, Node
<1> QED
  BY <1>1, <1>3, <1>4 DEF NodesFit, Extends

(* A node that keeps its driver.                                           *)
LEMMA DriverKept ==
  ASSUME NEW ns, NodesFit(ns), NEW id \in DOMAIN ns
  PROVE  /\ ns[id] = [ns[id] EXCEPT !.driver = ns[id].driver]
         /\ ns[id].driver.kind = "alias" => ns[id].driver.of \in DOMAIN ns
         /\ ns[id].driver.kind = "op" => ns[id].driver.args \in Seq(DOMAIN ns)
<1>1. NodeFits(ns, ns[id])
  BY DEF NodesFit
<1>2. ns[id] = Node(ns[id].type, ns[id].driver, ns[id].path, ns[id].at)
  BY <1>1 DEF NodeFits
<1>3. ns[id] = [ns[id] EXCEPT !.driver = ns[id].driver]
  BY <1>2 DEF Node
<1> QED
  BY <1>1, <1>3 DEF NodeFits

LEMMA SetDriverKeeps ==
  ASSUME Built, SetDriver
  PROVE  Built'
<1> DEFINE driven == Call.results[Call.next][1]
           driver == Operation(Present, Args)
<1>1. /\ Performing /\ Present.kind \notin {"Instance", "Output", "Property"}
      /\ nodes' = [nodes EXCEPT ![driven].driver = driver]
      /\ frames' = Advanced
      /\ UNCHANGED <<given, pc, refusal, inputs, outputs, clock>>
  BY DEF SetDriver, buildVars
<1>2. Args \in Seq(DOMAIN nodes)
  BY <1>1, OperandsTyped
<1>3. driver.kind = "op" /\ driver.args \in Seq(DOMAIN nodes)
  BY <1>2 DEF Operation
<1> HIDE DEF driver, driven
<1>4. ASSUME NEW id \in DOMAIN nodes
      PROVE  \E d : /\ nodes'[id] = [nodes[id] EXCEPT !.driver = d]
                    /\ d.kind = "alias" => d.of \in DOMAIN nodes
                    /\ d.kind = "op" => d.args \in Seq(DOMAIN nodes)
  <2>1. CASE id = driven
    <3>1. nodes'[id] = [nodes[id] EXCEPT !.driver = driver]
      BY <1>1, <2>1
    <3> QED
      BY <3>1, <1>3
  <2>2. CASE id # driven
    <3>1. nodes'[id] = nodes[id]
      BY <1>1, <2>2
    <3> QED
      BY <3>1, DriverKept DEF Built
  <2> QED
    BY <2>1, <2>2
<1>5. DOMAIN nodes' = DOMAIN nodes /\ nodes' = [id \in DOMAIN nodes' |-> nodes'[id]]
  BY <1>1
<1>6. NodesFit(nodes') /\ Extends(nodes, nodes')
  BY <1>4, <1>5, DriverSet DEF Built
<1> QED
  BY <1>1, <1>6, AdvancedKeeps

(* The outer call returns its outputs, an inner one aliases of them.        *)
LEMMA ReturnKeeps ==
  ASSUME Built, Return
  PROVE  Built'
<1> DEFINE n == Len(frames)
           parent == frames[n - 1]
           results == parent.results[parent.next]
           e == [parent EXCEPT !.next = @ + 1]
<1>1. pc = "expand" /\ frames # <<>> /\ Call.next = Len(Body) + 1
  BY DEF Return
<1>2. /\ n \in Nat \ {0} /\ Call = frames[n]
      /\ Call \in Frames(File, nodes) /\ FrameFits(File, nodes, Call) /\ FileFits(File)
      /\ Body = File.modules[Call.module].body /\ IsList(Body) /\ IsList(nodes)
  BY <1>1, CallParts
<1>3. CASE Body = <<>> \/ Last(Body).kind # "Output"
  BY <1>3, RefusalKeeps DEF Return
<1>4. CASE Body # <<>> /\ Last(Body).kind = "Output" /\ n = 1
  <2>1. /\ pc' = "visit" /\ outputs' = Call.outputs /\ frames' = <<>>
        /\ UNCHANGED <<given, refusal, nodes, inputs, clock>>
    BY <1>4 DEF Return
  <2>2. Call.outputs \in Seq(DOMAIN nodes)
    BY <1>2 DEF Frames
  <2>3. NodesFit(nodes') /\ Extends(nodes, nodes')
    BY <2>1, <1>2, ListParts DEF Built, Extends
  <2>4. StackFits(File, nodes', frames')
    BY <2>1, EmptySeq DEF StackFits
  <2> QED
    BY <1>1, <2>1, <2>2, <2>3, <2>4, StepKeeps
<1>5. CASE Body # <<>> /\ Last(Body).kind = "Output" /\ n # 1
  <2>1. /\ nodes' = [id \in DOMAIN nodes |->
                       IF id \in ToSet(results)
                       THEN [nodes[id] EXCEPT !.driver = Alias(Call.outputs[nodes[id].at[2]])]
                       ELSE nodes[id]]
        /\ frames' = Append(Front(Front(frames)), e)
        /\ UNCHANGED <<given, pc, refusal, inputs, outputs, clock>>
    BY <1>5 DEF Return, buildVars
  <2>2. Len(Call.outputs) = Len(File.modules[Call.module].outputs)
    BY <1>1, <1>2, <1>5 DEF FrameFits, Complete
  <2>3. n - 1 \in 1 .. n - 1 /\ n - 1 \in 1 .. n /\ (n - 1) + 1 = n
    <3>1. n \in Nat \ {0} /\ n # 1
      BY <1>2, <1>5
    <3> HIDE DEF n
    <3> QED
      BY <3>1
  <2>4. /\ StackFits(File, nodes, frames) /\ frames \in Seq(Frames(File, nodes))
        /\ FrameWaits(File, parent, Call) /\ FrameFits(File, nodes, parent)
    BY <1>2, <2>3 DEF Built, StackFits
  <2>5. parent \in Frames(File, nodes)
    BY <2>3, <2>4, ElementOfSeq
  <2> DEFINE body == File.modules[parent.module].body
             inst == body[parent.next]
  <2>6. /\ parent.next \in 1 .. Len(body) /\ Len(parent.results) = Len(body)
        /\ inst.kind = "Instance" /\ inst.outputs = File.modules[Call.module].outputs
        /\ ResultsFit(File, nodes, parent, parent.next)
    BY <2>4 DEF FrameWaits, FrameFits
  <2>7. /\ IsList(body) /\ IsList(inst.outputs)
    <3>1. IsList(body)
      BY <1>2, <2>5 DEF FileFits, Frames
    <3>2. parent.next \in DOMAIN body
      BY <2>6, <3>1, ListParts
    <3> QED
      BY <1>2, <2>5, <3>1, <3>2 DEF FileFits, Frames
  <2>8. /\ Len(results) = Len(Call.outputs)
        /\ \A r \in 1 .. Len(results) : nodes[results[r]].at[2] = r
    BY <2>2, <2>6, <2>7, ResultTypesLength DEF ResultsFit
  <2>9. parent.results \in Seq(Seq(DOMAIN nodes)) /\ Call.outputs \in Seq(DOMAIN nodes)
    BY <1>2, <2>5 DEF Frames
  <2>10. results \in Seq(DOMAIN nodes)
    BY <2>6, <2>9, ElementOfSeq
  <2> HIDE DEF inst
  <2>11. ASSUME NEW id \in DOMAIN nodes
         PROVE  \E d : /\ nodes'[id] = [nodes[id] EXCEPT !.driver = d]
                       /\ d.kind = "alias" => d.of \in DOMAIN nodes
                       /\ d.kind = "op" => d.args \in Seq(DOMAIN nodes)
    <3>1. CASE id \in ToSet(results)
      <4> DEFINE d == Alias(Call.outputs[nodes[id].at[2]])
      <4>1. PICK r \in 1 .. Len(results) : results[r] = id
        BY <2>10, <3>1, LenProperties DEF ToSet
      <4>2. nodes[id].at[2] = r /\ r \in 1 .. Len(Call.outputs)
        BY <2>8, <4>1
      <4>3. Call.outputs[r] \in DOMAIN nodes
        BY <2>9, <4>2, ElementOfSeq
      <4>4. d.kind = "alias" /\ d.of \in DOMAIN nodes
        BY <4>2, <4>3 DEF Alias
      <4>5. nodes'[id] = [nodes[id] EXCEPT !.driver = d]
        BY <2>1, <3>1
      <4> HIDE DEF d
      <4> QED
        BY <4>4, <4>5
    <3>2. CASE id \notin ToSet(results)
      <4>1. nodes'[id] = nodes[id]
        BY <2>1, <3>2
      <4> QED
        BY <4>1, DriverKept DEF Built
    <3> QED
      BY <3>1, <3>2
  <2>12. DOMAIN nodes' = DOMAIN nodes /\ nodes' = [id \in DOMAIN nodes' |-> nodes'[id]]
    BY <2>1
  <2>13. NodesFit(nodes') /\ Extends(nodes, nodes')
    BY <2>11, <2>12, DriverSet DEF Built
  <2> DEFINE fs == Front(frames)
  <2>14. /\ Len(fs) = n - 1 /\ fs \in Seq(Frames(File, nodes)) /\ fs[n - 1] = parent
    BY <1>1, <2>3, <2>4, FrontAndLast
  <2>15. fs # <<>> /\ Last(fs) = parent
    BY <2>3, <2>14, EmptySeq DEF Last
  <2>16. StackFits(File, nodes, fs)
    BY <1>1, <2>4, CallEnded
  <2>17. IsList(nodes') /\ StackFits(File, nodes', fs)
    BY <1>2, <2>13, <2>16, StackSurvives DEF NodesFit
  <2>18. parent \in Frames(File, nodes') /\ FrameFits(File, nodes', parent)
    BY <1>2, <2>4, <2>5, <2>13, <2>17, CallSurvives
  <2> HIDE DEF fs
  <2>19. e \in Frames(File, nodes') /\ e.module = parent.module /\ FrameFits(File, nodes', e)
    <3>1. parent.next \in Nat /\ Len(body) \in Nat
      BY <2>5, <2>7, ListParts DEF Frames
    <3> DEFINE next == parent.next + 1
    <3>2. next \in Nat /\ e = [parent EXCEPT !.next = next]
      BY <3>1
    <3> HIDE DEF next, parent, e
    <3>3. /\ e \in Frames(File, nodes') /\ e.module = parent.module /\ e.next = next
          /\ e.results = parent.results
      BY <2>18, <3>2 DEF Frames
    <3> USE DEF next
    <3>4. e.next <= Len(body) + 1 /\ Len(e.results) = Len(body) /\ Len(e.results) <= Len(body)
      BY <2>6, <3>1, <3>3
    <3>5. Complete(File, e)
      <4> SUFFICES ASSUME e.next = Len(body) + 1  PROVE Last(body).kind # "Output"
        BY <3>3 DEF Complete
      <4>1. parent.next = Len(body)
        BY <3>1, <3>3
      <4> QED
        BY <2>6, <4>1 DEF Last, inst
    <3>6. \A i \in 1 .. Len(e.results) : ResultsFit(File, nodes', e, i)
      BY <2>18, <3>3 DEF FrameFits, ResultsFit
    <3> QED
      BY <3>3, <3>4, <3>5, <3>6 DEF FrameFits
  <2> HIDE DEF e, parent
  <2>20. StackFits(File, nodes', frames')
    BY <2>1, <2>15, <2>17, <2>19, CallReplaced DEF fs
  <2> QED
    BY <1>1, <2>1, <2>13, <2>20, StepKeeps DEF Built
<1> QED
  BY <1>3, <1>4, <1>5

--------------------------------------------------------------------------------
(****************************************************************************)
(* The inductive invariant.  Chained says how the calls of visit hang       *)
(* together; Accounted that nothing a node on the walk reads is forgotten:  *)
(* it is visited, still to come, or the call that is being made for it.    *)
(****************************************************************************)
WalkTyped ==
  /\ walk \in Seq([node : DOMAIN nodes, args : Seq(DOMAIN nodes)])
  /\ finished \in Seq(DOMAIN nodes)

ChainedAt(j) ==
  /\ ~Register(walk[j].node)
  /\ ToSet(walk[j].args) \subseteq ToSet(Reads(walk[j].node))
  /\ j < Len(walk) => walk[j + 1].node \in ToSet(Reads(walk[j].node))

AccountedAt(j) == \A id \in ToSet(Reads(walk[j].node)) :
  \/ Visited(id)
  \/ id \in ToSet(walk[j].args)
  \/ j < Len(walk) /\ id = walk[j + 1].node

Chained == \A j \in 1 .. Len(walk) : ChainedAt(j)
Accounted == \A j \in 1 .. Len(walk) : AccountedAt(j)

WalkInv ==
  /\ pc \in {"start", "expand", "visit", "check", "accepted", "refused"}
  /\ pc # "refused" => refusal = "none"
  /\ WalkTyped
  /\ pc \in {"start", "expand"} => walk = <<>> /\ finished = <<>>
  /\ pc = "visit" => Chained /\ Accounted
  /\ pc \in {"visit", "check", "accepted"} => Ordered
  /\ WalkDecidesLoops

(* What a node reads, and whether it is a register, depends on nodes alone. *)
LEMMA SameNodes ==
  ASSUME UNCHANGED nodes
  PROVE  /\ \A id : Reads(id)' = Reads(id) /\ Register(id)' = Register(id)
         /\ NodesClosed => NodesClosed'
  BY DEF Reads, Register, IsOp, NodesClosed

LEMMA SameWalk ==
  ASSUME WalkTyped, UNCHANGED <<nodes, walk, finished>>
  PROVE  WalkTyped'
  BY DEF WalkTyped

(* Taking an argument off the innermost call leaves the walk as it is.      *)
LEMMA WalkedShape ==
  ASSUME WalkTyped, Visiting
  PROVE  /\ Len(walk) \in Nat \ {0}
         /\ Walked \in Seq([node : DOMAIN nodes, args : Seq(DOMAIN nodes)])
         /\ Len(Walked) = Len(walk)
         /\ \A j \in 1 .. Len(walk) : Walked[j].node = walk[j].node
         /\ \A j \in 1 .. Len(walk) - 1 : Walked[j] = walk[j]
         /\ Head(Caller.args) \in DOMAIN nodes
         /\ ToSet(walk[Len(walk)].args) = {Head(Caller.args)} \cup ToSet(Walked[Len(walk)].args)
<1> DEFINE Calls == [node : DOMAIN nodes, args : Seq(DOMAIN nodes)]
           e == [Caller EXCEPT !.args = Tail(@)]
<1>1. walk \in Seq(Calls) /\ walk # <<>> /\ Caller.args # <<>>
  BY DEF WalkTyped, Visiting
<1>2. /\ Len(walk) \in Nat \ {0} /\ Caller = walk[Len(walk)] /\ Caller \in Calls
  BY <1>1, FrontAndLast DEF Caller
<1>3. /\ Head(Caller.args) \in DOMAIN nodes /\ Tail(Caller.args) \in Seq(DOMAIN nodes)
      /\ ToSet(Caller.args) = {Head(Caller.args)} \cup ToSet(Tail(Caller.args))
  BY <1>1, <1>2, HeadOrTail
<1>4. e \in Calls /\ e.node = Caller.node /\ e.args = Tail(Caller.args)
  BY <1>2, <1>3
<1> HIDE DEF e, Calls
<1>5. /\ Append(Front(walk), e) \in Seq(Calls)
      /\ Len(Append(Front(walk), e)) = Len(walk)
      /\ \A j \in 1 .. Len(walk) - 1 : Append(Front(walk), e)[j] = walk[j]
      /\ Append(Front(walk), e)[Len(walk)] = e
  BY <1>1, <1>4, LastReplaced
<1>6. Walked = Append(Front(walk), e)
  BY DEF Walked, WalkWith, e
<1>7. \A j \in 1 .. Len(walk) : Walked[j].node = walk[j].node
  <2> TAKE j \in 1 .. Len(walk)
  <2>1. CASE j = Len(walk)
    BY <2>1, <1>2, <1>4, <1>5, <1>6
  <2>2. CASE j # Len(walk)
    <3>1. j \in 1 .. Len(walk) - 1
      BY <2>2, <1>2
    <3> QED
      BY <3>1, <1>5, <1>6
  <2> QED
    BY <2>1, <2>2
<1> QED
  BY <1>2, <1>3, <1>4, <1>5, <1>6, <1>7 DEF Calls

(* Until the hierarchy is expanded nothing is walked.                      *)
LEMMA ExpandKeeps ==
  ASSUME WalkInv, Start \/ Expand
  PROVE  WalkInv'
<1> DEFINE Other == pc' = "refused" /\ refusal' # "combinational cycle" /\ UNCHANGED <<walk, finished>>
           Still == pc' \in {"expand", "visit"} /\ UNCHANGED <<refusal, walk, finished>>
<1>1. pc \in {"start", "expand"} /\ refusal = "none" /\ walk = <<>> /\ finished = <<>>
  BY DEF WalkInv, Start, Expand, Enter, Declare, RefuseValue, CallInstance, SetOutputs, AddProperty,
         SetDriver, Return, Performing, AtOperation
<1>2. Other \/ Still
  <2>1. CASE Start
    BY <2>1 DEF Start, Refuse, visitVars
  <2>2. CASE Enter
    BY <1>1, <2>2 DEF Enter, Refuse, visitVars
  <2>3. CASE Declare
    BY <1>1, <2>3 DEF Declare, visitVars
  <2>4. CASE RefuseValue
    BY <2>4 DEF RefuseValue, Refuse, visitVars
  <2>5. CASE CallInstance
    BY <1>1, <2>5 DEF CallInstance, Performing, AtOperation, Refuse, visitVars
  <2>6. CASE SetOutputs
    BY <1>1, <2>6 DEF SetOutputs, Performing, AtOperation, Refuse, visitVars
  <2>7. CASE AddProperty
    BY <1>1, <2>7 DEF AddProperty, Performing, AtOperation, visitVars
  <2>8. CASE SetDriver
    BY <1>1, <2>8 DEF SetDriver, Performing, AtOperation, visitVars
  <2>9. CASE Return
    BY <1>1, <2>9 DEF Return, Refuse, visitVars
  <2> QED
    BY <2>1, <2>2, <2>3, <2>4, <2>5, <2>6, <2>7, <2>8, <2>9 DEF Expand
<1>3. CASE Other
  <2>1. WalkTyped'
    BY <1>1, <1>3, EmptySeq DEF WalkTyped
  <2> QED
    BY <1>3, <2>1 DEF WalkInv, WalkDecidesLoops
<1>4. CASE Still
  <2>1. walk' = <<>> /\ finished' = <<>> /\ refusal' = "none"
    BY <1>1, <1>4
  <2>2. WalkTyped' /\ Chained' /\ Accounted'
    BY <2>1, EmptySeq DEF WalkTyped, Chained, Accounted
  <2>3. Ordered'
    BY <2>1, EmptySeq, LenProperties DEF Ordered
  <2> QED
    BY <2>1, <2>2, <2>3, <1>4 DEF WalkInv, WalkDecidesLoops
<1> QED
  BY <1>2, <1>3, <1>4

(* visit leaves the nodes alone, so it is enough to follow walk and finished. *)
LEMMA VisitFrame ==
  ASSUME WalkInv, NodesClosed, pc = "visit", UNCHANGED <<pc, refusal, nodes>>,
         WalkTyped', Chained', Accounted', Ordered'
  PROVE  WalkInv'
  BY DEF WalkInv, WalkDecidesLoops

(* The outer loop starts at a node that is not visited, or ends.            *)
LEMMA VisitNextKeeps ==
  ASSUME WalkInv, NodesClosed, VisitNext
  PROVE  WalkInv'
<1> DEFINE left == {id \in DOMAIN nodes : ~Visited(id)}
           Calls == [node : DOMAIN nodes, args : Seq(DOMAIN nodes)]
<1>1. /\ pc = "visit" /\ refusal = "none" /\ UNCHANGED <<refusal, nodes, finished>>
      /\ WalkTyped /\ Chained /\ Accounted /\ Ordered
  BY DEF WalkInv, VisitNext, visitVars
<1>2. \A id : Reads(id)' = Reads(id) /\ Register(id)' = Register(id) /\ Visited(id)' = Visited(id)
  BY <1>1, SameNodes DEF Visited
<1>3. Ordered'
  BY <1>1, <1>2 DEF Ordered
<1>4. CASE left = {}
  <2>1. pc' = "check" /\ \A id \in DOMAIN nodes : Visited(id)
    BY <1>4 DEF VisitNext
  <2>2. WalkTyped'
    BY <1>1, <1>4, SameWalk DEF VisitNext, visitVars
  <2> QED
    BY <2>1, <2>2, <1>1, <1>2, <1>3 DEF WalkInv, WalkDecidesLoops
<1>5. CASE left # {}
  <2> DEFINE m == Min(left)
  <2>1. left \subseteq Nat
    BY DEF NodesClosed
  <2>2. m \in left
    BY <1>5, <2>1, MinOfNaturals
  <2> HIDE DEF left
  <2>3. walk' = <<Visit(m)>> /\ pc' = pc
    BY <1>5 DEF VisitNext, left
  <2>4. m \in DOMAIN nodes /\ ~Visited(m)
    BY <2>2 DEF left
  <2> HIDE DEF m
  <2>5. Reads(m) \in Seq(DOMAIN nodes)
    BY <2>4 DEF NodesClosed
  <2>6. /\ walk' \in Seq(Calls) /\ Len(walk') = 1
        /\ walk'[1].node = m /\ walk'[1].args = Reads(m)
    BY <2>3, <2>4, <2>5 DEF Visit
  <2>7. WalkTyped'
    BY <2>6, <1>1 DEF WalkTyped
  <2>8. Chained'
    BY <2>4, <2>6, <1>2 DEF Chained, ChainedAt, Visited
  <2>9. Accounted'
    BY <2>6, <1>2 DEF Accounted, AccountedAt
  <2> QED
    BY <1>1, <1>3, <2>3, <2>7, <2>8, <2>9, VisitFrame
<1> QED
  BY <1>4, <1>5

(* A visited argument is passed over.                                      *)
LEMMA VisitSkipKeeps ==
  ASSUME WalkInv, NodesClosed, VisitSkip
  PROVE  WalkInv'
<1>1. /\ pc = "visit" /\ Visiting /\ Visited(Head(Caller.args)) /\ walk' = Walked
      /\ UNCHANGED <<pc, refusal, nodes, finished>>
      /\ WalkTyped /\ Chained /\ Accounted /\ Ordered
  BY DEF WalkInv, VisitSkip, Visiting
<1>2. \A id : Reads(id)' = Reads(id) /\ Register(id)' = Register(id) /\ Visited(id)' = Visited(id)
  BY <1>1, SameNodes DEF Visited
<1>3. Ordered'
  BY <1>1, <1>2 DEF Ordered
<1>4. /\ Len(walk) \in Nat \ {0} /\ Len(walk') = Len(walk)
      /\ \A j \in 1 .. Len(walk) : walk'[j].node = walk[j].node
      /\ \A j \in 1 .. Len(walk) : ToSet(walk'[j].args) \subseteq ToSet(walk[j].args)
      /\ \A j \in 1 .. Len(walk) : \A id \in ToSet(walk[j].args) :
           id \in ToSet(walk'[j].args) \/ Visited(id)
  <2>1. \A j \in 1 .. Len(walk) : j = Len(walk) \/ j \in 1 .. Len(walk) - 1
    BY <1>1, WalkedShape
  <2> QED
    BY <2>1, <1>1, WalkedShape
<1>5. WalkTyped'
  BY <1>1, WalkedShape DEF WalkTyped
<1>6. Chained'
  <2> SUFFICES ASSUME NEW j \in 1 .. Len(walk')  PROVE ChainedAt(j)'
    BY DEF Chained
  <2>1. j \in 1 .. Len(walk) /\ (j < Len(walk) => j + 1 \in 1 .. Len(walk))
    BY <1>4
  <2> QED
    BY <2>1, <1>1, <1>2, <1>4 DEF Chained, ChainedAt
<1>7. Accounted'
  <2> SUFFICES ASSUME NEW j \in 1 .. Len(walk')  PROVE AccountedAt(j)'
    BY DEF Accounted
  <2>1. j \in 1 .. Len(walk) /\ (j < Len(walk) => j + 1 \in 1 .. Len(walk))
    BY <1>4
  <2> QED
    BY <2>1, <1>1, <1>2, <1>4 DEF Accounted, AccountedAt
<1> QED
  BY <1>1, <1>3, <1>5, <1>6, <1>7, VisitFrame

(* An argument that is on the walk already closes a circle, from its call   *)
(* to the innermost one, on which there is no register.                    *)
LEMMA VisitCycleKeeps ==
  ASSUME WalkInv, NodesClosed, VisitCycle
  PROVE  WalkInv'
<1> DEFINE h == Head(Caller.args)
           n == Len(walk)
<1>1. /\ pc = "visit" /\ Visiting /\ OnWalk(h) /\ pc' = "refused"
      /\ UNCHANGED <<nodes, walk, finished>>
      /\ WalkTyped /\ Chained
  BY DEF WalkInv, VisitCycle, Visiting, Refuse, visitVars
<1>2. /\ n \in Nat \ {0} /\ DOMAIN walk = 1 .. n
      /\ h \in ToSet(walk[n].args)
  BY <1>1, WalkedShape, LenProperties DEF WalkTyped
<1>3. PICK k \in 1 .. n : walk[k].node = h
  BY <1>1, <1>2 DEF OnWalk
<1>4. k \in 1 .. n /\ k \in Nat
  BY <1>2, <1>3
<1> HIDE DEF h, n
<1>5. Circle(k)
  <2> SUFFICES ASSUME NEW j \in k .. n
               PROVE  /\ ~Register(walk[j].node)
                      /\ walk[IF j = n THEN k ELSE j + 1].node \in ToSet(Reads(walk[j].node))
    BY DEF Circle, n
  <2>1. j \in 1 .. n /\ (j = n \/ j < n)
    BY <1>2, <1>4
  <2>2. ChainedAt(j)
    BY <2>1, <1>1 DEF Chained, n
  <2>3. CASE j = n
    BY <2>2, <2>3, <1>2, <1>3 DEF ChainedAt, n
  <2>4. CASE j < n
    <3>1. j # n
      BY <2>1, <2>4, <1>2
    <3>2. j < Len(walk)
      BY <2>4 DEF n
    <3> QED
      BY <2>2, <3>1, <3>2 DEF ChainedAt
  <2> QED
    BY <2>1, <2>3, <2>4
<1>6. Circle(k)'
  BY <1>1, <1>5, SameNodes DEF Circle
<1>7. WalkTyped'
  BY <1>1, SameWalk
<1> QED
  BY <1>1, <1>2, <1>4, <1>6, <1>7 DEF WalkInv, WalkDecidesLoops, n

(* An argument that is neither visited nor on the walk is called for.       *)
LEMMA VisitArgumentKeeps ==
  ASSUME WalkInv, NodesClosed, VisitArgument
  PROVE  WalkInv'
<1> DEFINE h == Head(Caller.args)
           Calls == [node : DOMAIN nodes, args : Seq(DOMAIN nodes)]
<1>1. /\ pc = "visit" /\ Visiting /\ ~Visited(h) /\ walk' = Append(Walked, Visit(h))
      /\ UNCHANGED <<pc, refusal, nodes, finished>>
      /\ WalkTyped /\ Chained /\ Accounted /\ Ordered
  BY DEF WalkInv, VisitArgument, Visiting
<1>2. \A id : Reads(id)' = Reads(id) /\ Register(id)' = Register(id) /\ Visited(id)' = Visited(id)
  BY <1>1, SameNodes DEF Visited
<1>3. Ordered'
  BY <1>1, <1>2 DEF Ordered
<1> DEFINE n == Len(walk)
<1>4. /\ n \in Nat \ {0} /\ Walked \in Seq(Calls) /\ Len(Walked) = n
      /\ \A j \in 1 .. n : Walked[j].node = walk[j].node
      /\ \A j \in 1 .. n - 1 : Walked[j] = walk[j]
      /\ h \in DOMAIN nodes
      /\ ToSet(walk[n].args) = {h} \cup ToSet(Walked[n].args)
  BY <1>1, WalkedShape
<1> HIDE DEF h, n
<1>5. Visit(h) \in Calls /\ Visit(h).node = h /\ Visit(h).args = Reads(h)
  BY <1>4 DEF Visit, NodesClosed
<1> HIDE DEF Calls
<1>6. /\ walk' \in Seq(Calls) /\ Len(walk') = n + 1
      /\ \A j \in 1 .. n : walk'[j] = Walked[j]
      /\ walk'[n + 1] = Visit(h)
  BY <1>1, <1>4, <1>5, AppendProperties
<1>7. WalkTyped'
  BY <1>1, <1>6 DEF WalkTyped, Calls
<1>8. ASSUME NEW j \in 1 .. n + 1  PROVE ChainedAt(j)' /\ AccountedAt(j)'
  <2>1. CASE j = n + 1
    <3>1. ~Register(h)
      BY <1>1 DEF Visited
    <3>2. ~(j < Len(walk'))
      BY <2>1, <1>4, <1>6
    <3> QED
      BY <2>1, <3>1, <3>2, <1>2, <1>5, <1>6 DEF ChainedAt, AccountedAt
  <2>2. CASE j = n
    <3>1. ChainedAt(n) /\ AccountedAt(n) /\ n \in 1 .. n /\ n = Len(walk)
      BY <1>1, <1>4 DEF Chained, Accounted, n
    <3>2. /\ walk'[j].node = walk[n].node /\ walk'[j].args = Walked[n].args
          /\ walk'[j + 1].node = h /\ j < Len(walk')
      BY <2>2, <3>1, <1>4, <1>5, <1>6
    <3>3. ChainedAt(j)'
      BY <3>1, <3>2, <1>2, <1>4 DEF ChainedAt
    <3>4. AccountedAt(j)'
      BY <3>1, <3>2, <1>2, <1>4 DEF AccountedAt
    <3> QED
      BY <3>3, <3>4
  <2>3. CASE j < n
    <3>1. /\ j \in 1 .. n - 1 /\ j \in 1 .. n /\ j + 1 \in 1 .. n
          /\ j < Len(walk') /\ j < Len(walk) /\ n = Len(walk)
      BY <2>3, <1>4, <1>6 DEF n
    <3>2. walk'[j] = walk[j] /\ walk'[j + 1].node = walk[j + 1].node
      BY <3>1, <1>4, <1>6
    <3>3. ChainedAt(j) /\ AccountedAt(j)
      BY <3>1, <1>1 DEF Chained, Accounted
    <3>4. ChainedAt(j)'
      BY <3>1, <3>2, <3>3, <1>2 DEF ChainedAt
    <3>5. AccountedAt(j)'
      BY <3>1, <3>2, <3>3, <1>2 DEF AccountedAt
    <3> QED
      BY <3>4, <3>5
  <2> QED
    BY <2>1, <2>2, <2>3, <1>4
<1>9. Chained' /\ Accounted'
  BY <1>6, <1>8 DEF Chained, Accounted
<1> QED
  BY <1>1, <1>3, <1>7, <1>9, VisitFrame

(* A node is finished when all it reads is visited, and it is what the call *)
(* before it was waiting for.                                              *)
LEMMA VisitDoneKeeps ==
  ASSUME WalkInv, NodesClosed, VisitDone
  PROVE  WalkInv'
<1>1. /\ pc = "visit" /\ refusal = "none" /\ walk # <<>> /\ Caller.args = <<>>
      /\ WalkTyped /\ Chained /\ Accounted /\ Ordered /\ UNCHANGED nodes
  BY DEF WalkInv, VisitDone, Refuse
<1>2. CASE nodes[Caller.node].driver = Pending
  <2>1. pc' = "refused" /\ refusal' = "unresolved" /\ UNCHANGED <<nodes, walk, finished>>
    BY <1>2 DEF VisitDone, Refuse, visitVars
  <2> QED
    BY <1>1, <2>1, SameWalk DEF WalkInv, WalkDecidesLoops
<1>3. CASE nodes[Caller.node].driver # Pending
  <2> DEFINE Calls == [node : DOMAIN nodes, args : Seq(DOMAIN nodes)]
             c == Caller.node
             n == Len(walk)
             f == Len(finished)
  <2>1. /\ finished' = Append(finished, c) /\ walk' = Front(walk)
        /\ UNCHANGED <<pc, refusal>>
    BY <1>3 DEF VisitDone
  <2>2. walk \in Seq(Calls) /\ finished \in Seq(DOMAIN nodes)
    BY <1>1 DEF WalkTyped
  <2>3. /\ n \in Nat \ {0} /\ Caller = walk[n] /\ Caller \in Calls
        /\ walk' \in Seq(Calls) /\ Len(walk') = n - 1
        /\ \A j \in 1 .. n - 1 : walk'[j] = walk[j]
    BY <1>1, <2>1, <2>2, FrontAndLast DEF Caller
  <2>4. c \in DOMAIN nodes /\ walk[n].node = c /\ walk[n].args = <<>>
    BY <2>3, <1>1
  <2> HIDE DEF c, Calls
  <2>5. /\ f \in Nat /\ DOMAIN finished = 1 .. f /\ finished' \in Seq(DOMAIN nodes)
        /\ Len(finished') = f + 1 /\ DOMAIN finished' = 1 .. f + 1
        /\ \A k \in 1 .. f : finished'[k] = finished[k]
        /\ finished'[f + 1] = c
    BY <2>1, <2>2, <2>4, AppendProperties, LenProperties
  <2>6. WalkTyped'
    BY <1>1, <2>3, <2>5 DEF WalkTyped, Calls
  <2> HIDE DEF f
  <2>7. ToSet(finished') = ToSet(finished) \cup {c}
    <3>1. ASSUME NEW k \in 1 .. f + 1  PROVE finished'[k] \in ToSet(finished) \cup {c}
      <4>1. k = f + 1 \/ k \in 1 .. f
        BY <2>5
      <4> QED
        BY <4>1, <2>5 DEF ToSet
    <3>2. ASSUME NEW k \in 1 .. f  PROVE finished[k] \in ToSet(finished')
      <4>1. k \in 1 .. f + 1
        BY <2>5
      <4> QED
        BY <4>1, <2>5 DEF ToSet
    <3>3. c \in ToSet(finished')
      <4>1. f + 1 \in 1 .. f + 1
        BY <2>5
      <4> QED
        BY <4>1, <2>5 DEF ToSet
    <3> QED
      BY <3>1, <3>2, <3>3, <2>5 DEF ToSet
  <2>8. /\ \A id : Reads(id)' = Reads(id) /\ Register(id)' = Register(id)
        /\ \A id : Visited(id)' <=> Visited(id) \/ id = c
    BY <1>1, <2>7, SameNodes DEF Visited
  <2>9. \A id \in ToSet(Reads(c)) : Visited(id)
    <3>1. AccountedAt(n) /\ ~(n < Len(walk))
      BY <1>1, <2>3 DEF Accounted
    <3>2. ToSet(walk[n].args) = {}
      BY <2>4, EmptySeq, ToSetInside
    <3> QED
      BY <3>1, <3>2, <2>4 DEF AccountedAt
  <2> HIDE DEF n
  <2>10. ASSUME NEW j \in 1 .. n - 1  PROVE ChainedAt(j)' /\ AccountedAt(j)'
    <3>1. /\ j \in 1 .. n /\ n = Len(walk) /\ j < Len(walk)
          /\ (j < Len(walk') => j + 1 \in 1 .. n - 1) /\ (j < Len(walk') \/ j + 1 = n)
      BY <2>3 DEF n
    <3>2. ChainedAt(j) /\ AccountedAt(j) /\ walk'[j] = walk[j]
      BY <1>1, <2>3, <3>1 DEF Chained, Accounted
    <3>3. j < Len(walk') => walk'[j + 1] = walk[j + 1]
      BY <3>1, <2>3
    <3>4. ChainedAt(j)'
      BY <3>1, <3>2, <3>3, <2>8 DEF ChainedAt
    <3>5. AccountedAt(j)'
      BY <3>1, <3>2, <3>3, <2>4, <2>8 DEF AccountedAt
    <3> QED
      BY <3>4, <3>5
  <2>11. Chained' /\ Accounted'
    BY <2>3, <2>10 DEF Chained, Accounted
  <2>12. Ordered'
    <3> SUFFICES ASSUME NEW k \in 1 .. f + 1, NEW id \in ToSet(Reads(finished'[k])), ~Register(id)
                 PROVE  \E j \in 1 .. k - 1 : finished'[j] = id
      BY <2>5, <2>8 DEF Ordered
    <3>1. CASE k \in 1 .. f
      <4>1. PICK j \in 1 .. k - 1 : finished[j] = id
        BY <3>1, <1>1, <2>5 DEF Ordered
      <4>2. j \in 1 .. f
        BY <3>1, <4>1, <2>5
      <4> QED
        BY <4>1, <4>2, <2>5
    <3>2. CASE k = f + 1
      <4>1. id \in ToSet(finished)
        BY <3>2, <2>5, <2>9 DEF Visited
      <4>2. PICK j \in 1 .. f : finished[j] = id
        BY <4>1, <2>5 DEF ToSet
      <4>3. j \in 1 .. k - 1
        BY <3>2, <2>5
      <4> QED
        BY <4>2, <4>3, <2>5
    <3> QED
      BY <3>1, <3>2, <2>5
  <2> QED
    BY <1>1, <2>1, <2>6, <2>11, <2>12, VisitFrame
<1> QED
  BY <1>2, <1>3

(* The checks that follow the walk leave its result alone.                  *)
LEMMA CheckKeeps ==
  ASSUME WalkInv, Check
  PROVE  WalkInv'
<1>1. /\ pc = "check" /\ refusal = "none" /\ UNCHANGED <<nodes, walk, finished>> /\ WalkTyped
      /\ Ordered /\ \A id \in DOMAIN nodes : Visited(id)
      /\ \/ pc' = "refused" /\ refusal' \in {"types", "clock", "clock as data"}
         \/ pc' = "accepted" /\ refusal' = refusal
  BY DEF WalkInv, WalkDecidesLoops, Check, Refuse, visitVars
<1>2. \A id : Reads(id)' = Reads(id) /\ Register(id)' = Register(id) /\ Visited(id)' = Visited(id)
  BY <1>1, SameNodes DEF Visited
<1>3. Ordered' /\ \A id \in DOMAIN nodes' : Visited(id)'
  BY <1>1, <1>2, ZenonT(30) DEF Ordered
<1> QED
  BY <1>1, <1>3, SameWalk DEF WalkInv, WalkDecidesLoops

(* visit and the checks after it only read what is built.                   *)
LEMMA BuiltStays ==
  ASSUME Built, WalkInv,
         VisitNext \/ VisitSkip \/ VisitCycle \/ VisitArgument \/ VisitDone \/ Check \/ UNCHANGED vars
  PROVE  Built'
<1>1. CASE \E why : why # "none" /\ Refuse(why)
  BY <1>1, RefusalKeeps
<1>2. CASE /\ UNCHANGED <<given, refusal, nodes, frames, inputs, outputs, clock>>
           /\ (pc' = "refused" <=> pc = "refused") /\ (pc' = "start" => pc = "start")
  BY <1>2 DEF Built, File
<1>3. CASE VisitNext
  BY <1>2, <1>3 DEF VisitNext, buildVars
<1>4. CASE VisitSkip \/ VisitArgument
  BY <1>2, <1>4 DEF VisitSkip, VisitArgument, buildVars
<1>5. CASE VisitCycle
  BY <1>1, <1>5 DEF VisitCycle
<1>6. CASE VisitDone
  BY <1>1, <1>2, <1>6 DEF VisitDone, buildVars
<1>7. CASE Check
  BY <1>1, <1>2, <1>7 DEF Check, buildVars
<1>8. CASE UNCHANGED vars
  BY <1>2, <1>8 DEF vars, buildVars
<1> QED
  BY <1>3, <1>4, <1>5, <1>6, <1>7, <1>8

LEMMA BuiltIsClosed ==
  ASSUME Built
  PROVE  NodesClosed
<1>1. DOMAIN nodes = 1 .. Len(nodes) /\ Len(nodes) \in Nat
  BY ListParts DEF Built, NodesFit
<1>2. ASSUME NEW id \in DOMAIN nodes  PROVE Reads(id) \in Seq(DOMAIN nodes)
  <2>1. NodeFits(nodes, nodes[id])
    BY DEF Built, NodesFit
  <2>2. <<>> \in Seq(DOMAIN nodes)
    BY EmptySeq
  <2>3. ASSUME NEW x \in DOMAIN nodes  PROVE <<x>> \in Seq(DOMAIN nodes)
    OBVIOUS
  <2> QED
    BY <2>1, <2>2, <2>3 DEF NodeFits, Reads
<1> QED
  BY <1>1, <1>2 DEF NodesClosed

--------------------------------------------------------------------------------
(* For every set of conversions: the two parts of the invariant together.   *)
IInv == Built /\ WalkInv

LEMMA IInvHolds ==
  BuildSpec => []IInv
<1>1. Init => IInv
  <2> SUFFICES ASSUME Init  PROVE IInv
    OBVIOUS
  <2>1. /\ nodes = <<>> /\ frames = <<>> /\ inputs = <<>> /\ outputs = <<>> /\ walk = <<>> /\ finished = <<>>
        /\ clock = 0 /\ pc = "start" /\ refusal = "none" /\ given \in Conversions
    BY DEF Init
  <2>2. NodesFit(nodes) /\ Len(nodes) = 0 /\ DOMAIN nodes = {}
    <3>1. nodes \in Seq({}) /\ Len(nodes) = 0
      BY <2>1, EmptySeq
    <3>2. DOMAIN nodes = {}
      BY <3>1, LenProperties
    <3> QED
      BY <3>1, <3>2, SeqIsList DEF NodesFit
  <2>3. StackFits(File, nodes, frames)
    BY <2>1, EmptySeq DEF StackFits
  <2>4. Built
    BY <2>1, <2>2, <2>3, EmptySeq DEF Built
  <2>5. WalkTyped
    BY <2>1, EmptySeq DEF WalkTyped
  <2> QED
    BY <2>1, <2>4, <2>5 DEF IInv, WalkInv, WalkDecidesLoops
<1>2. IInv /\ [Build]_vars => IInv'
  <2> SUFFICES ASSUME Built, WalkInv, [Build]_vars  PROVE Built' /\ WalkInv'
    BY DEF IInv
  <2>1. NodesClosed
    BY BuiltIsClosed
  <2>2. CASE Start
    BY <2>2, StartKeeps, ExpandKeeps
  <2>3. CASE Expand
    <3>1. Built'
      BY <2>3, EnterKeeps, DeclareKeeps, RefuseValueKeeps, CallInstanceKeeps, SetOutputsKeeps,
         AddPropertyKeeps, SetDriverKeeps, ReturnKeeps DEF Expand
    <3> QED
      BY <2>3, <3>1, ExpandKeeps
  <2>4. CASE VisitNext
    BY <2>1, <2>4, BuiltStays, VisitNextKeeps
  <2>5. CASE VisitSkip
    BY <2>1, <2>5, BuiltStays, VisitSkipKeeps
  <2>6. CASE VisitCycle
    BY <2>1, <2>6, BuiltStays, VisitCycleKeeps
  <2>7. CASE VisitArgument
    BY <2>1, <2>7, BuiltStays, VisitArgumentKeeps
  <2>8. CASE VisitDone
    BY <2>1, <2>8, BuiltStays, VisitDoneKeeps
  <2>9. CASE Check
    BY <2>9, BuiltStays, CheckKeeps
  <2>10. CASE UNCHANGED vars
    <3>1. UNCHANGED <<pc, refusal, nodes, walk, finished>>
      BY <2>10 DEF vars, visitVars
    <3>2. \A id : Reads(id)' = Reads(id) /\ Register(id)' = Register(id) /\ Visited(id)' = Visited(id)
      BY <3>1, SameNodes DEF Visited
    <3>3. /\ WalkTyped => WalkTyped'
          /\ Ordered => Ordered'
      BY <3>1, <3>2 DEF WalkTyped, Ordered
    <3>4. Chained => Chained'
      BY <3>1, <3>2 DEF Chained, ChainedAt
    <3>5. Accounted => Accounted'
      BY <3>1, <3>2 DEF Accounted, AccountedAt
    <3>6. WalkDecidesLoops => WalkDecidesLoops'
      BY <3>1, <3>2, <3>3 DEF WalkDecidesLoops, Circle
    <3>7. WalkInv'
      BY <3>1, <3>3, <3>4, <3>5, <3>6 DEF WalkInv
    <3> QED
      BY <2>10, <3>7, BuiltStays
  <2> QED
    BY <2>2, <2>3, <2>4, <2>5, <2>6, <2>7, <2>8, <2>9, <2>10 DEF Build
<1> QED
  BY <1>1, <1>2, PTL DEF BuildSpec

(* For every set of conversions: whatever the calls of expand and of visit  *)
(* hold, and whatever a node reads, is a node that is there.                *)
THEOREM GraphTypeCorrect ==
  BuildSpec => []TypeOK
<1>1. IInv => TypeOK
  <2> SUFFICES ASSUME Built, WalkInv  PROVE TypeOK
    BY DEF IInv
  <2>1. /\ given \in Conversions /\ (pc = "refused" <=> refusal # "none")
        /\ inputs \in Seq(DOMAIN nodes) /\ outputs \in Seq(DOMAIN nodes) /\ clock \in 0 .. Len(nodes)
        /\ frames \in Seq(Frames(File, nodes))
    BY DEF Built, StackFits
  <2>2. ASSUME NEW k \in DOMAIN frames
        PROVE  /\ frames[k].bindings \in Seq(DOMAIN nodes) /\ frames[k].outputs \in Seq(DOMAIN nodes)
               /\ \A i \in DOMAIN frames[k].results : frames[k].results[i] \in Seq(DOMAIN nodes)
    <3>1. frames[k] \in Frames(File, nodes)
      BY <2>1, LenProperties
    <3>2. /\ frames[k].bindings \in Seq(DOMAIN nodes) /\ frames[k].outputs \in Seq(DOMAIN nodes)
          /\ frames[k].results \in Seq(Seq(DOMAIN nodes))
      BY <3>1 DEF Frames
    <3> QED
      BY <3>2, LenProperties
  <2> QED
    BY <2>1, <2>2, BuiltIsClosed DEF TypeOK, WalkInv, WalkTyped
<1> QED
  BY <1>1, IInvHolds, PTL

(* For every set of conversions: the walk decides whether there is a        *)
(* combinational loop, as WalkDecidesLoops says.                            *)
THEOREM LoopsAreDecided ==
  BuildSpec => []WalkDecidesLoops
<1>1. IInv => WalkDecidesLoops
  BY DEF IInv, WalkInv
<1> QED
  BY <1>1, IInvHolds, PTL
================================================================================
