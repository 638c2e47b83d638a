-------------------------------- MODULE FsmProofs -------------------------------
(****************************************************************************)
(* Facts about the data of formal-utils: the shape of drivers, the values   *)
(* of gates, what knows less, the passes of eval, and the numbering of      *)
(* groups.                                                                  *)
(****************************************************************************)
EXTENDS Fsm, FiniteSetTheorems, SequenceTheorems, WellFoundedInduction, TLAPS

(* Every non-empty set of naturals has a least element.                    *)
LEMMA LeastNatural ==
  ASSUME NEW T, T \subseteq Nat, T # {}
  PROVE  \E x \in T : \A y \in T : x <= y
<1>1. PICK x \in T : \A y \in T : ~ (<<y, x>> \in OpToRel(<, Nat))
  BY NatLessThanWellFounded, WFMin
<1>2. \A y \in T : ~ (y < x)
  BY <1>1 DEF OpToRel
<1> QED
  BY <1>2

(* What the kind of a driver says about its shape.                         *)
LEMMA DriverShape ==
  ASSUME NEW m, WellFormed(m), NEW i \in VarsOf(m)
  PROVE  /\ m.size \in Nat /\ m.driver[i] \in Drivers(m.size)
         /\ i \in Gates(m) => m.driver[i] \in GateDrivers(m.size)
         /\ i \in Latches(m) => m.driver[i] \in LatchDrivers(m.size)
         /\ i \in Inputs(m) => m.driver[i] = InputDriver
         /\ i \in Driven(m) => i \in Gates(m) \cup Latches(m) \cup Inputs(m)
         /\ i \in Gates(m) \cup Latches(m) \cup Inputs(m) => i \in Driven(m)
<1>1. m.size \in Nat /\ m.driver[i] \in Drivers(m.size)
  BY DEF WellFormed, Machine, VarsOf
<1> QED
  BY <1>1 DEF Drivers, NoDriver, InputDriver, LatchDrivers, GateDrivers, Gates, Latches, Inputs,
              Driven, Kind

(* The driven variables of an FSM are its inputs, latches and gates.        *)
LEMMA KindsOf ==
  ASSUME NEW m, WellFormed(m)
  PROVE  /\ m.size \in Nat /\ VarsOf(m) \subseteq Nat /\ IsFiniteSet(VarsOf(m))
         /\ Inputs(m) \in SUBSET VarsOf(m) /\ Latches(m) \in SUBSET VarsOf(m)
         /\ Gates(m) \in SUBSET VarsOf(m)
         /\ Inputs(m) \cap Latches(m) = {} /\ Inputs(m) \cap Gates(m) = {}
         /\ Latches(m) \cap Gates(m) = {}
         /\ Driven(m) = Inputs(m) \cup Latches(m) \cup Gates(m)
<1>1. m.size \in Nat /\ VarsOf(m) \subseteq Nat
  BY DEF WellFormed, VarsOf
<1>2. IsFiniteSet(VarsOf(m))
  <2>1. 0 \in Int /\ m.size - 1 \in Int
    BY <1>1
  <2> QED
    BY <2>1, FS_Interval DEF VarsOf
<1>3. \A i \in Driven(m) : i \in Gates(m) \cup Latches(m) \cup Inputs(m)
  BY DriverShape DEF Driven
<1> QED
  BY <1>1, <1>2, <1>3 DEF Inputs, Latches, Gates, Driven, Kind

(* The constructor of a gate sorts its inputs and loses none.              *)
LEMMA GateDriverSorts ==
  ASSUME NEW n \in Nat, NEW a \in Values(n), NEW b \in Values(n),
         NEW s \in BOOLEAN, NEW t \in {"And", "Or"}
  PROVE  /\ GateDriver(s, t, a, b) \in GateDrivers(n)
         /\ GateInputs(GateDriver(s, t, a, b)) = {a, b}
         /\ Precedes(GateDriver(s, t, a, b).a, GateDriver(s, t, a, b).b)
<1> DEFINE g == [kind |-> "gate", sign |-> s, type |-> t, a |-> a, b |-> b]
<1>1. g \in GateDrivers(n) /\ g.a = a /\ g.b = b
  BY DEF GateDrivers
<1>2. a.index \in Int /\ b.index \in Int /\ a.sign \in BOOLEAN /\ b.sign \in BOOLEAN
  BY DEF Values, NoVar
<1>3. Precedes(a, b) \/ Precedes(b, a)
  BY <1>2 DEF Precedes
<1>4. CASE Precedes(a, b)
  <2>1. GateDriver(s, t, a, b) = g
    BY <1>1, <1>4 DEF GateDriver, SortInputs
  <2> QED
    BY <1>1, <1>4, <2>1 DEF GateInputs
<1>5. CASE ~Precedes(a, b)
  <2>1. GateDriver(s, t, a, b) = [kind |-> "gate", sign |-> s, type |-> t, a |-> b, b |-> a]
    BY <1>1, <1>5 DEF GateDriver, SortInputs
  <2> QED
    BY <1>3, <1>5, <2>1 DEF GateInputs, GateDrivers
<1> QED
  BY <1>4, <1>5

--------------------------------------------------------------------------------
(* An operand of a gate is a constant or names a variable of the FSM.      *)
LEMMA OperandType ==
  ASSUME NEW m, WellFormed(m), NEW g \in Gates(m), NEW v \in GateInputs(m.driver[g])
  PROVE  /\ v.sign \in BOOLEAN
         /\ v.index # NoVar => v.index \in VarsOf(m)
<1>1. m.driver[g] \in Drivers(m.size) /\ m.driver[g].kind = "gate"
  BY DEF Gates, Kind, VarsOf, WellFormed, Machine
<1>2. m.driver[g] \in GateDrivers(m.size)
  BY <1>1 DEF Drivers, NoDriver, InputDriver, LatchDrivers
<1>3. v \in Values(m.size)
  BY <1>2 DEF GateDrivers, GateInputs
<1> QED
  BY <1>3 DEF Values, VarsOf, NoVar

(* Drivers of latches have a reset and an input.                           *)
LEMMA LatchType ==
  ASSUME NEW m, WellFormed(m), NEW l \in Latches(m)
  PROVE  /\ m.driver[l].reset \in Ternary
         /\ m.driver[l].input.sign \in BOOLEAN
         /\ m.driver[l].input.index # NoVar => m.driver[l].input.index \in VarsOf(m)
<1>1. m.driver[l] \in Drivers(m.size) /\ m.driver[l].kind = "latch"
  BY DEF Latches, Kind, VarsOf, WellFormed, Machine
<1>2. m.driver[l] \in LatchDrivers(m.size)
  BY <1>1 DEF Drivers, NoDriver, InputDriver, GateDrivers
<1> QED
  BY <1>2 DEF LatchDrivers, Values, VarsOf, NoVar

(* The operators on three values stay within them.                         *)
LEMMA TernaryClosed ==
  /\ \A t \in Ternary, b \in BOOLEAN : FlipTernary(t, b) \in Ternary
  /\ \A type, inputs : EvalGate(type, inputs) \in Ternary
<1>1. \A t \in Ternary, b \in BOOLEAN : FlipTernary(t, b) \in Ternary
  BY DEF FlipTernary, Ternary
<1>2. \A type, inputs : EvalGate(type, inputs) \in Ternary
  BY DEF EvalGate, Controlling, FlipTernary, Ternary
<1> QED
  BY <1>1, <1>2

(* Whatever the variables hold, a gate is given one of the three values.   *)
LEMMA GateValueType ==
  ASSUME NEW m, NEW vals, NEW g
  PROVE  GateValue(m, vals, g) \in Ternary
<1> DEFINE b == ~m.driver[g].sign
           t == EvalGate(m.driver[g].type,
                         {Signed(vals, v) : v \in GateInputs(m.driver[g])})
<1>1. t \in Ternary
  BY TernaryClosed
<1>2. FlipTernary(t, b) \in Ternary
  BY <1>1 DEF FlipTernary, Ternary
<1> QED
  BY <1>2 DEF GateValue

(* A signed value is one of the three when the variable is.                *)
LEMMA SignedType ==
  ASSUME NEW S, NEW vals \in [S -> Ternary], NEW v, v.index # NoVar => v.index \in S
  PROVE  Signed(vals, v) \in Ternary
BY DEF Signed, FlipTernary, Ternary

(* A latch takes one of the three values at the edge and at reset.         *)
LEMMA LatchValueType ==
  ASSUME NEW m, WellFormed(m), NEW vals \in [VarsOf(m) -> Ternary], NEW l \in Latches(m)
  PROVE  LatchNext(m, vals, l) \in Ternary /\ LatchReset(m, l) \in Ternary
<1>1. Signed(vals, m.driver[l].input) \in Ternary
  BY LatchType, SignedType
<1>2. m.driver[l].reset \in Ternary
  BY LatchType
<1> QED
  BY <1>1, <1>2 DEF LatchNext, LatchReset, FlipTernary, Ternary

(* In an ordered FSM a gate's value depends on lower indices only.         *)
LEMMA GateValueLocal ==
  ASSUME NEW m, WellFormed(m), OrderedGates(m), NEW g \in Gates(m), NEW u, NEW w,
         \A i \in VarsOf(m) : i < g => u[i] = w[i]
  PROVE  GateValue(m, u, g) = GateValue(m, w, g)
<1>1. ASSUME NEW v \in GateInputs(m.driver[g])
      PROVE  Signed(u, v) = Signed(w, v)
  <2>1. v.index # NoVar => v.index \in VarsOf(m) /\ v.index < g
    BY OperandType DEF OrderedGates
  <2> QED
    BY <2>1 DEF Signed
<1>2. {Signed(u, v) : v \in GateInputs(m.driver[g])}
        = {Signed(w, v) : v \in GateInputs(m.driver[g])}
  BY <1>1
<1> QED
  BY <1>2 DEF GateValue

--------------------------------------------------------------------------------
(* A value that is unknown or right stays so when it is inverted.          *)
LEMMA FlipKnows ==
  ASSUME NEW t, NEW x, t \in {"X", x}, NEW b \in BOOLEAN
  PROVE  FlipTernary(t, b) \in {"X", FlipTernary(x, b)}
BY DEF FlipTernary

(* Inverting twice changes nothing.                                        *)
LEMMA FlipTwice ==
  ASSUME NEW t \in Ternary, NEW b \in BOOLEAN
  PROVE  FlipTernary(FlipTernary(t, b), b) = t /\ FlipTernary(t, FALSE) = t
         /\ (FlipTernary(t, b) = "X" <=> t = "X")
BY DEF FlipTernary, Ternary

(* A gate that knows less of its inputs is unknown or right.               *)
LEMMA EvalKnows ==
  ASSUME NEW type \in {"And", "Or"}, NEW x \in Ternary, NEW y \in Ternary,
         NEW a \in {"X", x}, NEW b \in {"X", y}
  PROVE  EvalGate(type, {a, b}) \in {"X", EvalGate(type, {x, y})}
BY DEF EvalGate, Controlling, FlipTernary, Ternary

--------------------------------------------------------------------------------
(* Iteration c of eval leaves the gates up to c with the values their       *)
(* inputs give them.                                                       *)
Passed(m, vals, c) == \A g \in Gates(m) : g < c => vals[g] = GateValue(m, vals, g)
Pass(m, vals, c) == IF c \in Gates(m) THEN [vals EXCEPT ![c] = GateValue(m, vals, c)] ELSE vals
LEMMA PassSettles ==
  ASSUME NEW m, WellFormed(m), OrderedGates(m), NEW c \in VarsOf(m),
         NEW vals \in [VarsOf(m) -> Ternary], Passed(m, vals, c)
  PROVE  Pass(m, vals, c) \in [VarsOf(m) -> Ternary] /\ Passed(m, Pass(m, vals, c), c + 1)
<1> DEFINE w == Pass(m, vals, c)
<1>1. /\ w \in [VarsOf(m) -> Ternary] /\ Gates(m) \subseteq VarsOf(m) /\ VarsOf(m) \subseteq Int
      /\ \A i \in VarsOf(m) : i # c => w[i] = vals[i]
      /\ c \in Gates(m) => w[c] = GateValue(m, vals, c)
  BY GateValueType DEF Pass, Gates, Kind, VarsOf
<1>2. ASSUME NEW g \in Gates(m), g < c + 1 PROVE w[g] = GateValue(m, w, g)
  <2>1. g \in VarsOf(m) /\ g \in Int /\ c \in Int
    BY <1>1
  <2>2. \A i \in VarsOf(m) : i < g => vals[i] = w[i]
    BY <1>1, <1>2, <2>1
  <2>3. GateValue(m, vals, g) = GateValue(m, w, g)
    BY <2>2, GateValueLocal
  <2>4. w[g] = GateValue(m, vals, g)
    BY <1>1, <1>2, <2>1 DEF Passed
  <2> QED
    BY <2>3, <2>4
<1> QED
  BY <1>1, <1>2 DEF Passed

(* The clock edge.                                                         *)
Edged(m, vals) == [i \in VarsOf(m) |-> IF i \in Latches(m) THEN LatchNext(m, vals, i) ELSE vals[i]]

(* A simulator with variables vals, the cursor of eval at c and the flag f: *)
(* eval has settled the gates it passed.                                   *)
Settles(m, vals, c, f) ==
  /\ vals \in [VarsOf(m) -> Ternary] /\ c \in 0 .. m.size /\ f \in BOOLEAN
  /\ f => c = m.size
  /\ c # m.size \/ f => Passed(m, vals, c)

LEMMA SettlesCalls ==
  ASSUME NEW m, WellFormed(m), OrderedGates(m), NEW vals, NEW c, NEW f, Settles(m, vals, c, f)
  PROVE  /\ c # m.size => Settles(m, Pass(m, vals, c), c + 1, c + 1 = m.size)
         /\ Settles(m, vals, 0, m.size = 0)
         /\ \A w \in [VarsOf(m) -> Ternary] : Settles(m, w, m.size, FALSE)
         /\ Edged(m, vals) \in [VarsOf(m) -> Ternary]
         /\ f = TRUE => \A g \in Gates(m) : vals[g] = GateValue(m, vals, g)
<1>1. m.size \in Nat /\ c \in 0 .. m.size /\ vals \in [VarsOf(m) -> Ternary]
      /\ Gates(m) \subseteq VarsOf(m)
  BY KindsOf DEF Settles
<1>2. ASSUME c # m.size PROVE Settles(m, Pass(m, vals, c), c + 1, c + 1 = m.size)
  <2>1. c \in VarsOf(m) /\ c + 1 \in 0 .. m.size
    BY <1>1, <1>2 DEF VarsOf
  <2>2. Passed(m, vals, c)
    BY <1>2 DEF Settles
  <2>3. Pass(m, vals, c) \in [VarsOf(m) -> Ternary] /\ Passed(m, Pass(m, vals, c), c + 1)
    BY <1>1, <2>1, <2>2, PassSettles
  <2> QED
    BY <2>1, <2>3 DEF Settles
<1>3. Settles(m, vals, 0, m.size = 0)
  <2>1. Passed(m, vals, 0)
    BY <1>1 DEF Passed, VarsOf
  <2> QED
    BY <1>1, <2>1 DEF Settles
<1>4. \A w \in [VarsOf(m) -> Ternary] : Settles(m, w, m.size, FALSE)
  BY <1>1 DEF Settles
<1>5. Edged(m, vals) \in [VarsOf(m) -> Ternary]
  BY <1>1, LatchValueType DEF Edged
<1>6. f = TRUE => \A g \in Gates(m) : vals[g] = GateValue(m, vals, g)
  BY <1>1 DEF Settles, Passed, VarsOf
<1> QED
  BY <1>2, <1>3, <1>4, <1>5, <1>6

--------------------------------------------------------------------------------
(* How many members of a set are below one of them, and below another.     *)
LEMMA BelowCounts ==
  ASSUME NEW S \in SUBSET Nat, IsFiniteSet(S), NEW i \in Nat
  PROVE  /\ Cardinality(S) \in Nat /\ Below(S, i) \in 0 .. Cardinality(S)
         /\ i \in S => Below(S, i) < Cardinality(S)
         /\ i \in S => \A j \in Nat : i < j => Below(S, i) < Below(S, j)
<1> DEFINE L(k) == {j \in S : j < k}
<1>1. \A k \in Nat : IsFiniteSet(L(k)) /\ Cardinality(L(k)) \in 0 .. Cardinality(S)
  <2> TAKE k \in Nat
  <2>1. L(k) \in SUBSET S
    OBVIOUS
  <2>2. IsFiniteSet(L(k)) /\ Cardinality(L(k)) <= Cardinality(S)
    BY <2>1, FS_Subset
  <2> QED
    BY <2>2, FS_CardinalityType
<1>2. Cardinality(S) \in Nat
  BY FS_CardinalityType
<1>3. ASSUME i \in S, NEW T \in SUBSET S, IsFiniteSet(T), i \in T, L(i) \subseteq T
      PROVE  Cardinality(L(i)) < Cardinality(T)
  <2>1. L(i) \in SUBSET (T \ {i})
    BY <1>3
  <2>2. IsFiniteSet(T \ {i}) /\ Cardinality(T \ {i}) = Cardinality(T) - 1
    BY <1>3, FS_RemoveElement
  <2>3. Cardinality(L(i)) <= Cardinality(T \ {i})
    BY <2>1, <2>2, FS_Subset
  <2>4. Cardinality(L(i)) \in Nat /\ Cardinality(T) \in Nat
    BY <1>1, <1>3, FS_CardinalityType
  <2> QED
    BY <2>2, <2>3, <2>4
<1>4. i \in S => Cardinality(L(i)) < Cardinality(S)
  BY <1>3
<1>5. ASSUME i \in S, NEW j \in Nat, i < j PROVE Cardinality(L(i)) < Cardinality(L(j))
  <2>1. L(j) \in SUBSET S /\ i \in L(j) /\ L(i) \subseteq L(j) /\ IsFiniteSet(L(j))
    <3>1. IsFiniteSet(L(j))
      BY <1>1
    <3>2. \A k \in S : k \in Int /\ (k < i => k < j)
      BY <1>5
    <3> QED
      BY <1>5, <3>1, <3>2
  <2> QED
    BY <1>3, <1>5, <2>1
<1> QED
  BY <1>1, <1>2, <1>4, <1>5 DEF Below

(* The layout of three groups gives each index a place of its own, group   *)
(* after group, and keeps the order in each.                               *)
LEMMA GroupedPlaces ==
  ASSUME NEW A \in SUBSET Nat, NEW B \in SUBSET Nat, NEW C \in SUBSET Nat,
         IsFiniteSet(A), IsFiniteSet(B), IsFiniteSet(C),
         A \cap B = {}, A \cap C = {}, B \cap C = {}
  PROVE  /\ Cardinality(A) \in Nat /\ Cardinality(B) \in Nat /\ Cardinality(C) \in Nat
         /\ \A i \in A : Grouped(A, B, C, i) \in 0 .. Cardinality(A) - 1
         /\ \A i \in B : Grouped(A, B, C, i) \in Cardinality(A) .. Cardinality(A) + Cardinality(B) - 1
         /\ \A i \in C : Grouped(A, B, C, i) \in Cardinality(A) + Cardinality(B)
                                              .. Cardinality(A) + Cardinality(B) + Cardinality(C) - 1
         /\ \A i, j \in A \cup B \cup C : Grouped(A, B, C, i) = Grouped(A, B, C, j) => i = j
         /\ \A i, j \in A : i < j => Grouped(A, B, C, i) < Grouped(A, B, C, j)
         /\ \A i, j \in B : i < j => Grouped(A, B, C, i) < Grouped(A, B, C, j)
         /\ \A i, j \in C : i < j => Grouped(A, B, C, i) < Grouped(A, B, C, j)
<1> DEFINE P(i) == Grouped(A, B, C, i)
           na == Cardinality(A)
           nb == Cardinality(B)
           nc == Cardinality(C)
<1>1. na \in Nat /\ nb \in Nat /\ nc \in Nat
  BY FS_CardinalityType
<1>2. ASSUME NEW i \in A
      PROVE  P(i) = Below(A, i) /\ P(i) \in 0 .. na - 1
  <2>1. P(i) = Below(A, i)
    BY DEF Grouped
  <2> QED
    BY <1>1, <2>1, BelowCounts
<1>3. ASSUME NEW i \in B
      PROVE  P(i) = na + Below(B, i) /\ P(i) \in na .. na + nb - 1
  <2>1. P(i) = na + Below(B, i)
    BY DEF Grouped
  <2>2. Below(B, i) \in 0 .. nb - 1
    BY <1>1, BelowCounts
  <2> QED
    BY <1>1, <2>1, <2>2
<1>4. ASSUME NEW i \in C
      PROVE  P(i) = na + nb + Below(C, i) /\ P(i) \in na + nb .. na + nb + nc - 1
  <2>1. P(i) = na + nb + Below(C, i)
    BY DEF Grouped
  <2>2. Below(C, i) \in 0 .. nc - 1
    BY <1>1, BelowCounts
  <2> QED
    BY <1>1, <2>1, <2>2
<1>5. ASSUME NEW S \in {A, B, C}, NEW i \in S, NEW j \in S, i < j PROVE P(i) < P(j)
  <2>1. Below(S, i) < Below(S, j) /\ Below(S, i) \in Int /\ Below(S, j) \in Int
    BY <1>5, BelowCounts
  <2> QED
    BY <1>1, <1>2, <1>3, <1>4, <2>1
<1>6. ASSUME NEW i \in A \cup B \cup C, NEW j \in A \cup B \cup C, P(i) = P(j) PROVE i = j
  <2>1. \E S \in {A, B, C} : i \in S /\ j \in S
    BY <1>1, <1>2, <1>3, <1>4, <1>6
  <2>2. PICK S \in {A, B, C} : i \in S /\ j \in S
    BY <2>1
  <2>3. i \in Nat /\ j \in Nat /\ P(i) \in Int
    BY <1>1, <1>2, <1>3, <1>4
  <2>4. ~(i < j) /\ ~(j < i)
    BY <1>5, <1>6, <2>2, <2>3
  <2> QED
    BY <2>3, <2>4
<1>7. /\ \A i, j \in A : i < j => P(i) < P(j)
      /\ \A i, j \in B : i < j => P(i) < P(j)
      /\ \A i, j \in C : i < j => P(i) < P(j)
  BY <1>5
<1> HIDE DEF P
<1> QED
  BY <1>1, <1>2, <1>3, <1>4, <1>6, <1>7 DEF P

(* An injection into as many places as there are indices fills them all.    *)
LEMMA PlacesFilled ==
  ASSUME NEW S, IsFiniteSet(S), NEW f \in [S -> 0 .. Cardinality(S) - 1],
         \A i, j \in S : f[i] = f[j] => i = j
  PROVE  \A k \in 0 .. Cardinality(S) - 1 : \E i \in S : f[i] = k
<1> DEFINE n == Cardinality(S)
           T == 0 .. n - 1
<1>1. n \in Nat
  BY FS_CardinalityType
<1>2. IsFiniteSet(T) /\ Cardinality(T) = n
  <2>1. 0 \in Int /\ n - 1 \in Int
    BY <1>1
  <2>2. IsFiniteSet(T) /\ Cardinality(T) = IF 0 > n - 1 THEN 0 ELSE (n - 1) - 0 + 1
    BY <2>1, FS_Interval, Zenon
  <2> QED
    BY <1>1, <2>2
<1>3. f \in Injection(S, T)
  BY DEF Injection, IsInjective
<1>4. f \in Surjection(S, T)
  BY <1>2, <1>3, FS_Injection
<1> QED
  BY <1>4 DEF Surjection

--------------------------------------------------------------------------------
(* A function defined by recursion on a smaller argument exists: the       *)
(* argument p[n] of a call at n outside of stop, and what ext makes of its *)
(* value.                                                                  *)
Descends(V, p, stop, base, ext) ==
  /\ \A n \in Nat \ stop : p[n] \in Nat /\ p[n] < n
  /\ \A n \in Nat \cap stop : base[n] \in V
  /\ \A n \in Nat \ stop : \A x \in V : ext[<<n, x>>] \in V
Recurs(V, p, stop, base, ext, f) ==
  /\ f \in [Nat -> V]
  /\ \A n \in Nat : f[n] = IF n \in stop THEN base[n] ELSE ext[<<n, f[p[n]]>>]
LEMMA RecursionDefines ==
  ASSUME NEW V, NEW p, NEW stop, NEW base, NEW ext, Descends(V, p, stop, base, ext)
  PROVE  \E f : Recurs(V, p, stop, base, ext, f)
<1> DEFINE Step(g, k) == IF k \in stop THEN base[k] ELSE ext[<<k, g[p[k]]>>]
           Partial(n) == {g \in [0 .. n -> V] : \A k \in 0 .. n : g[k] = Step(g, k)}
           f == [n \in Nat |-> (CHOOSE g \in Partial(n) : TRUE)[n]]
<1>0. /\ \A n \in Nat \ stop : p[n] \in Nat /\ p[n] < n
      /\ \A n \in Nat \cap stop : base[n] \in V
      /\ \A n \in Nat \ stop : \A x \in V : ext[<<n, x>>] \in V
  BY DEF Descends
<1> USE <1>0
<1>1. ASSUME NEW n \in Nat, NEW h \in Nat, n <= h, NEW g \in Partial(n), NEW e \in Partial(h)
      PROVE  \A k \in 0 .. n : g[k] = e[k]
  <2> DEFINE Bad == {k \in 0 .. n : g[k] # e[k]}
  <2>1. SUFFICES ASSUME Bad # {} PROVE FALSE
    OBVIOUS
  <2>2. PICK k \in Bad : \A j \in Bad : k <= j
    <3>1. Bad \subseteq Nat
      OBVIOUS
    <3> HIDE DEF Bad
    <3> QED
      BY <2>1, <3>1, LeastNatural
  <2>3. k \in 0 .. n /\ k \in 0 .. h /\ k \in Nat
    BY <1>1
  <2>4. g[k] = Step(g, k) /\ e[k] = Step(e, k)
    BY <2>3
  <2>5. CASE k \in stop
    BY <2>4, <2>5
  <2>6. CASE k \notin stop
    <3>1. p[k] \in 0 .. n /\ p[k] < k
      BY <2>3, <2>6
    <3>2. g[p[k]] = e[p[k]]
      BY <2>2, <2>3, <3>1
    <3> QED
      BY <2>4, <2>6, <3>2
  <2> QED
    BY <2>5, <2>6
<1>2. \A n \in Nat : Partial(n) # {}
  <2> DEFINE Bad == {n \in Nat : Partial(n) = {}}
  <2>1. SUFFICES ASSUME Bad # {} PROVE FALSE
    OBVIOUS
  <2>2. PICK n \in Bad : \A j \in Bad : n <= j
    BY <2>1, LeastNatural
  <2>3. \A k \in 0 .. n - 1 : \E g \in Partial(k) : TRUE
    <3>1. \A k \in 0 .. n - 1 : k \in Nat /\ ~(n <= k)
      OBVIOUS
    <3>2. \A k \in 0 .. n - 1 : Partial(k) # {}
      BY <2>2, <3>1
    <3> HIDE DEF Partial
    <3> QED
      BY <3>2
  <2> DEFINE low == [k \in 0 .. n - 1 |-> f[k]]
             g == [k \in 0 .. n |-> Step(low, k)]
  <2>4. \A k \in 0 .. n - 1 : \E e \in Partial(k) : low[k] = e[k]
    <3> HIDE DEF Partial
    <3>1. \A k \in 0 .. n - 1 : low[k] = (CHOOSE e \in Partial(k) : TRUE)[k]
      OBVIOUS
    <3> HIDE DEF low
    <3> QED
      BY <2>3, <3>1
  <2>5. \A k \in 0 .. n - 1 : low[k] \in V /\ low[k] = Step(low, k)
    <3> TAKE k \in 0 .. n - 1
    <3>1. PICK e \in Partial(k) : low[k] = e[k]
      BY <2>4
    <3>2. e \in [0 .. k -> V] /\ e[k] = Step(e, k) /\ k \in Nat /\ k \in 0 .. k
      OBVIOUS
    <3>3. ASSUME k \notin stop PROVE low[p[k]] = e[p[k]]
      <4>1. p[k] \in Nat /\ p[k] < k
        BY <3>2, <3>3
      <4>2. p[k] \in 0 .. n - 1
        BY <4>1
      <4>3. PICK d \in Partial(p[k]) : low[p[k]] = d[p[k]]
        BY <2>4, <4>2
      <4>4. d[p[k]] = e[p[k]]
        <5>1. p[k] <= k /\ p[k] \in 0 .. p[k]
          BY <3>2, <4>1
        <5> HIDE DEF Partial
        <5> QED
          BY <1>1, <3>1, <3>2, <4>1, <4>3, <5>1
      <4> QED
        BY <4>3, <4>4
    <3> QED
      BY <3>1, <3>2, <3>3
  <2>6. \A k \in 0 .. n : Step(low, k) \in V
    <3> TAKE k \in 0 .. n
    <3>1. CASE k \in stop
      BY <3>1
    <3>2. CASE k \notin stop
      <4>1. p[k] \in 0 .. n - 1
        BY <3>2
      <4>2. low[p[k]] \in V
        BY <4>1, <2>5
      <4> HIDE DEF low
      <4> QED
        BY <3>2, <4>2
    <3> QED
      BY <3>1, <3>2
  <2>7. \A k \in 0 .. n : Step(g, k) = Step(low, k)
    <3> TAKE k \in 0 .. n
    <3>1. CASE k \in stop
      BY <3>1
    <3>2. CASE k \notin stop
      <4>1. p[k] \in 0 .. n - 1 /\ p[k] \in 0 .. n
        BY <3>2
      <4>2. g[p[k]] = low[p[k]]
        BY <4>1, <2>5
      <4> HIDE DEF low, g
      <4> QED
        BY <3>2, <4>2
    <3> QED
      BY <3>1, <3>2
  <2>8. g \in Partial(n)
    BY <2>6, <2>7
  <2> QED
    BY <2>2, <2>8
<1>3. \A n \in Nat : \E g \in Partial(n) : f[n] = g[n]
  BY <1>2
<1>4. \A n \in Nat : f[n] \in V /\ f[n] = Step(f, n)
  <2> TAKE n \in Nat
  <2>1. PICK g \in Partial(n) : f[n] = g[n]
    BY <1>3
  <2>2. g \in [0 .. n -> V] /\ g[n] = Step(g, n) /\ n \in 0 .. n
    OBVIOUS
  <2>3. ASSUME n \notin stop PROVE f[p[n]] = g[p[n]]
    <3>1. p[n] \in Nat /\ p[n] < n
      BY <2>3
    <3>2. PICK d \in Partial(p[n]) : f[p[n]] = d[p[n]]
      BY <1>3, <3>1
    <3>3. d[p[n]] = g[p[n]]
      <4>1. p[n] <= n /\ p[n] \in 0 .. p[n]
        BY <3>1
      <4> HIDE DEF Partial
      <4> QED
        BY <1>1, <2>1, <3>1, <3>2, <4>1
    <3> QED
      BY <3>2, <3>3
  <2> QED
    BY <2>1, <2>2, <2>3
<1>5. f \in [Nat -> V]
  BY <1>4
<1> HIDE DEF f
<1> QED
  BY <1>4, <1>5 DEF Recurs
================================================================================
