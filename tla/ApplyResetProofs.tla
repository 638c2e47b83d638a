---------------------------- MODULE ApplyResetProofs ----------------------------
(****************************************************************************)
(* What apply_reset guarantees for every FSM that verifies: the rebuilt FSM *)
(* verifies, and knows nothing wrong about the design under reset.          *)
(****************************************************************************)
EXTENDS ApplyReset, FsmProofs

(* What CasesAssumption says of the case that is run.                      *)
Accepted ==
  /\ WellFormed(design) /\ Verify(design)
  /\ tied \in Inputs(design) /\ active \in {"0", "1"}

(* The value of the rebuilt FSM for a value of the design.                 *)
Moved(v) == RemapValue(v, Mapping)
Size == Cardinality(Kept)

--------------------------------------------------------------------------------
(* Every driven variable but the tied input has a place of its own, and a   *)
(* gate's is above those of all that precede it.                           *)
LEMMA Places ==
  ASSUME Accepted
  PROVE  /\ Size \in Nat /\ Kept \subseteq VarsOf(design)
         /\ Driven(design) = Kept \cup {tied} /\ tied \notin Kept
         /\ \A i \in Kept : Place(i) \in 0 .. Size - 1
         /\ \A i, j \in Kept : Place(i) = Place(j) => i = j
         /\ \A k \in 0 .. Size - 1 : \E i \in Kept : Place(i) = k
         /\ \A i \in Kept, g \in Gates(design) :
              i < g \/ i \notin Gates(design) => i = g \/ Place(i) < Place(g)
<1> DEFINE A == FreeInputs
           B == Latches(design)
           C == Gates(design)
<1>1. /\ A \in SUBSET Nat /\ B \in SUBSET Nat /\ C \in SUBSET Nat
      /\ IsFiniteSet(A) /\ IsFiniteSet(B) /\ IsFiniteSet(C)
      /\ A \cap B = {} /\ A \cap C = {} /\ B \cap C = {}
  <2>1. /\ A \in SUBSET VarsOf(design) /\ B \in SUBSET VarsOf(design) /\ C \in SUBSET VarsOf(design)
        /\ VarsOf(design) \subseteq Nat /\ IsFiniteSet(VarsOf(design))
    BY KindsOf DEF Accepted, FreeInputs
  <2>2. IsFiniteSet(A) /\ IsFiniteSet(B) /\ IsFiniteSet(C)
    BY <2>1, FS_Subset
  <2> QED
    BY <2>1, <2>2, KindsOf DEF Accepted, FreeInputs
<1>2. /\ Cardinality(A) \in Nat /\ Cardinality(B) \in Nat /\ Cardinality(C) \in Nat
      /\ \A i \in A : Place(i) \in 0 .. Cardinality(A) - 1
      /\ \A i \in B : Place(i) \in Cardinality(A) .. Cardinality(A) + Cardinality(B) - 1
      /\ \A i \in C : Place(i) \in Cardinality(A) + Cardinality(B)
                                   .. Cardinality(A) + Cardinality(B) + Cardinality(C) - 1
      /\ \A i, j \in A \cup B \cup C : Place(i) = Place(j) => i = j
      /\ \A i, j \in C : i < j => Place(i) < Place(j)
  <2> HIDE DEF A, B, C
  <2>1. \A i : Place(i) = Grouped(A, B, C, i)
    BY DEF Place, A, B, C
  <2> QED
    BY <1>1, <2>1, GroupedPlaces
<1>3. IsFiniteSet(Kept) /\ Size = Cardinality(A) + Cardinality(B) + Cardinality(C)
  <2>1. IsFiniteSet(A \cup B) /\ Cardinality(A \cup B) = Cardinality(A) + Cardinality(B) - Cardinality({})
    <3>1. A \cap B = {}
      BY <1>1
    <3> QED
      BY <1>1, <3>1, FS_Union
  <2>2. /\ IsFiniteSet((A \cup B) \cup C)
        /\ Cardinality((A \cup B) \cup C) = Cardinality(A \cup B) + Cardinality(C) - Cardinality({})
    <3>1. (A \cup B) \cap C = {}
      BY <1>1
    <3> QED
      BY <1>1, <2>1, <3>1, FS_Union
  <2>3. Kept = (A \cup B) \cup C /\ Cardinality({}) = 0
    BY FS_EmptySet DEF Kept
  <2> QED
    BY <1>2, <2>1, <2>2, <2>3 DEF Size
<1>4. Size \in Nat /\ \A i \in Kept : Place(i) \in 0 .. Size - 1
  BY <1>2, <1>3 DEF Kept
<1>5. \A i, j \in Kept : Place(i) = Place(j) => i = j
  BY <1>2 DEF Kept
<1>6. \A k \in 0 .. Size - 1 : \E i \in Kept : Place(i) = k
  <2> DEFINE f == [i \in Kept |-> Place(i)]
  <2>1. f \in [Kept -> 0 .. Cardinality(Kept) - 1]
    BY <1>4 DEF Size
  <2>2. \A i, j \in Kept : f[i] = f[j] => i = j
    BY <1>5
  <2> HIDE DEF f
  <2>3. \A k \in 0 .. Cardinality(Kept) - 1 : \E i \in Kept : f[i] = k
    BY <1>3, <2>1, <2>2, PlacesFilled
  <2> QED
    BY <2>3 DEF f, Size
<1>7. ASSUME NEW i \in Kept, NEW g \in C, i < g \/ i \notin C PROVE i = g \/ Place(i) < Place(g)
  <2>1. CASE i \in C
    BY <1>2, <1>7, <2>1
  <2>2. CASE i \in A \cup B
    BY <1>2, <2>2
  <2> QED
    BY <2>1, <2>2 DEF Kept
<1>8. Kept \subseteq VarsOf(design) /\ Driven(design) = Kept \cup {tied} /\ tied \notin Kept
  BY KindsOf DEF Accepted, Kept, FreeInputs
<1> QED
  BY <1>4, <1>5, <1>6, <1>7, <1>8
--------------------------------------------------------------------------------
(* A value of the design in the rebuilt FSM: a constant for the tied input, *)
(* otherwise the variable's new place with the same sign.                  *)
LEMMA MovedCases ==
  ASSUME Accepted, NEW v \in Values(design.size), IsDriven(design, v)
  PROVE  /\ v.index = NoVar => Moved(v) = v
         /\ v.index = tied => Moved(v) = Xor(Inactive, ~v.sign)
         /\ v.index \in Kept => Moved(v) = Lit(Place(v.index), v.sign)
         /\ v.index = NoVar \/ v.index = tied \/ v.index \in Kept
         /\ Moved(v) \in Values(Size)
         /\ Moved(v).index = NoVar \/ \E i \in Kept : Moved(v).index = Place(i)
<1>1. v.sign \in BOOLEAN /\ v.index \in {NoVar} \cup 0 .. design.size - 1
  BY DEF Values
<1>2. v.index = NoVar \/ v.index = tied \/ v.index \in Kept
  BY Places DEF IsDriven
<1>3. /\ Kept \subseteq VarsOf(design) /\ tied \notin Kept /\ tied \in VarsOf(design)
      /\ NoVar \notin VarsOf(design) /\ Size \in Nat
      /\ \A i \in Kept : Place(i) \in 0 .. Size - 1
  <2>1. tied \in VarsOf(design)
    BY DEF Accepted, Inputs, Kind
  <2> QED
    BY <2>1, Places DEF VarsOf, NoVar
<1>4. CASE v.index = NoVar
  <2>1. Moved(v) = v
    BY <1>4 DEF Moved, RemapValue
  <2> QED
    BY <1>1, <1>3, <1>4, <2>1 DEF Values
<1>5. CASE v.index = tied
  <2>1. v.index # NoVar /\ Mapping[v.index] = Inactive
    BY <1>3, <1>5 DEF Mapping
  <2>2. Moved(v) = Xor(Inactive, ~v.sign)
    BY <2>1 DEF Moved, RemapValue
  <2>3. Moved(v) = [index |-> NoVar, sign |-> ((active = "0") # ~v.sign)]
    BY <2>2 DEF Xor, Inactive, Const
  <2>4. Moved(v) \in Values(Size) /\ Moved(v).index = NoVar
    BY <2>3 DEF Values
  <2> QED
    BY <1>3, <1>5, <2>1, <2>2, <2>4
<1>6. CASE v.index \in Kept
  <2>1. v.index # NoVar /\ v.index # tied /\ Mapping[v.index] = Lit(Place(v.index), TRUE)
    BY <1>3, <1>6 DEF Mapping
  <2>2. Moved(v) = Xor(Lit(Place(v.index), TRUE), ~v.sign)
    BY <2>1 DEF Moved, RemapValue
  <2>3. (TRUE # ~v.sign) = v.sign
    BY <1>1
  <2>4. Moved(v) = Lit(Place(v.index), v.sign)
    BY <2>2, <2>3 DEF Xor, Lit
  <2>5. Moved(v) \in Values(Size) /\ Moved(v).index = Place(v.index)
    BY <1>1, <1>3, <1>6, <2>4 DEF Lit, Values
  <2> QED
    BY <1>2, <1>6, <2>1, <2>4, <2>5
<1> QED
  BY <1>2, <1>4, <1>5, <1>6

(* When a gate is rebuilt, the mapping is complete for what the gate reads. *)
LEMMA MappedInTime ==
  ASSUME Accepted, NEW g \in Gates(design), NEW v \in GateInputs(design.driver[g])
  PROVE  /\ RemapValue(v, MappingBefore(g)) = Moved(v)
         /\ v \in Values(design.size) /\ IsDriven(design, v)
<1>1. design.driver[g] \in GateDrivers(design.size) /\ g \in VarsOf(design)
  BY DriverShape DEF Accepted, Gates, Kind
<1>2. v \in Values(design.size) /\ IsDriven(design, v) /\ v.index < g
  BY <1>1 DEF Accepted, Verify, FullyDriven, OrderedGates, GateDrivers, GateInputs
<1>3. CASE v.index = NoVar
  BY <1>2, <1>3 DEF RemapValue, Moved
<1>4. CASE v.index # NoVar
  <2>1. v.index \in VarsOf(design) /\ ~(v.index >= g)
    BY <1>1, <1>2, <1>4 DEF Values, VarsOf, NoVar
  <2>2. MappingBefore(g)[v.index] = Mapping[v.index]
    BY <2>1 DEF MappingBefore
  <2> QED
    BY <1>2, <2>2 DEF RemapValue, Moved
<1> QED
  BY <1>2, <1>3, <1>4

(* The driver that an index of the design gets in the rebuilt FSM.          *)
LEMMA RebuiltDrivers ==
  ASSUME Accepted, NEW vals \in [VarsOf(design) -> Ternary], NEW i \in Kept
  PROVE  LET d == design.driver[i]
             r == RebuiltDriver(vals, i)
         IN /\ r \in Drivers(Size) /\ r.kind = d.kind
            /\ i \in Gates(design) =>
                 /\ r.kind = "gate" /\ r.sign = d.sign /\ r.type = d.type
                 /\ GateInputs(r) = {Moved(v) : v \in GateInputs(d)}
                 /\ Precedes(r.a, r.b)
            /\ i \in Latches(design) =>
                 r = LatchDriver(d.sign, Moved(d.input), Inferred(vals, i))
            /\ i \in Inputs(design) => r.kind = "input"
<1> DEFINE d == design.driver[i]
           r == RebuiltDriver(vals, i)
<1>1. i \in VarsOf(design) /\ WellFormed(design) /\ Size \in Nat
  BY Places DEF Accepted
<1>2. CASE i \in Gates(design)
  <2>1. d \in GateDrivers(design.size) /\ i \notin Latches(design) /\ i \notin Inputs(design)
    BY <1>1, <1>2, DriverShape, KindsOf
  <2>2. /\ d.kind = "gate" /\ d.sign \in BOOLEAN /\ d.type \in {"And", "Or"}
        /\ d.a \in GateInputs(d) /\ d.b \in GateInputs(d)
    BY <2>1 DEF GateDrivers, GateInputs
  <2>3. r = GateDriver(d.sign, d.type, Moved(d.a), Moved(d.b))
    <3>1. /\ RemapValue(d.a, MappingBefore(i)) = Moved(d.a)
          /\ RemapValue(d.b, MappingBefore(i)) = Moved(d.b)
      BY <1>2, <2>2, MappedInTime
    <3>2. r = GateDriver(d.sign, d.type, RemapValue(d.a, MappingBefore(i)),
                         RemapValue(d.b, MappingBefore(i)))
      BY <1>2, <2>1 DEF RebuiltDriver
    <3> QED
      BY <3>1, <3>2
  <2>4. Moved(d.a) \in Values(Size) /\ Moved(d.b) \in Values(Size)
    <3>1. /\ d.a \in Values(design.size) /\ IsDriven(design, d.a)
          /\ d.b \in Values(design.size) /\ IsDriven(design, d.b)
      BY <1>2, <2>2, MappedInTime
    <3> QED
      BY <3>1, MovedCases
  <2>5. /\ r \in GateDrivers(Size) /\ GateInputs(r) = {Moved(d.a), Moved(d.b)} /\ Precedes(r.a, r.b)
    BY <1>1, <2>2, <2>3, <2>4, GateDriverSorts
  <2>6. r.kind = "gate" /\ r.sign = d.sign /\ r.type = d.type
    BY <2>3 DEF GateDriver, SortInputs
  <2>7. GateInputs(r) = {Moved(v) : v \in GateInputs(d)}
    BY <2>5 DEF GateInputs
  <2>8. r \in Drivers(Size)
    BY <2>5 DEF Drivers
  <2> QED
    BY <2>1, <2>2, <2>5, <2>6, <2>7, <2>8
<1>3. CASE i \in Latches(design)
  <2>1. d \in LatchDrivers(design.size) /\ i \notin Gates(design) /\ i \notin Inputs(design)
    BY <1>1, <1>3, DriverShape, KindsOf
  <2>2. /\ d.kind = "latch" /\ d.sign \in BOOLEAN /\ d.reset \in Ternary
        /\ d.input \in Values(design.size) /\ IsDriven(design, d.input)
    BY <1>3, <2>1 DEF LatchDrivers, Accepted, Verify, FullyDriven
  <2>3. r = LatchDriver(d.sign, Moved(d.input), Inferred(vals, i))
    BY <1>3, <2>1 DEF RebuiltDriver, Moved
  <2>4. Inferred(vals, i) \in Ternary
    <3>1. Signed(vals, Lit(i, d.sign)) \in Ternary
      <4>1. Lit(i, d.sign).index = i
        BY DEF Lit
      <4> QED
        BY <1>1, <4>1, SignedType
    <3> QED
      BY <2>2, <3>1 DEF Inferred
  <2>5. Moved(d.input) \in Values(Size)
    BY <2>2, MovedCases
  <2>6. r \in LatchDrivers(Size) /\ r.kind = "latch"
    BY <2>2, <2>3, <2>4, <2>5 DEF LatchDriver, LatchDrivers
  <2> QED
    BY <2>1, <2>2, <2>3, <2>6 DEF Drivers
<1>4. CASE i \in Inputs(design)
  <2>1. d = InputDriver /\ i \notin Gates(design) /\ i \notin Latches(design)
    BY <1>1, <1>4, DriverShape, KindsOf
  <2>2. r = InputDriver
    BY <2>1 DEF RebuiltDriver
  <2> QED
    BY <2>1, <2>2 DEF Drivers, InputDriver
<1> QED
  BY <1>2, <1>3, <1>4 DEF Kept, FreeInputs
--------------------------------------------------------------------------------
(* The rebuilt FSM holds the kept indices at their places and nothing else. *)
LEMMA RebuiltParts ==
  ASSUME Accepted, NEW vals
  PROVE  LET r == RebuiltWith(vals)
         IN /\ r.size = Size /\ VarsOf(r) = 0 .. Size - 1
            /\ r.driver \in [VarsOf(r) -> {RebuiltDriver(vals, i) : i \in Kept}]
            /\ r.label \in [VarsOf(r) -> {design.label[i] : i \in Kept}]
            /\ \A i \in Kept : Place(i) \in VarsOf(r) /\ r.driver[Place(i)] = RebuiltDriver(vals, i)
            /\ \A k \in VarsOf(r) : \E i \in Kept : k = Place(i)
            /\ r.refs = [list \in Lists |->
                           [k \in DOMAIN design.refs[list] |-> Moved(design.refs[list][k])]]
<1> DEFINE r == RebuiltWith(vals)
           old == [k \in 0 .. Size - 1 |-> CHOOSE i \in Kept : Place(i) = k]
<1>1. /\ r.size = Size
      /\ r.driver = [k \in 0 .. Size - 1 |-> RebuiltDriver(vals, old[k])]
      /\ r.label = [k \in 0 .. Size - 1 |-> design.label[old[k]]]
      /\ r.refs = [list \in Lists |->
                     [k \in DOMAIN design.refs[list] |-> Moved(design.refs[list][k])]]
  BY DEF RebuiltWith, Size, Moved
<1>2. VarsOf(r) = 0 .. Size - 1
  BY <1>1 DEF VarsOf
<1>3. \A k \in 0 .. Size - 1 : old[k] \in Kept /\ Place(old[k]) = k
  BY Places
<1>4. \A i \in Kept : Place(i) \in 0 .. Size - 1 /\ old[Place(i)] = i
  BY <1>3, Places
<1> HIDE DEF r, old
<1>5. \A i \in Kept : r.driver[Place(i)] = RebuiltDriver(vals, i)
  BY <1>1, <1>4
<1>6. /\ r.driver \in [VarsOf(r) -> {RebuiltDriver(vals, i) : i \in Kept}]
      /\ r.label \in [VarsOf(r) -> {design.label[i] : i \in Kept}]
  BY <1>1, <1>2, <1>3
<1>7. \A k \in VarsOf(r) : \E i \in Kept : k = Place(i)
  BY <1>2, <1>3
<1> QED
  BY <1>1, <1>2, <1>4, <1>5, <1>6, <1>7 DEF r

(* It is an FSM, and keeps kinds.                                          *)
LEMMA RebuiltKinds ==
  ASSUME Accepted, NEW vals \in [VarsOf(design) -> Ternary]
  PROVE  LET r == RebuiltWith(vals)
         IN /\ WellFormed(r)
            /\ \A i \in Kept : /\ Place(i) \in Driven(r)
                               /\ Place(i) \in Gates(r) <=> i \in Gates(design)
                               /\ Place(i) \in Latches(r) <=> i \in Latches(design)
                               /\ Place(i) \in Inputs(r) <=> i \in Inputs(design)
            /\ \A v \in Values(design.size) : IsDriven(design, v) => IsDriven(r, Moved(v))
<1> DEFINE r == RebuiltWith(vals)
<1>1. /\ r.size = Size /\ VarsOf(r) = 0 .. Size - 1 /\ Size \in Nat
      /\ r.driver \in [VarsOf(r) -> {RebuiltDriver(vals, i) : i \in Kept}]
      /\ r.label \in [VarsOf(r) -> {design.label[i] : i \in Kept}]
      /\ r.refs = [list \in Lists |->
                     [k \in DOMAIN design.refs[list] |-> Moved(design.refs[list][k])]]
  BY RebuiltParts, Places
<1>2. \A i \in Kept : /\ Place(i) \in VarsOf(r) /\ r.driver[Place(i)] = RebuiltDriver(vals, i)
                      /\ RebuiltDriver(vals, i).kind = design.driver[i].kind
                      /\ RebuiltDriver(vals, i) \in Drivers(Size)
                      /\ i \in VarsOf(design) /\ i \in Driven(design)
  BY RebuiltParts, RebuiltDrivers, Places
<1>3. r = [size |-> r.size, driver |-> r.driver, label |-> r.label, refs |-> r.refs]
  BY DEF RebuiltWith
<1>4. \A list \in Lists : \A k \in DOMAIN design.refs[list] :
        /\ design.refs[list][k] \in Values(design.size)
        /\ IsDriven(design, design.refs[list][k])
  <2>1. design.refs \in [Lists -> Seq(Values(design.size))]
    BY DEF Accepted, WellFormed, Machine
  <2>2. \A list \in Lists : \A k \in DOMAIN design.refs[list] :
          design.refs[list][k] \in Values(design.size)
    <3> TAKE list \in Lists
    <3>1. design.refs[list] \in Seq(Values(design.size))
      BY <2>1
    <3> QED
      BY <3>1, ElementOfSeq, LenProperties
  <2> QED
    BY <2>2 DEF Accepted, Verify, FullyDriven
<1>5. r.refs \in [Lists -> Seq(Values(Size))]
  <2>1. ASSUME NEW list \in Lists
        PROVE  [k \in DOMAIN design.refs[list] |-> Moved(design.refs[list][k])] \in Seq(Values(Size))
    <3>1. /\ Len(design.refs[list]) \in Nat
          /\ DOMAIN design.refs[list] = 1 .. Len(design.refs[list])
      <4>1. design.refs[list] \in Seq(Values(design.size))
        BY DEF Accepted, WellFormed, Machine
      <4> QED
        BY <4>1, LenProperties
    <3>2. \A k \in 1 .. Len(design.refs[list]) : Moved(design.refs[list][k]) \in Values(Size)
      BY <1>4, <3>1, MovedCases
    <3> DEFINE q == [k \in 1 .. Len(design.refs[list]) |-> Moved(design.refs[list][k])]
    <3>3. q \in [1 .. Len(design.refs[list]) -> Values(Size)]
      BY <3>2
    <3> HIDE DEF q
    <3>4. q \in Seq(Values(Size))
      BY <3>1, <3>3, IsASeq
    <3> QED
      BY <3>1, <3>4 DEF q
  <2> QED
    BY <1>1, <2>1
<1>6. r.driver \in [0 .. Size - 1 -> Drivers(Size)] /\ r.label \in [0 .. Size - 1 -> Nat]
  <2>1. \A i \in Kept : design.label[i] \in Nat
    BY <1>2 DEF Accepted, WellFormed, Machine, VarsOf
  <2> HIDE DEF r
  <2>2. \A d \in {RebuiltDriver(vals, i) : i \in Kept} : d \in Drivers(Size)
    BY <1>2
  <2>3. \A n \in {design.label[i] : i \in Kept} : n \in Nat
    BY <2>1
  <2> QED
    BY <1>1, <2>2, <2>3
<1>7. WellFormed(r)
  <2> HIDE DEF r
  <2>1. [size |-> r.size, driver |-> r.driver, label |-> r.label, refs |-> r.refs] \in Machine(Size)
    BY <1>1, <1>5, <1>6 DEF Machine
  <2> QED
    BY <1>1, <1>3, <2>1 DEF WellFormed
<1>8. \A i \in Kept : /\ Place(i) \in Driven(r)
                      /\ Place(i) \in Gates(r) <=> i \in Gates(design)
                      /\ Place(i) \in Latches(r) <=> i \in Latches(design)
                      /\ Place(i) \in Inputs(r) <=> i \in Inputs(design)
  <2> HIDE DEF r
  <2> QED
    BY <1>2 DEF Driven, Gates, Latches, Inputs, Kind
<1>9. ASSUME NEW v \in Values(design.size), IsDriven(design, v) PROVE IsDriven(r, Moved(v))
  BY <1>8, <1>9, MovedCases DEF IsDriven
<1> QED
  BY <1>7, <1>8, <1>9

(* It verifies: each driver refers to what is driven, and gates keep their  *)
(* order behind everything else.                                           *)
LEMMA RebuiltVerified ==
  ASSUME Accepted, NEW vals \in [VarsOf(design) -> Ternary]
  PROVE  Verify(RebuiltWith(vals))
<1> DEFINE r == RebuiltWith(vals)
<1>1. /\ \A i \in Kept : Place(i) \in VarsOf(r) /\ r.driver[Place(i)] = RebuiltDriver(vals, i)
      /\ \A k \in VarsOf(r) : \E i \in Kept : k = Place(i)
      /\ r.refs = [list \in Lists |->
                     [k \in DOMAIN design.refs[list] |-> Moved(design.refs[list][k])]]
  BY RebuiltParts
<1>2. /\ \A i \in Kept : /\ Place(i) \in Gates(r) <=> i \in Gates(design)
                         /\ Place(i) \in Latches(r) <=> i \in Latches(design)
      /\ \A v \in Values(design.size) : IsDriven(design, v) => IsDriven(r, Moved(v))
      /\ Gates(r) \subseteq VarsOf(r) /\ Latches(r) \subseteq VarsOf(r)
  BY RebuiltKinds DEF Gates, Latches, Kind
<1> HIDE DEF r
<1>3. ASSUME NEW k \in Gates(r)
      PROVE  /\ \A v \in GateInputs(r.driver[k]) : IsDriven(r, v) /\ v.index < k
             /\ Precedes(r.driver[k].a, r.driver[k].b)
  <2>1. PICK g \in Gates(design) : g \in Kept /\ k = Place(g)
    BY <1>1, <1>2
  <2>2. /\ GateInputs(r.driver[k]) = {Moved(v) : v \in GateInputs(design.driver[g])}
        /\ Precedes(r.driver[k].a, r.driver[k].b)
    BY <1>1, <2>1, RebuiltDrivers
  <2>3. ASSUME NEW v \in GateInputs(design.driver[g])
        PROVE  IsDriven(r, Moved(v)) /\ Moved(v).index < Place(g)
    <3>1. v \in Values(design.size) /\ IsDriven(design, v) /\ v.index < g
      BY MappedInTime DEF Accepted, Verify, OrderedGates
    <3>2. Place(g) \in Nat
      BY <2>1, Places
    <3>3. CASE v.index \in Kept
      <4>1. Moved(v).index = Place(v.index)
        BY <3>1, <3>3, MovedCases DEF Lit
      <4>2. v.index # g
        <5>1. g \in Nat
          BY KindsOf DEF Accepted
        <5> QED
          BY <3>1, <5>1
      <4>3. Place(v.index) < Place(g)
        BY <3>1, <3>3, <4>2, Places
      <4> QED
        BY <1>2, <3>1, <4>1, <4>3
    <3>4. CASE v.index \notin Kept
      <4>1. Moved(v).index = NoVar
        BY <3>1, <3>4, MovedCases DEF Xor, Inactive, Const
      <4> QED
        BY <1>2, <3>1, <3>2, <4>1 DEF NoVar
    <3> QED
      BY <3>3, <3>4
  <2> QED
    BY <2>1, <2>2, <2>3
<1>4. ASSUME NEW k \in Latches(r) PROVE IsDriven(r, r.driver[k].input)
  <2>1. PICK l \in Latches(design) : l \in Kept /\ k = Place(l)
    BY <1>1, <1>2
  <2>2. r.driver[k].input = Moved(design.driver[l].input)
    <3>1. r.driver[k]
          = LatchDriver(design.driver[l].sign, Moved(design.driver[l].input), Inferred(vals, l))
      BY <1>1, <2>1, RebuiltDrivers
    <3> QED
      BY <3>1 DEF LatchDriver
  <2>3. design.driver[l].input \in Values(design.size) /\ IsDriven(design, design.driver[l].input)
    <3>1. design.driver[l] \in LatchDrivers(design.size)
      BY <2>1, DriverShape, KindsOf DEF Accepted
    <3> QED
      BY <2>1, <3>1 DEF Accepted, Verify, FullyDriven, LatchDrivers
  <2> QED
    BY <1>2, <2>2, <2>3
<1>5. ASSUME NEW list \in Lists, NEW k \in DOMAIN r.refs[list] PROVE IsDriven(r, r.refs[list][k])
  <2>1. k \in DOMAIN design.refs[list] /\ r.refs[list][k] = Moved(design.refs[list][k])
    BY <1>1
  <2>2. design.refs[list][k] \in Values(design.size) /\ IsDriven(design, design.refs[list][k])
    <3>1. design.refs[list] \in Seq(Values(design.size))
      BY DEF Accepted, WellFormed, Machine
    <3>2. design.refs[list][k] \in Values(design.size)
      BY <2>1, <3>1, ElementOfSeq, LenProperties
    <3> QED
      BY <2>1, <3>2 DEF Accepted, Verify, FullyDriven
  <2> QED
    BY <1>2, <2>1, <2>2
<1>6. Verify(r)
  BY <1>3, <1>4, <1>5 DEF Verify, FullyDriven, OrderedGates
<1> QED
  BY <1>6 DEF r
--------------------------------------------------------------------------------
(* img finds every driven variable of the design in m: an input as an input *)
(* or a constant, a latch and a gate with the same driver, references and   *)
(* operands included, and no two in one place.                             *)
Represents(m, img) ==
  /\ img \in [VarsOf(design) -> Values(m.size)]
  /\ \A i \in Driven(design) : img[i].index # NoVar => img[i].sign = TRUE
  /\ \A i \in Driven(design), j \in Driven(design) :
       img[i].index = img[j].index => i = j \/ img[i].index = NoVar
  /\ \A i \in Inputs(design) : img[i].index # NoVar => img[i].index \in Inputs(m)
  /\ \A l \in Latches(design) :
       /\ img[l].index \in Latches(m)
       /\ m.driver[img[l].index].sign = design.driver[l].sign
       /\ m.driver[img[l].index].input = RemapValue(design.driver[l].input, img)
  /\ \A g \in Gates(design) :
       /\ img[g].index \in Gates(m)
       /\ m.driver[img[g].index].sign = design.driver[g].sign
       /\ m.driver[img[g].index].type = design.driver[g].type
       /\ GateInputs(m.driver[img[g].index])
            = {RemapValue(v, img) : v \in GateInputs(design.driver[g])}
  /\ \A list \in Lists :
       m.refs[list] = [k \in DOMAIN design.refs[list] |-> RemapValue(design.refs[list][k], img)]

(* At first each variable stands for itself.                               *)
Same == [i \in VarsOf(design) |-> Lit(i, TRUE)]
LEMMA SameRepresents ==
  ASSUME Accepted
  PROVE  Represents(design, Same)
<1>1. \A v \in Values(design.size) : RemapValue(v, Same) = v
  <2> TAKE v \in Values(design.size)
  <2>1. CASE v.index = NoVar
    BY <2>1 DEF RemapValue
  <2>2. CASE v.index # NoVar
    <3>1. v.index \in VarsOf(design) /\ v.sign \in BOOLEAN
      BY <2>2 DEF Values, VarsOf, NoVar
    <3>2. RemapValue(v, Same) = Xor(Lit(v.index, TRUE), ~v.sign)
      BY <2>2, <3>1 DEF RemapValue, Same
    <3>3. (TRUE # ~v.sign) = v.sign
      BY <3>1
    <3>4. RemapValue(v, Same) = [index |-> v.index, sign |-> v.sign]
      BY <3>2, <3>3 DEF Xor, Lit
    <3> QED
      BY <3>4 DEF Values
  <2> QED
    BY <2>1, <2>2
<1>2. /\ \A i \in VarsOf(design) : /\ Same[i].index = i /\ Same[i].sign = TRUE
                                  /\ Same[i] \in Values(design.size)
      /\ Same \in [VarsOf(design) -> Values(design.size)]
  BY DEF Same, Lit, Values, VarsOf
<1>3. ASSUME NEW g \in Gates(design), NEW v \in GateInputs(design.driver[g])
      PROVE  v = RemapValue(v, Same)
  BY <1>1, MappedInTime
<1>4. ASSUME NEW l \in Latches(design)
      PROVE  design.driver[l].input = RemapValue(design.driver[l].input, Same)
  <2>1. design.driver[l] \in LatchDrivers(design.size)
    BY DriverShape, KindsOf DEF Accepted
  <2> QED
    BY <1>1, <2>1 DEF LatchDrivers
<1>5. ASSUME NEW list \in Lists
      PROVE  design.refs[list]
               = [k \in DOMAIN design.refs[list] |-> RemapValue(design.refs[list][k], Same)]
  <2>1. design.refs[list] \in Seq(Values(design.size))
    BY DEF Accepted, WellFormed, Machine
  <2>2. \A k \in DOMAIN design.refs[list] : design.refs[list][k] \in Values(design.size)
    BY <2>1, ElementOfSeq, LenProperties
  <2>3. design.refs[list] = [k \in DOMAIN design.refs[list] |-> design.refs[list][k]]
    BY <2>1, LenProperties
  <2> QED
    BY <1>1, <2>2, <2>3
<1>6. /\ Driven(design) \subseteq VarsOf(design) /\ Inputs(design) \subseteq VarsOf(design)
      /\ Latches(design) \subseteq VarsOf(design) /\ Gates(design) \subseteq VarsOf(design)
  BY KindsOf DEF Accepted, Driven
<1>7. \A g \in Gates(design) :
        GateInputs(design.driver[g]) = {RemapValue(v, Same) : v \in GateInputs(design.driver[g])}
  BY <1>3
<1> HIDE DEF Same
<1>8. \A i \in Driven(design) : Same[i].index # NoVar => Same[i].sign = TRUE
  BY <1>2, <1>6
<1>9. \A i \in Driven(design), j \in Driven(design) : Same[i].index = Same[j].index => i = j
  BY <1>2, <1>6
<1>10. \A g \in Gates(design) :
         /\ Same[g].index = g
         /\ GateInputs(design.driver[Same[g].index])
              = {RemapValue(v, Same) : v \in GateInputs(design.driver[g])}
  BY <1>2, <1>6, <1>7
<1> QED
  BY <1>2, <1>8, <1>9, <1>10, <1>4, <1>5, <1>6, <1>7 DEF Represents

(* The mapping of the rebuild represents the design in what is rebuilt.     *)
LEMMA MappingRepresents ==
  ASSUME Accepted, NEW vals \in [VarsOf(design) -> Ternary]
  PROVE  Represents(RebuiltWith(vals), Mapping)
<1> DEFINE r == RebuiltWith(vals)
<1>1. /\ r.size = Size /\ Size \in Nat
      /\ \A i \in Kept : r.driver[Place(i)] = RebuiltDriver(vals, i)
      /\ r.refs = [list \in Lists |->
                     [k \in DOMAIN design.refs[list] |-> Moved(design.refs[list][k])]]
  BY RebuiltParts, Places
<1>2. \A i \in Kept : /\ Place(i) \in Gates(r) <=> i \in Gates(design)
                      /\ Place(i) \in Latches(r) <=> i \in Latches(design)
                      /\ Place(i) \in Inputs(r) <=> i \in Inputs(design)
  BY RebuiltKinds
<1> HIDE DEF r
<1>3. /\ tied \in VarsOf(design) /\ Mapping[tied] = Inactive /\ Inactive.index = NoVar
      /\ \A i \in Kept : Mapping[i] = Lit(Place(i), TRUE)
      /\ Driven(design) = Kept \cup {tied} /\ tied \notin Kept /\ Kept \subseteq VarsOf(design)
  <2>1. tied \in VarsOf(design)
    BY DEF Accepted, Inputs, Kind
  <2> QED
    BY <2>1, Places DEF Mapping, Inactive, Const
<1>4. \A i \in Kept : /\ Mapping[i].index = Place(i) /\ Mapping[i].sign = TRUE
                      /\ Place(i) \in 0 .. Size - 1 /\ Place(i) # NoVar
  <2> TAKE i \in Kept
  <2>1. Mapping[i].index = Place(i) /\ Mapping[i].sign = TRUE
    <3>1. Mapping[i] = Lit(Place(i), TRUE)
      BY <1>3
    <3>2. Lit(Place(i), TRUE).index = Place(i) /\ Lit(Place(i), TRUE).sign = TRUE
      BY DEF Lit
    <3> QED
      BY <3>1, <3>2, Zenon
  <2> QED
    BY <1>1, <2>1, Places DEF NoVar
<1>5. Mapping \in [VarsOf(design) -> Values(Size)]
  <2>1. \A i \in VarsOf(design) :
          Mapping[i] \in {Inactive, Const(FALSE)} \cup {Lit(Place(j), TRUE) : j \in Kept}
    BY DEF Mapping
  <2>2. Inactive \in Values(Size) /\ Const(FALSE) \in Values(Size)
    BY DEF Inactive, Const, Values
  <2>3. \A j \in Kept : Lit(Place(j), TRUE) \in Values(Size)
    BY <1>4 DEF Lit, Values
  <2>4. Mapping = [i \in VarsOf(design) |-> Mapping[i]]
    BY DEF Mapping
  <2> QED
    BY <2>1, <2>2, <2>3, <2>4
<1>6. \A i \in Driven(design) : Mapping[i].index # NoVar => Mapping[i].sign = TRUE
  BY <1>3, <1>4
<1>7. \A i \in Driven(design), j \in Driven(design) :
        Mapping[i].index = Mapping[j].index => i = j \/ Mapping[i].index = NoVar
  BY <1>3, <1>4, Places
<1>8. /\ Inputs(design) = FreeInputs \cup {tied} /\ Latches(design) \subseteq Kept
      /\ Gates(design) \subseteq Kept /\ FreeInputs \subseteq Kept
  BY DEF Accepted, Kept, FreeInputs
<1>9. \A i \in Inputs(design) : Mapping[i].index # NoVar => Mapping[i].index \in Inputs(r)
  BY <1>2, <1>3, <1>4, <1>8
<1>10. ASSUME NEW l \in Latches(design)
       PROVE  /\ Mapping[l].index \in Latches(r)
              /\ r.driver[Mapping[l].index].sign = design.driver[l].sign
              /\ r.driver[Mapping[l].index].input = RemapValue(design.driver[l].input, Mapping)
  <2>1. l \in Kept /\ Mapping[l].index = Place(l)
    BY <1>4, <1>8
  <2>2. r.driver[Place(l)]
          = LatchDriver(design.driver[l].sign, Moved(design.driver[l].input), Inferred(vals, l))
    BY <1>1, <2>1, RebuiltDrivers
  <2> QED
    BY <1>2, <2>1, <2>2 DEF LatchDriver, Moved
<1>11. ASSUME NEW g \in Gates(design)
       PROVE  /\ Mapping[g].index \in Gates(r)
              /\ r.driver[Mapping[g].index].sign = design.driver[g].sign
              /\ r.driver[Mapping[g].index].type = design.driver[g].type
              /\ GateInputs(r.driver[Mapping[g].index])
                   = {RemapValue(v, Mapping) : v \in GateInputs(design.driver[g])}
  <2>1. g \in Kept /\ Mapping[g].index = Place(g)
    BY <1>4, <1>8
  <2>2. r.driver[Place(g)] = RebuiltDriver(vals, g)
    BY <1>1, <2>1
  <2>3. /\ RebuiltDriver(vals, g).sign = design.driver[g].sign
        /\ RebuiltDriver(vals, g).type = design.driver[g].type
        /\ GateInputs(RebuiltDriver(vals, g)) = {Moved(v) : v \in GateInputs(design.driver[g])}
    BY <2>1, RebuiltDrivers
  <2> QED
    BY <1>2, <2>1, <2>2, <2>3 DEF Moved
<1>12. \A list \in Lists :
         r.refs[list]
           = [k \in DOMAIN design.refs[list] |-> RemapValue(design.refs[list][k], Mapping)]
  BY <1>1 DEF Moved
<1>13. Represents(r, Mapping)
  <2> HIDE DEF Mapping
  <2> QED
    BY <1>1, <1>5, <1>6, <1>7, <1>9, <1>10, <1>11, <1>12 DEF Represents
<1> QED
  BY <1>13 DEF r
--------------------------------------------------------------------------------
(* The model knows nothing wrong about variable i: k holds its variables,   *)
(* a those of the design.                                                  *)
Knows(k, img, a, i) == Signed(k, img[i]) \in {"X", a[i]}

(* Then it knows nothing wrong about a value either.                       *)
LEMMA SeenValue ==
  ASSUME Accepted, NEW m, Represents(m, image), m.size \in Nat,
         NEW k \in [VarsOf(m) -> Ternary], NEW a \in [VarsOf(design) -> Ternary],
         NEW v \in Values(design.size), v.index # NoVar => Knows(k, image, a, v.index)
  PROVE  Signed(k, RemapValue(v, image)) \in {"X", Signed(a, v)}
<1>1. CASE v.index = NoVar
  BY <1>1 DEF RemapValue, Signed
<1>2. CASE v.index # NoVar
  <2> DEFINE w == image[v.index]
             b == ~v.sign
  <2>1. v.index \in VarsOf(design) /\ b \in BOOLEAN
    BY <1>2 DEF Values, VarsOf, NoVar
  <2>2. w \in Values(m.size)
    BY <2>1 DEF Represents
  <2>3. RemapValue(v, image) = Xor(w, b) /\ Signed(a, v) = FlipTernary(a[v.index], b)
    BY <1>2 DEF RemapValue, Signed
  <2>4. Signed(k, Xor(w, b)) = FlipTernary(Signed(k, w), b)
    <3> HIDE DEF w, b
    <3>1. w.sign \in BOOLEAN /\ (w.index # NoVar => w.index \in VarsOf(m))
      BY <2>2 DEF Values, VarsOf, NoVar
    <3>2. Xor(w, b).index = w.index /\ Xor(w, b).sign = (w.sign # b)
      BY <2>2 DEF Values, Xor
    <3>3. CASE w.index = NoVar
      BY <2>1, <3>1, <3>2, <3>3 DEF Signed, FlipTernary
    <3>4. CASE w.index # NoVar
      <4>1. k[w.index] \in Ternary
        BY <3>1, <3>4
      <4> QED
        BY <2>1, <3>1, <3>2, <3>4, <4>1 DEF Signed, FlipTernary, Ternary
    <3> QED
      BY <3>3, <3>4
  <2>5. Signed(k, w) \in {"X", a[v.index]}
    BY <1>2 DEF Knows
  <2>6. FlipTernary(Signed(k, w), b) \in {"X", FlipTernary(a[v.index], b)}
    <3> DEFINE t == Signed(k, w)
               x == a[v.index]
    <3>1. t \in {"X", x} /\ b \in BOOLEAN
      BY <2>1, <2>5
    <3> HIDE DEF t, x, b
    <3>2. FlipTernary(t, b) \in {"X", FlipTernary(x, b)}
      BY <3>1, FlipKnows
    <3> QED
      BY <3>2 DEF t, x
  <2> QED
    BY <2>3, <2>4, <2>6
<1> QED
  BY <1>1, <1>2

(* Once both passes of eval are done, what holds for inputs and latches     *)
(* holds for gates.                                                        *)
LEMMA GatesKnow ==
  ASSUME Accepted, NEW m, Represents(m, image), WellFormed(m),
         NEW k \in [VarsOf(m) -> Ternary], NEW a \in [VarsOf(design) -> Ternary],
         \A g \in Gates(m) : k[g] = GateValue(m, k, g),
         \A g \in Gates(design) : a[g] = GateValue(design, a, g),
         \A i \in Inputs(design) \cup Latches(design) : Knows(k, image, a, i)
  PROVE  \A i \in Driven(design) : Knows(k, image, a, i)
<1> DEFINE Wrong == {g \in Gates(design) : ~Knows(k, image, a, g)}
<1>1. /\ Driven(design) = Inputs(design) \cup Latches(design) \cup Gates(design)
      /\ Gates(design) \subseteq VarsOf(design) /\ VarsOf(design) \subseteq Nat /\ m.size \in Nat
  BY KindsOf DEF Accepted, WellFormed
<1>2. ASSUME NEW g \in Gates(design), \A h \in Gates(design) : h < g => Knows(k, image, a, h)
      PROVE  Knows(k, image, a, g)
  <2> DEFINE d == design.driver[g]
             p == image[g].index
  <2>1. ASSUME NEW v \in GateInputs(d)
        PROVE  Signed(k, RemapValue(v, image)) \in {"X", Signed(a, v)} /\ Signed(a, v) \in Ternary
    <3>1. v \in Values(design.size) /\ IsDriven(design, v) /\ v.index < g
      BY MappedInTime DEF Accepted, Verify, OrderedGates
    <3>2. v.index # NoVar => Knows(k, image, a, v.index)
      BY <1>1, <1>2, <3>1 DEF IsDriven
    <3>3. v.index # NoVar => v.index \in VarsOf(design)
      BY <3>1 DEF Values, VarsOf, NoVar
    <3>4. Signed(a, v) \in Ternary
      BY <3>3, SignedType
    <3> QED
      BY <1>1, <3>1, <3>2, <3>4, SeenValue
  <2>2. /\ p \in Gates(m) /\ m.driver[p].sign = d.sign /\ m.driver[p].type = d.type
        /\ GateInputs(m.driver[p]) = {RemapValue(v, image) : v \in GateInputs(d)}
    BY DEF Represents
  <2>3. GateInputs(d) = {d.a, d.b} /\ d.type \in {"And", "Or"} /\ d.sign \in BOOLEAN
    <3>1. d \in GateDrivers(design.size)
      BY <1>1, DriverShape DEF Accepted
    <3> QED
      BY <3>1 DEF GateDrivers, GateInputs
  <2>4. {Signed(k, v) : v \in GateInputs(m.driver[p])}
          = {Signed(k, RemapValue(d.a, image)), Signed(k, RemapValue(d.b, image))}
    BY <2>2, <2>3
  <2>5. {Signed(a, v) : v \in GateInputs(d)} = {Signed(a, d.a), Signed(a, d.b)}
    BY <2>3
  <2>6. EvalGate(d.type, {Signed(k, v) : v \in GateInputs(m.driver[p])})
          \in {"X", EvalGate(d.type, {Signed(a, v) : v \in GateInputs(d)})}
    <3> DEFINE u == Signed(k, RemapValue(d.a, image))
               w == Signed(k, RemapValue(d.b, image))
               x == Signed(a, d.a)
               y == Signed(a, d.b)
    <3>1. /\ x \in Ternary /\ y \in Ternary /\ u \in {"X", x} /\ w \in {"X", y}
      BY <2>1, <2>3
    <3>2. d.type \in {"And", "Or"}
      BY <2>3
    <3> HIDE DEF u, w, x, y, d
    <3>3. EvalGate(d.type, {u, w}) \in {"X", EvalGate(d.type, {x, y})}
      BY <3>1, <3>2, EvalKnows
    <3> QED
      BY <2>4, <2>5, <3>3 DEF u, w, x, y
  <2>7. GateValue(m, k, p) \in {"X", GateValue(design, a, g)}
    <3> DEFINE x == EvalGate(d.type, {Signed(k, v) : v \in GateInputs(m.driver[p])})
               y == EvalGate(d.type, {Signed(a, v) : v \in GateInputs(d)})
               n == ~d.sign
    <3>1. GateValue(m, k, p) = FlipTernary(x, n)
      BY <2>2 DEF GateValue
    <3>2. GateValue(design, a, g) = FlipTernary(y, n)
      BY DEF GateValue
    <3>3. x \in {"X", y}
      BY <2>6
    <3>4. n \in BOOLEAN
      OBVIOUS
    <3> HIDE DEF x, y, n
    <3>5. FlipTernary(x, n) \in {"X", FlipTernary(y, n)}
      BY <3>3, <3>4, FlipKnows
    <3> QED
      BY <3>1, <3>2, <3>5
  <2>8. Signed(k, image[g]) = k[p]
    <3>1. p # NoVar
      BY <2>2 DEF Gates, Kind, VarsOf, NoVar
    <3>2. image[g].sign = TRUE
      BY <1>1, <3>1 DEF Represents
    <3> QED
      BY <3>1, <3>2 DEF Signed, FlipTernary
  <2> QED
    BY <2>2, <2>7, <2>8 DEF Knows
<1>3. CASE Wrong = {}
  BY <1>1, <1>3
<1>4. CASE Wrong # {}
  <2>1. Wrong \subseteq Nat
    BY <1>1
  <2> HIDE DEF Wrong
  <2>2. PICK g \in Wrong : \A h \in Wrong : g <= h
    BY <1>4, <2>1, LeastNatural
  <2>3. \A h \in Gates(design) : h < g => Knows(k, image, a, h)
    BY <1>1, <2>1, <2>2 DEF Wrong
  <2>4. g \in Gates(design) /\ ~Knows(k, image, a, g)
    BY DEF Wrong
  <2> QED
    BY <1>2, <2>3, <2>4
<1> QED
  BY <1>3, <1>4
--------------------------------------------------------------------------------
(* What is known survives the calls on both simulators.                    *)
KnowsState(k, img, a) == \A i \in Inputs(design) \cup Latches(design) : Knows(k, img, a, i)

(* A call that leaves inputs and latches alone.                            *)
LEMMA PassKnows ==
  ASSUME Accepted, NEW m, Represents(m, image), WellFormed(m), NEW c,
         NEW k \in [VarsOf(m) -> Ternary], NEW a \in [VarsOf(design) -> Ternary],
         KnowsState(k, image, a)
  PROVE  KnowsState(Pass(m, k, c), image, a) /\ KnowsState(k, image, Pass(design, a, c))
<1> SUFFICES ASSUME NEW i \in Inputs(design) \cup Latches(design)
             PROVE  Knows(Pass(m, k, c), image, a, i) /\ Knows(k, image, Pass(design, a, c), i)
  BY DEF KnowsState
<1>1. i \notin Gates(design) /\ image[i].index \notin Gates(m)
  <2>1. image[i].index = NoVar \/ image[i].index \in Inputs(m) \cup Latches(m)
    BY DEF Represents
  <2>2. NoVar \notin Gates(m)
    BY DEF Gates, Kind, VarsOf, NoVar
  <2> QED
    BY <2>1, <2>2, KindsOf DEF Accepted
<1>2. Pass(design, a, c)[i] = a[i]
  BY <1>1 DEF Pass
<1>3. Pass(m, k, c)[image[i].index] = k[image[i].index]
  BY <1>1 DEF Pass
<1>4. Signed(Pass(m, k, c), image[i]) = Signed(k, image[i])
  BY <1>3 DEF Signed
<1> QED
  BY <1>2, <1>4 DEF Knows, KnowsState

(* An input that is set in both, or left unknown in the model.             *)
LEMMA SetKnows ==
  ASSUME Accepted, NEW m, Represents(m, image), WellFormed(m),
         NEW k \in [VarsOf(m) -> Ternary], NEW a \in [VarsOf(design) -> Ternary],
         KnowsState(k, image, a),
         NEW i \in Inputs(design), image[i].index # NoVar, NEW t, NEW u \in {"X", t}
  PROVE  KnowsState([k EXCEPT ![image[i].index] = u], image, [a EXCEPT ![i] = t])
<1> DEFINE p == image[i].index
           k2 == [k EXCEPT ![p] = u]
           a2 == [a EXCEPT ![i] = t]
<1>1. /\ i \in VarsOf(design) /\ i \in Driven(design) /\ p \in VarsOf(m) /\ image[i].sign = TRUE
  <2>1. i \in VarsOf(design) /\ i \in Driven(design)
    BY KindsOf DEF Accepted
  <2> QED
    BY <2>1 DEF Represents, Inputs, Kind
<1>2. Knows(k2, image, a2, i)
  <2>1. k2[p] = u /\ a2[i] = t
    BY <1>1
  <2>2. Signed(k2, image[i]) = FlipTernary(k2[p], ~image[i].sign)
    BY DEF Signed
  <2>3. FlipTernary(k2[p], ~image[i].sign) = k2[p]
    BY <1>1 DEF FlipTernary
  <2> QED
    BY <2>1, <2>2, <2>3 DEF Knows
<1>3. ASSUME NEW j \in Inputs(design) \cup Latches(design), j # i PROVE Knows(k2, image, a2, j)
  <2>1. j \in VarsOf(design) /\ j \in Driven(design) /\ Knows(k, image, a, j)
    BY KindsOf DEF Accepted, KnowsState
  <2>2. a2[j] = a[j]
    BY <1>3, <2>1
  <2>3. image[j].index = NoVar \/ k2[image[j].index] = k[image[j].index]
    <3>1. image[j].index = p => image[j].index = NoVar
      BY <1>1, <1>3, <2>1 DEF Represents
    <3>2. ASSUME image[j].index # NoVar PROVE image[j].index \in VarsOf(m)
      BY <3>2 DEF Represents, Inputs, Latches, Kind
    <3> QED
      BY <3>1, <3>2
  <2>4. Signed(k2, image[j]) = Signed(k, image[j])
    <3> HIDE DEF k2
    <3> QED
      BY <2>3 DEF Signed
  <2> QED
    BY <2>1, <2>2, <2>4 DEF Knows
<1> QED
  BY <1>2, <1>3 DEF KnowsState

(* The clock edge.                                                         *)
LEMMA EdgedLatches ==
  ASSUME Accepted, NEW m, Represents(m, image), WellFormed(m),
         NEW k \in [VarsOf(m) -> Ternary], NEW a \in [VarsOf(design) -> Ternary],
         \A i \in Driven(design) : Knows(k, image, a, i), NEW l \in Latches(design)
  PROVE  /\ LatchNext(m, k, image[l].index) \in {"X", LatchNext(design, a, l)}
         /\ LatchNext(design, a, l) \in Ternary
<1> DEFINE d == design.driver[l]
           p == image[l].index
           x == Signed(a, d.input)
           y == Signed(k, m.driver[p].input)
           n == ~d.sign
<1>1. d.input \in Values(design.size) /\ IsDriven(design, d.input)
  <2>1. d \in LatchDrivers(design.size)
    BY DriverShape, KindsOf DEF Accepted
  <2> QED
    BY <2>1 DEF LatchDrivers, Accepted, Verify, FullyDriven
<1>2. m.driver[p].sign = d.sign /\ m.driver[p].input = RemapValue(d.input, image)
  BY DEF Represents
<1>3. y \in {"X", x}
  <2>1. d.input.index # NoVar => Knows(k, image, a, d.input.index)
    BY <1>1 DEF IsDriven
  <2>2. m.size \in Nat
    BY DEF WellFormed
  <2> QED
    BY <1>1, <1>2, <2>1, <2>2, SeenValue
<1>4. LatchNext(m, k, p) = FlipTernary(y, n) /\ LatchNext(design, a, l) = FlipTernary(x, n)
  BY <1>2 DEF LatchNext
<1>5. n \in BOOLEAN
  OBVIOUS
<1> HIDE DEF x, y, n
<1>6. FlipTernary(y, n) \in {"X", FlipTernary(x, n)}
  BY <1>3, <1>5, FlipKnows
<1>7. LatchNext(design, a, l) \in Ternary
  BY LatchValueType DEF Accepted
<1> QED
  BY <1>4, <1>6, <1>7

LEMMA EdgeKnows ==
  ASSUME Accepted, NEW m, Represents(m, image), WellFormed(m),
         NEW k \in [VarsOf(m) -> Ternary], NEW a \in [VarsOf(design) -> Ternary],
         \A i \in Driven(design) : Knows(k, image, a, i)
  PROVE  KnowsState(Edged(m, k), image, Edged(design, a))
<1> SUFFICES ASSUME NEW i \in Inputs(design) \cup Latches(design)
             PROVE  Knows(Edged(m, k), image, Edged(design, a), i)
  BY DEF KnowsState
<1> DEFINE p == image[i].index
<1>1. i \in VarsOf(design) /\ i \in Driven(design)
  BY KindsOf DEF Accepted
<1>2. CASE i \in Latches(design)
  <2>1. p \in Latches(m) /\ p \in VarsOf(m) /\ p # NoVar
    BY <1>2 DEF Represents, Latches, Kind, VarsOf, NoVar
  <2>2. Edged(m, k)[p] = LatchNext(m, k, p) /\ Edged(design, a)[i] = LatchNext(design, a, i)
    BY <1>1, <1>2, <2>1 DEF Edged
  <2>3. Signed(Edged(m, k), image[i]) = Edged(m, k)[p]
    <3>1. image[i].sign = TRUE
      BY <1>1, <2>1 DEF Represents
    <3> QED
      BY <2>1, <3>1 DEF Signed, FlipTernary
  <2> QED
    BY <1>2, <2>2, <2>3, EdgedLatches DEF Knows
<1>3. CASE i \in Inputs(design)
  <2>1. i \notin Latches(design) /\ Edged(design, a)[i] = a[i]
    BY <1>1, <1>3, KindsOf DEF Accepted, Edged
  <2>2. p = NoVar \/ Edged(m, k)[p] = k[p]
    <3>1. p = NoVar \/ p \in Inputs(m)
      BY <1>3 DEF Represents
    <3> QED
      BY <3>1, KindsOf DEF Edged, Inputs, Kind
  <2>3. Signed(Edged(m, k), image[i]) = Signed(k, image[i])
    BY <2>2 DEF Signed
  <2> QED
    BY <1>1, <2>1, <2>3 DEF Knows
<1> QED
  BY <1>2, <1>3
--------------------------------------------------------------------------------
(* The two simulators name the parts of an FSM, and their meaning, as we do. *)
LEMMA DesignParts ==
  ASSUME NEW m
  PROVE  /\ D!VarsOf(m) = VarsOf(m) /\ D!Inputs(m) = Inputs(m)
         /\ D!Latches(m) = Latches(m) /\ D!Gates(m) = Gates(m)
BY DEF D!VarsOf, D!Inputs, D!Latches, D!Gates, D!Kind, VarsOf, Inputs, Latches, Gates, Kind
LEMMA DesignSigned ==
  ASSUME NEW vals, NEW v, NEW t, NEW b
  PROVE  D!FlipTernary(t, b) = FlipTernary(t, b) /\ D!Signed(vals, v) = Signed(vals, v)
BY DEF D!FlipTernary, D!Signed, D!NoVar, FlipTernary, Signed, NoVar
LEMMA DesignValues ==
  ASSUME NEW m, NEW vals, NEW i
  PROVE  /\ D!LatchNext(m, vals, i) = LatchNext(m, vals, i)
         /\ D!GateValue(m, vals, i) = GateValue(m, vals, i)
<1> DEFINE d == m.driver[i]
<1>1. {D!Signed(vals, v) : v \in {d.a, d.b}} = {Signed(vals, v) : v \in {d.a, d.b}}
  BY DesignSigned
<1>2. ASSUME NEW t, NEW S PROVE D!EvalGate(t, S) = EvalGate(t, S)
  BY DesignSigned DEF D!EvalGate, EvalGate, D!Controlling, Controlling
<1>3. D!GateValue(m, vals, i) = GateValue(m, vals, i)
  BY <1>1, <1>2, DesignSigned DEF D!GateValue, GateValue, D!GateInputs, GateInputs
<1> QED
  BY <1>3, DesignSigned DEF D!LatchNext, LatchNext

LEMMA ModelParts ==
  ASSUME NEW m
  PROVE  /\ M!VarsOf(m) = VarsOf(m) /\ M!Inputs(m) = Inputs(m)
         /\ M!Latches(m) = Latches(m) /\ M!Gates(m) = Gates(m)
BY DEF M!VarsOf, M!Inputs, M!Latches, M!Gates, M!Kind, VarsOf, Inputs, Latches, Gates, Kind
LEMMA ModelSigned ==
  ASSUME NEW vals, NEW v, NEW t, NEW b
  PROVE  M!FlipTernary(t, b) = FlipTernary(t, b) /\ M!Signed(vals, v) = Signed(vals, v)
BY DEF M!FlipTernary, M!Signed, M!NoVar, FlipTernary, Signed, NoVar
LEMMA ModelValues ==
  ASSUME NEW m, NEW vals, NEW i
  PROVE  /\ M!LatchNext(m, vals, i) = LatchNext(m, vals, i)
         /\ M!LatchReset(m, i) = LatchReset(m, i)
         /\ M!GateValue(m, vals, i) = GateValue(m, vals, i)
<1> DEFINE d == m.driver[i]
<1>1. {M!Signed(vals, v) : v \in {d.a, d.b}} = {Signed(vals, v) : v \in {d.a, d.b}}
  BY ModelSigned
<1>2. ASSUME NEW t, NEW S PROVE M!EvalGate(t, S) = EvalGate(t, S)
  BY ModelSigned DEF M!EvalGate, EvalGate, M!Controlling, Controlling
<1>3. M!GateValue(m, vals, i) = GateValue(m, vals, i)
  BY <1>1, <1>2, ModelSigned DEF M!GateValue, GateValue, M!GateInputs, GateInputs
<1> QED
  BY <1>3, ModelSigned DEF M!LatchNext, LatchNext, M!LatchReset, LatchReset

(* What their calls do.                                                    *)
LEMMA DesignCalls ==
  /\ \A i, t : D!SetInput(i, t) =>
       /\ i \in Inputs(design) /\ designCursor = design.size
       /\ design' = design /\ designCursor' = designCursor /\ designFresh' = FALSE
       /\ actual' = [actual EXCEPT ![i] = t]
  /\ D!BeginEval =>
       /\ designCursor = design.size
       /\ design' = design /\ designCursor' = 0 /\ designFresh' = (design.size = 0)
       /\ actual' = actual
  /\ D!EvalNext =>
       /\ designCursor # design.size
       /\ design' = design /\ designCursor' = designCursor + 1
       /\ designFresh' = (designCursor + 1 = design.size)
       /\ actual' = Pass(design, actual, designCursor)
  /\ D!ClockStep =>
       /\ designCursor = design.size
       /\ design' = design /\ designCursor' = designCursor /\ designFresh' = FALSE
       /\ actual' = Edged(design, actual)
  /\ D!Clocked = Edged(design, actual)
<1>1. D!Clocked = Edged(design, actual)
  BY DesignParts, DesignValues DEF D!Clocked, Edged
<1>2. \A i : D!Evaluated(i) = Pass(design, actual, i)
  <2> TAKE i
  <2>1. D!Evaluated(i) = IF i \in D!Gates(design) THEN [actual EXCEPT ![i] = D!GateValue(design, actual, i)]
                         ELSE actual
    BY DEF D!Evaluated
  <2>2. D!Gates(design) = Gates(design) /\ D!GateValue(design, actual, i) = GateValue(design, actual, i)
    BY DesignParts, DesignValues
  <2> QED
    BY <2>1, <2>2 DEF Pass
<1>3. D!ClockStep =>
       /\ designCursor = design.size
       /\ design' = design /\ designCursor' = designCursor /\ designFresh' = FALSE
       /\ actual' = Edged(design, actual)
  BY <1>1 DEF D!ClockStep, D!Overwrite, D!Idle
<1>4. D!EvalNext =>
       /\ designCursor # design.size
       /\ design' = design /\ designCursor' = designCursor + 1
       /\ designFresh' = (designCursor + 1 = design.size)
       /\ actual' = Pass(design, actual, designCursor)
  BY <1>2, Zenon DEF D!EvalNext, D!Idle
<1>5. D!BeginEval =>
       /\ designCursor = design.size
       /\ design' = design /\ designCursor' = 0 /\ designFresh' = (design.size = 0)
       /\ actual' = actual
  BY Zenon DEF D!BeginEval, D!Idle
<1>6. \A i, t : D!SetInput(i, t) =>
       /\ i \in Inputs(design) /\ designCursor = design.size
       /\ design' = design /\ designCursor' = designCursor /\ designFresh' = FALSE
       /\ actual' = [actual EXCEPT ![i] = t]
  BY DesignParts DEF D!SetInput, D!SetVariable, D!Overwrite, D!Idle
<1> QED
  BY <1>1, <1>3, <1>4, <1>5, <1>6

LEMMA ModelCalls ==
  /\ \A i, t : M!SetInput(i, t) =>
       /\ i \in Inputs(model) /\ modelCursor = model.size
       /\ model' = model /\ modelCursor' = modelCursor /\ modelFresh' = FALSE
       /\ known' = [known EXCEPT ![i] = t]
  /\ M!BeginEval =>
       /\ modelCursor = model.size
       /\ model' = model /\ modelCursor' = 0 /\ modelFresh' = (model.size = 0)
       /\ known' = known
  /\ M!EvalNext =>
       /\ modelCursor # model.size
       /\ model' = model /\ modelCursor' = modelCursor + 1
       /\ modelFresh' = (modelCursor + 1 = model.size)
       /\ known' = Pass(model, known, modelCursor)
  /\ M!ClockStep =>
       /\ modelCursor = model.size
       /\ model' = model /\ modelCursor' = modelCursor /\ modelFresh' = FALSE
       /\ known' = Edged(model, known)
  /\ M!Clocked = Edged(model, known)
<1>1. M!Clocked = Edged(model, known)
  BY ModelParts, ModelValues DEF M!Clocked, Edged
<1>2. \A i : M!Evaluated(i) = Pass(model, known, i)
  <2> TAKE i
  <2>1. M!Evaluated(i) = IF i \in M!Gates(model) THEN [known EXCEPT ![i] = M!GateValue(model, known, i)]
                         ELSE known
    BY DEF M!Evaluated
  <2>2. M!Gates(model) = Gates(model) /\ M!GateValue(model, known, i) = GateValue(model, known, i)
    BY ModelParts, ModelValues
  <2> QED
    BY <2>1, <2>2 DEF Pass
<1>3. M!ClockStep =>
       /\ modelCursor = model.size
       /\ model' = model /\ modelCursor' = modelCursor /\ modelFresh' = FALSE
       /\ known' = Edged(model, known)
  BY <1>1 DEF M!ClockStep, M!Overwrite, M!Idle
<1>4. M!EvalNext =>
       /\ modelCursor # model.size
       /\ model' = model /\ modelCursor' = modelCursor + 1
       /\ modelFresh' = (modelCursor + 1 = model.size)
       /\ known' = Pass(model, known, modelCursor)
  BY <1>2, Zenon DEF M!EvalNext, M!Idle
<1>5. M!BeginEval =>
       /\ modelCursor = model.size
       /\ model' = model /\ modelCursor' = 0 /\ modelFresh' = (model.size = 0)
       /\ known' = known
  BY Zenon DEF M!BeginEval, M!Idle
<1>6. \A i, t : M!SetInput(i, t) =>
       /\ i \in Inputs(model) /\ modelCursor = model.size
       /\ model' = model /\ modelCursor' = modelCursor /\ modelFresh' = FALSE
       /\ known' = [known EXCEPT ![i] = t]
  BY ModelParts DEF M!SetInput, M!SetVariable, M!Overwrite, M!Idle
<1> QED
  BY <1>1, <1>3, <1>4, <1>5, <1>6

(* A simulator that was just built knows the reset values of latches.       *)
LEMMA Started ==
  ASSUME NEW m, WellFormed(m), NEW k, k = M!WithReset(m, M!Unknown(m))
  PROVE  /\ k \in [VarsOf(m) -> Ternary]
         /\ \A i \in VarsOf(m) : k[i] = IF i \in Latches(m) THEN LatchReset(m, i) ELSE "X"
<1>1. k = [i \in VarsOf(m) |-> IF i \in Latches(m) THEN LatchReset(m, i) ELSE "X"]
  BY ModelParts, ModelValues DEF M!WithReset, M!Unknown
<1>2. [i \in VarsOf(m) |-> "X"] \in [VarsOf(m) -> Ternary]
  BY DEF Ternary
<1>3. \A l \in Latches(m) : LatchReset(m, l) \in Ternary
  BY <1>2, LatchValueType
<1> QED
  BY <1>1, <1>3 DEF Ternary
--------------------------------------------------------------------------------
(****************************************************************************)
(* The inductive invariant: what is simulated is ordered and represents the *)
(* design, eval settles what it passes, and unless a preset was assumed the *)
(* model knows nothing wrong about inputs and latches.                      *)
(****************************************************************************)
Staged ==
  /\ stage \in {"assert", "infer", "run"}
  /\ stage # "run" => model = design /\ image = Same /\ assumed = {}
Represented == WellFormed(model) /\ Verify(model) /\ Represents(model, image)
BothSettle ==
  /\ Settles(design, actual, designCursor, designFresh)
  /\ Settles(model, known, modelCursor, modelFresh)
NothingWrong == assumed = {} => KnowsState(known, image, actual)
IInv == Accepted /\ Staged /\ Represented /\ BothSettle /\ NothingWrong

(* What follows from it for the two FSMs.                                  *)
LEMMA Known ==
  ASSUME IInv
  PROVE  /\ WellFormed(design) /\ OrderedGates(design) /\ WellFormed(model) /\ OrderedGates(model)
         /\ actual \in [VarsOf(design) -> Ternary] /\ known \in [VarsOf(model) -> Ternary]
         /\ design.size \in Nat /\ model.size \in Nat
         /\ designFresh /\ modelFresh /\ assumed = {} =>
              \A i \in Driven(design) : Knows(known, image, actual, i)
<1>1. /\ WellFormed(design) /\ OrderedGates(design) /\ WellFormed(model) /\ OrderedGates(model)
      /\ actual \in [VarsOf(design) -> Ternary] /\ known \in [VarsOf(model) -> Ternary]
      /\ design.size \in Nat /\ model.size \in Nat
  BY DEF IInv, Accepted, Represented, Verify, BothSettle, Settles, WellFormed
<1>2. ASSUME designFresh, modelFresh, assumed = {}
      PROVE  \A i \in Driven(design) : Knows(known, image, actual, i)
  <2>1. /\ \A g \in Gates(design) : actual[g] = GateValue(design, actual, g)
        /\ \A g \in Gates(model) : known[g] = GateValue(model, known, g)
    <3>1. /\ Settles(design, actual, designCursor, designFresh)
          /\ Settles(model, known, modelCursor, modelFresh)
      BY DEF IInv, BothSettle
    <3>2. designFresh = TRUE => \A g \in Gates(design) : actual[g] = GateValue(design, actual, g)
      BY <1>1, <3>1, SettlesCalls, ZenonT(30)
    <3>3. modelFresh = TRUE => \A g \in Gates(model) : known[g] = GateValue(model, known, g)
      BY <1>1, <3>1, SettlesCalls, ZenonT(30)
    <3>4. designFresh = TRUE /\ modelFresh = TRUE
      BY <1>2, <3>1 DEF Settles
    <3> QED
      BY <3>2, <3>3, <3>4
  <2>2. \A i \in Inputs(design) \cup Latches(design) : Knows(known, image, actual, i)
    BY <1>2 DEF IInv, NothingWrong, KnowsState
  <2> QED
    BY <1>1, <2>1, <2>2, GatesKnow DEF IInv, Represented
<1> QED
  BY <1>1, <1>2

(* It holds at first: the simulator knows of the design what its concrete   *)
(* state resolves.                                                         *)
LEMMA InitInv == Init => IInv
<1> SUFFICES ASSUME Init PROVE IInv
  OBVIOUS
<1>1. PICK c \in Cases : tied = c.tied /\ active = c.active /\ design = c.fsm /\ model = c.fsm
  BY DEF Init
<1>2. Accepted
  BY <1>1, CasesAssumption DEF Accepted
<1>3. /\ known = M!WithReset(model, M!Unknown(model)) /\ actual \in Resolutions(design, known)
      /\ designCursor = design.size /\ modelCursor = model.size
      /\ designFresh = FALSE /\ modelFresh = FALSE
      /\ image = Same /\ stage = "assert" /\ assumed = {}
  BY DEF Init, Same
<1>4. Staged
  BY <1>1, <1>3 DEF Staged
<1>5. Represented
  BY <1>1, <1>2, <1>3, SameRepresents DEF Represented, Accepted
<1>6. known \in [VarsOf(design) -> Ternary]
  BY <1>1, <1>3, <1>5, Started DEF Represented
<1>7. /\ actual \in [VarsOf(design) -> Ternary]
      /\ \A i \in VarsOf(design) : known[i] # "X" => actual[i] = known[i]
  BY <1>3 DEF Resolutions, Ternary
<1>8. BothSettle
  <2>1. design.size \in Nat
    BY <1>2 DEF Accepted, WellFormed
  <2>2. Settles(design, actual, design.size, FALSE) /\ Settles(design, known, design.size, FALSE)
    BY <1>6, <1>7, <2>1 DEF Settles
  <2> QED
    BY <1>1, <1>3, <2>2, Zenon DEF BothSettle
<1>9. NothingWrong
  <2> SUFFICES ASSUME NEW i \in Inputs(design) \cup Latches(design)
               PROVE  Knows(known, image, actual, i)
    BY DEF NothingWrong, KnowsState
  <2>1. i \in VarsOf(design) /\ i # NoVar
    BY <1>2, KindsOf DEF Accepted, VarsOf, NoVar
  <2>2. image[i] = Lit(i, TRUE)
    BY <1>3, <2>1 DEF Same
  <2>3. Signed(known, Lit(i, TRUE)) = known[i]
    BY <2>1 DEF Signed, Lit, FlipTernary
  <2> QED
    BY <1>7, <2>1, <2>2, <2>3 DEF Knows
<1> QED
  BY <1>2, <1>4, <1>5, <1>8, <1>9 DEF IInv
--------------------------------------------------------------------------------
(* A step that changes neither FSM.                                        *)
LEMMA Carried ==
  ASSUME IInv, UNCHANGED <<design, model, image, tied, active, assumed>>,
         stage' \in {"assert", "infer", "run"}, stage = "run" => stage' = "run",
         BothSettle', assumed = {} => KnowsState(known', image, actual')
  PROVE  IInv'
<1>1. Accepted'
  BY DEF IInv, Accepted
<1>2. Represented'
  BY DEF IInv, Represented, Represents
<1>3. Staged'
  BY DEF IInv, Staged, Same
<1>4. NothingWrong'
  BY DEF NothingWrong, KnowsState
<1> QED
  BY <1>1, <1>2, <1>3, <1>4 DEF IInv

(* A simulator whose variables are overwritten, between two calls of eval.  *)
LEMMA Overwritten ==
  ASSUME NEW m, m.size \in Nat, NEW w \in [VarsOf(m) -> Ternary]
  PROVE  Settles(m, w, m.size, FALSE)
BY DEF Settles

(* An input of both simulators is set.                                     *)
LEMMA DriveInv ==
  ASSUME IInv, NEW i \in Inputs(design), NEW t \in Ternary, NEW u \in {"X", t},
         D!SetInput(i, t), M!SetInput(image[i].index, u),
         UNCHANGED <<image, tied, active, assumed>>,
         stage' \in {"assert", "infer", "run"}, stage = "run" => stage' = "run"
  PROVE  IInv'
<1>1. /\ design' = design /\ designCursor = design.size /\ designCursor' = designCursor
      /\ designFresh' = FALSE /\ actual' = [actual EXCEPT ![i] = t]
  BY DesignCalls
<1>2. /\ model' = model /\ modelCursor = model.size /\ modelCursor' = modelCursor
      /\ modelFresh' = FALSE /\ known' = [known EXCEPT ![image[i].index] = u]
      /\ image[i].index \in Inputs(model)
  BY ModelCalls
<1>3. actual' \in [VarsOf(design) -> Ternary] /\ known' \in [VarsOf(model) -> Ternary]
  <2>1. u \in Ternary
    BY DEF Ternary
  <2> QED
    BY <1>1, <1>2, <2>1, Known
<1>4. BothSettle'
  <2>1. Settles(design, actual', design.size, FALSE) /\ Settles(model, known', model.size, FALSE)
    BY <1>3, Known, Overwritten
  <2>2. /\ Settles(design', actual', designCursor', designFresh')
        /\ Settles(model', known', modelCursor', modelFresh')
    BY <1>1, <1>2, <2>1
  <2> QED
    BY <2>2 DEF BothSettle
<1>5. assumed = {} => KnowsState(known', image, actual')
  <2>1. image[i].index # NoVar
    BY <1>2 DEF Inputs, Kind, VarsOf, NoVar
  <2> QED
    BY <1>1, <1>2, <2>1, Known, SetKnows DEF IInv, NothingWrong, Represented
<1> QED
  BY <1>1, <1>2, <1>4, <1>5, Carried

(* eval, one variable at a time.                                           *)
LEMMA EvalInv ==
  ASSUME IInv, Evals, UNCHANGED <<stage, tied, active, assumed>>
  PROVE  IInv'
<1>1. /\ Settles(design, actual, designCursor, designFresh)
      /\ Settles(model, known, modelCursor, modelFresh)
  BY DEF IInv, BothSettle
<1>2. stage \in {"assert", "infer", "run"}
  BY DEF IInv, Staged
<1>3. CASE BeginEvals
  <2>1. /\ design' = design /\ designCursor' = 0 /\ designFresh' = (design.size = 0)
        /\ actual' = actual
        /\ model' = model /\ modelCursor' = 0 /\ modelFresh' = (model.size = 0) /\ known' = known
        /\ image' = image
    BY <1>3, DesignCalls, ModelCalls, Zenon DEF BeginEvals
  <2>2. Settles(design, actual, 0, design.size = 0) /\ Settles(model, known, 0, model.size = 0)
    BY <1>1, Known, SettlesCalls, Zenon
  <2>3. BothSettle'
    BY <2>1, <2>2, Zenon DEF BothSettle
  <2>4. assumed = {} => KnowsState(known', image, actual')
    BY <2>1 DEF IInv, NothingWrong
  <2> QED
    BY <1>2, <2>1, <2>3, <2>4, Carried
<1>4. CASE EvalDesign
  <2>1. /\ designCursor # design.size /\ design' = design /\ designCursor' = designCursor + 1
        /\ designFresh' = (designCursor + 1 = design.size)
        /\ actual' = Pass(design, actual, designCursor)
        /\ model' = model /\ modelCursor' = modelCursor /\ modelFresh' = modelFresh
        /\ known' = known
        /\ image' = image
    BY <1>4, DesignCalls, Zenon DEF EvalDesign, modelVars
  <2>2. Settles(design, Pass(design, actual, designCursor), designCursor + 1,
                designCursor + 1 = design.size)
    BY <1>1, <2>1, Known, SettlesCalls, Zenon
  <2>3. BothSettle'
    BY <1>1, <2>1, <2>2, Zenon DEF BothSettle
  <2>4. assumed = {} => KnowsState(known', image, actual')
    BY <2>1, Known, PassKnows DEF IInv, NothingWrong, Represented
  <2> QED
    BY <1>2, <2>1, <2>3, <2>4, Carried
<1>5. CASE EvalModel
  <2>1. /\ modelCursor # model.size /\ model' = model /\ modelCursor' = modelCursor + 1
        /\ modelFresh' = (modelCursor + 1 = model.size)
        /\ known' = Pass(model, known, modelCursor)
        /\ design' = design /\ designCursor' = designCursor /\ designFresh' = designFresh
        /\ actual' = actual
        /\ image' = image
    BY <1>5, ModelCalls, Zenon DEF EvalModel, designVars
  <2>2. Settles(model, Pass(model, known, modelCursor), modelCursor + 1,
                modelCursor + 1 = model.size)
    BY <1>1, <2>1, Known, SettlesCalls, Zenon
  <2>3. BothSettle'
    BY <1>1, <2>1, <2>2, Zenon DEF BothSettle
  <2>4. assumed = {} => KnowsState(known', image, actual')
    BY <2>1, Known, PassKnows DEF IInv, NothingWrong, Represented
  <2> QED
    BY <1>2, <2>1, <2>3, <2>4, Carried
<1> QED
  BY <1>3, <1>4, <1>5 DEF Evals

(* The clock edge of both.                                                 *)
LEMMA ClockInv ==
  ASSUME IInv, ClockBoth, UNCHANGED <<stage, tied, active, assumed>>
  PROVE  IInv'
<1>1. /\ design' = design /\ designCursor = design.size /\ designCursor' = designCursor
      /\ designFresh' = FALSE /\ actual' = Edged(design, actual)
      /\ model' = model /\ modelCursor = model.size /\ modelCursor' = modelCursor
      /\ modelFresh' = FALSE /\ known' = Edged(model, known)
      /\ image' = image /\ designFresh /\ modelFresh
  BY DesignCalls, ModelCalls, Zenon DEF ClockBoth
<1>2. actual' \in [VarsOf(design) -> Ternary] /\ known' \in [VarsOf(model) -> Ternary]
  <2>1. /\ Edged(design, actual) \in [VarsOf(design) -> Ternary]
        /\ Edged(model, known) \in [VarsOf(model) -> Ternary]
    BY Known, LatchValueType DEF Edged
  <2> QED
    BY <1>1, <2>1
<1>3. BothSettle'
  <2>1. Settles(design, actual', design.size, FALSE) /\ Settles(model, known', model.size, FALSE)
    BY <1>2, Known, Overwritten
  <2>2. /\ Settles(design', actual', designCursor', designFresh')
        /\ Settles(model', known', modelCursor', modelFresh')
    BY <1>1, <2>1
  <2> QED
    BY <2>2 DEF BothSettle
<1>4. assumed = {} => KnowsState(known', image, actual')
  BY <1>1, Known, EdgeKnows DEF IInv, Represented
<1>5. stage \in {"assert", "infer", "run"}
  BY DEF IInv, Staged
<1> QED
  BY <1>1, <1>3, <1>4, <1>5, Carried
--------------------------------------------------------------------------------
(* The initial value of a latch is what it holds after the edge under       *)
(* reset, unless its preset had to stand in.                               *)
LEMMA InferredValue ==
  ASSUME Accepted, NEW w \in [VarsOf(design) -> Ternary], NEW l \in Latches(design),
         Signed(w, Lit(l, TRUE)) = "X" => design.driver[l].reset = "X"
  PROVE  FlipTernary(Inferred(w, l), ~design.driver[l].sign) = w[l]
<1> DEFINE n == ~design.driver[l].sign
           v == Signed(w, Lit(l, design.driver[l].sign))
<1>1. l \in VarsOf(design) /\ l # NoVar /\ w[l] \in Ternary
  BY DEF Latches, Kind, VarsOf, NoVar
<1>2. n \in BOOLEAN
  OBVIOUS
<1>3. v = FlipTernary(w[l], n) /\ Signed(w, Lit(l, TRUE)) = w[l]
  BY <1>1 DEF Signed, Lit, FlipTernary
<1>4. Inferred(w, l) = IF v = "X" THEN design.driver[l].reset ELSE v
  BY DEF Inferred
<1> HIDE DEF n, v
<1>5. CASE v = "X"
  <2>1. w[l] = "X"
    BY <1>1, <1>2, <1>3, <1>5, FlipTwice
  <2>2. Inferred(w, l) = "X"
    BY <1>3, <1>4, <1>5, <2>1
  <2> QED
    BY <1>3, <1>5, <2>1, <2>2 DEF n
<1>6. CASE v # "X"
  <2>1. FlipTernary(FlipTernary(w[l], n), n) = w[l]
    BY <1>1, <1>2, FlipTwice
  <2> QED
    BY <1>3, <1>4, <1>6, <2>1 DEF n
<1> QED
  BY <1>5, <1>6

(* What the rebuilt FSM knows when its simulator starts.                   *)
LEMMA RebuiltKnows ==
  ASSUME IInv, stage = "infer", designFresh, modelFresh,
         NEW w, w = Edged(design, known),
         \A l \in Latches(design) : Signed(w, Lit(l, TRUE)) = "X" => design.driver[l].reset = "X",
         NEW r, r = RebuiltWith(w), NEW k, k = M!WithReset(r, M!Unknown(r)),
         NEW a, a = [Edged(design, actual) EXCEPT ![tied] = FlipTernary(active, TRUE)]
  PROVE  KnowsState(k, Mapping, a)
<1>1. Accepted /\ model = design /\ image = Same /\ assumed = {}
  BY DEF IInv, Staged
<1>2. w \in [VarsOf(design) -> Ternary] /\ Edged(design, actual) \in [VarsOf(design) -> Ternary]
  BY <1>1, Known, LatchValueType DEF Edged
<1>3. /\ \A i \in Kept : /\ r.driver[Place(i)] = RebuiltDriver(w, i) /\ Place(i) \in VarsOf(r)
                         /\ Place(i) \in Latches(r) <=> i \in Latches(design)
      /\ WellFormed(r)
  BY <1>1, <1>2, RebuiltParts, RebuiltKinds
<1>4. \A i \in VarsOf(r) : k[i] = IF i \in Latches(r) THEN LatchReset(r, i) ELSE "X"
  BY <1>3, Started
<1>5. /\ tied \in VarsOf(design) /\ tied \notin Kept /\ Kept \subseteq VarsOf(design)
      /\ \A i \in Kept : Place(i) # NoVar
  <2>1. tied \in VarsOf(design)
    BY <1>1 DEF Accepted, Inputs, Kind
  <2> QED
    BY <1>1, <1>3, <2>1, Places DEF VarsOf, NoVar
<1>6. \A i \in Kept : Mapping[i] = Lit(Place(i), TRUE) /\ a[i] = Edged(design, actual)[i]
  BY <1>2, <1>5 DEF Mapping
<1>7. \A i \in Kept : Signed(k, Mapping[i]) = k[Place(i)]
  <2> TAKE i \in Kept
  <2>1. Signed(k, Lit(Place(i), TRUE)) = k[Place(i)]
    BY <1>5 DEF Signed, Lit, FlipTernary
  <2> QED
    BY <1>6, <2>1
<1>8. Knows(k, Mapping, a, tied)
  <2>1. Mapping[tied] = Const(active = "0") /\ a[tied] = FlipTernary(active, TRUE)
    BY <1>2, <1>5 DEF Mapping, Inactive
  <2>2. Signed(k, Const(active = "0")) = IF active = "0" THEN "1" ELSE "0"
    BY DEF Signed, Const
  <2>3. FlipTernary(active, TRUE) = IF active = "0" THEN "1" ELSE "0"
    BY <1>1 DEF Accepted, FlipTernary
  <2> QED
    BY <2>1, <2>2, <2>3 DEF Knows
<1>9. ASSUME NEW i \in FreeInputs PROVE Knows(k, Mapping, a, i)
  <2>1. i \in Kept /\ i \notin Latches(design)
    BY <1>1, KindsOf DEF Accepted, FreeInputs, Kept
  <2>2. k[Place(i)] = "X"
    BY <1>3, <1>4, <2>1
  <2> QED
    BY <1>7, <2>1, <2>2 DEF Knows
<1>10. ASSUME NEW l \in Latches(design) PROVE Knows(k, Mapping, a, l)
  <2>1. l \in Kept /\ l \in VarsOf(design) /\ Same[l].index = l
    <3>1. l \in Kept
      BY DEF Kept
    <3> QED
      BY <1>5, <3>1 DEF Same, Lit
  <2>2. k[Place(l)] = LatchReset(r, Place(l))
    BY <1>3, <1>4, <2>1
  <2>3. r.driver[Place(l)]
          = LatchDriver(design.driver[l].sign, Moved(design.driver[l].input), Inferred(w, l))
    BY <1>1, <1>2, <1>3, <2>1, RebuiltDrivers
  <2>4. LatchReset(r, Place(l)) = FlipTernary(Inferred(w, l), ~design.driver[l].sign)
    BY <2>3 DEF LatchReset, LatchDriver
  <2>5. k[Place(l)] = w[l]
    BY <1>1, <1>2, <2>2, <2>4, InferredValue
  <2>6. w[l] = LatchNext(design, known, l) /\ a[l] = LatchNext(design, actual, l)
    BY <1>6, <2>1 DEF Edged
  <2>7. LatchNext(design, known, l) \in {"X", LatchNext(design, actual, l)}
    <3>1. \A i \in Driven(design) : Knows(known, Same, actual, i)
      BY <1>1, Known
    <3>2. Represents(design, Same) /\ known \in [VarsOf(design) -> Ternary]
      BY <1>1, Known DEF IInv, Represented
    <3>3. LatchNext(design, known, Same[l].index) \in {"X", LatchNext(design, actual, l)}
      BY <1>1, <3>1, <3>2, Known, EdgedLatches DEF Accepted
    <3> QED
      BY <2>1, <3>3
  <2> QED
    BY <1>7, <2>1, <2>5, <2>6, <2>7 DEF Knows
<1> QED
  BY <1>8, <1>9, <1>10 DEF KnowsState, FreeInputs

(* The rebuild starts a simulator on an FSM that represents the design.     *)
LEMMA RebuildInv ==
  ASSUME IInv, Rebuild
  PROVE  IInv'
<1> DEFINE w == Edged(design, known)
           r == RebuiltWith(w)
<1>1. Accepted /\ model = design /\ image = Same /\ assumed = {} /\ stage = "infer"
      /\ designFresh /\ modelFresh
  BY DEF IInv, Staged, Rebuild
<1>2. M!Clocked = w /\ D!Clocked = Edged(design, actual)
  BY <1>1, DesignCalls, ModelCalls
<1>3. /\ design' = design /\ designCursor' = designCursor /\ tied' = tied /\ active' = active
      /\ designFresh' = FALSE /\ stage' = "run" /\ image' = Mapping
      /\ model' = r /\ modelCursor' = r.size /\ modelFresh' = FALSE
      /\ known' = M!WithReset(r, M!Unknown(r))
      /\ actual' = [Edged(design, actual) EXCEPT ![tied] = FlipTernary(active, TRUE)]
      /\ assumed' = {l \in Latches(design) : /\ Signed(w, Lit(l, TRUE)) = "X"
                                             /\ design.driver[l].reset # "X"}
  <2> HIDE DEF w
  <2> QED
    BY <1>2 DEF Rebuild, StartModel
<1>4. w \in [VarsOf(design) -> Ternary] /\ Edged(design, actual) \in [VarsOf(design) -> Ternary]
  BY <1>1, Known, LatchValueType DEF Edged
<1>5. WellFormed(r) /\ Verify(r) /\ Represents(r, Mapping)
  <2> HIDE DEF w
  <2> QED
    BY <1>1, <1>4, RebuiltKinds, RebuiltVerified, MappingRepresents
<1>6. KnowsState(known', Mapping, actual') \/ assumed' # {}
  <2> HIDE DEF w, r
  <2>1. CASE assumed' = {}
    <3>1. \A l \in Latches(design) : Signed(w, Lit(l, TRUE)) = "X" => design.driver[l].reset = "X"
      BY <1>3, <2>1
    <3>2. w = Edged(design, known) /\ r = RebuiltWith(w)
      BY DEF w, r
    <3> QED
      BY <1>1, <1>3, <3>1, <3>2, RebuiltKnows
  <2> QED
    BY <2>1
<1> HIDE DEF w, r
<1>7. BothSettle'
  <2>1. actual' \in [VarsOf(design) -> Ternary] /\ known' \in [VarsOf(r) -> Ternary]
    <3>1. FlipTernary(active, TRUE) \in Ternary
      BY <1>1 DEF Accepted, FlipTernary, Ternary
    <3> QED
      BY <1>3, <1>4, <1>5, <3>1, Started
  <2>2. r.size \in Nat /\ designCursor = design.size
    <3>1. designFresh => designCursor = design.size
      BY Zenon DEF IInv, BothSettle, Settles
    <3> QED
      BY <1>1, <1>5, <3>1 DEF WellFormed
  <2>3. Settles(design, actual', design.size, FALSE) /\ Settles(r, known', r.size, FALSE)
    BY <2>1, <2>2, Known, Overwritten
  <2>4. /\ Settles(design', actual', designCursor', designFresh')
        /\ Settles(model', known', modelCursor', modelFresh')
    BY <1>3, <2>2, <2>3
  <2> QED
    BY <2>4 DEF BothSettle
<1>8. Accepted' /\ Staged'
  BY <1>1, <1>3 DEF Accepted, Staged
<1>9. Represented'
  BY <1>3, <1>5 DEF Represented, Represents
<1>10. NothingWrong'
  BY <1>3, <1>6 DEF NothingWrong, KnowsState
<1> QED
  BY <1>7, <1>8, <1>9, <1>10 DEF IInv

(* Every step keeps the invariant.                                         *)
LEMMA InvPreserved == IInv /\ [Next]_vars => IInv'
<1> SUFFICES ASSUME IInv, [Next]_vars PROVE IInv'
  OBVIOUS
<1>1. stage \in {"assert", "infer", "run"} /\ Accepted /\ Represents(model, image)
  BY DEF IInv, Staged, Represented
<1>2. CASE AssertReset
  <2>1. image[tied].index = tied /\ tied \in Inputs(design) /\ active \in Ternary
    <3>1. image = Same /\ tied \in VarsOf(design)
      BY <1>1, <1>2 DEF AssertReset, IInv, Staged, Accepted, Inputs, Kind
    <3> QED
      BY <1>1, <3>1 DEF Same, Lit, Accepted, Ternary
  <2>2. /\ D!SetInput(tied, active) /\ M!SetInput(image[tied].index, active)
        /\ UNCHANGED <<image, tied, active, assumed>> /\ stage = "assert" /\ stage' = "infer"
    BY <1>2, <2>1 DEF AssertReset
  <2> QED
    BY <2>1, <2>2, DriveInv
<1>3. CASE Eval
  BY <1>3, EvalInv DEF Eval
<1>4. CASE Rebuild
  BY <1>4, RebuildInv
<1>5. CASE Clock
  BY <1>5, ClockInv DEF Clock
<1>6. ASSUME NEW i \in VarsOf(design), NEW t \in {"0", "1"}, NEW u \in Ternary, Drive(i, t, u)
      PROVE  IInv'
  <2>1. /\ i \in Inputs(design) /\ u \in {"X", t} /\ t \in Ternary /\ stage' = stage
        /\ D!SetInput(i, t) /\ M!SetInput(image[i].index, FlipTernary(u, ~image[i].sign))
        /\ UNCHANGED <<image, tied, active, assumed>>
    BY <1>6 DEF Drive, DriveInput, FreeInputs, Ternary
  <2>2. image[i].index \in Inputs(model)
    BY <2>1, ModelCalls
  <2>3. image[i].sign = TRUE
    <3>1. i \in Driven(design) /\ image[i].index # NoVar
      BY <1>1, <2>1, <2>2, KindsOf DEF Accepted, Inputs, Kind, VarsOf, NoVar
    <3> QED
      BY <1>1, <3>1 DEF Represents
  <2>4. FlipTernary(u, ~image[i].sign) = u
    BY <2>3 DEF FlipTernary
  <2> QED
    BY <1>1, <2>1, <2>4, DriveInv
<1>7. CASE UNCHANGED vars
  <2>1. UNCHANGED <<design, actual, designCursor, designFresh, model, known, modelCursor,
                    modelFresh, image, stage, tied, active, assumed>>
    BY <1>7 DEF vars, designVars, modelVars
  <2>2. BothSettle' /\ (assumed = {} => KnowsState(known', image, actual'))
    BY <2>1 DEF IInv, BothSettle, NothingWrong
  <2> QED
    BY <1>1, <2>1, <2>2, Carried
<1> QED
  BY <1>2, <1>3, <1>4, <1>5, <1>6, <1>7 DEF Next

(* The FSM that apply_reset returns passes verify, gate order included, as   *)
(* both converters assert, for every design that does and every reset input. *)
THEOREM RebuildIsVerified == Spec => []RebuiltVerifies
<1>1. IInv => RebuiltVerifies
  BY DEF IInv, Represented, RebuiltVerifies
<1> QED
  BY <1>1, InitInv, InvPreserved, PTL DEF Spec

(* Unknown never becomes wrong: what the simulator knows under reset, and   *)
(* the rebuilt FSM in every later cycle, is so in the design.              *)
THEOREM ResetCoversDesign == Spec => []ModelCoversDesign
<1>1. IInv => ModelCoversDesign
  <2> SUFFICES ASSUME IInv, assumed = {}
               PROVE  /\ \A l \in Latches(design) : Agrees(l)
                      /\ designFresh /\ modelFresh =>
                           /\ \A i \in Driven(design) : Agrees(i)
                           /\ \A list \in Lists : \A k \in DOMAIN design.refs[list] :
                                Signed(known, model.refs[list][k])
                                  \in {"X", Signed(actual, design.refs[list][k])}
    BY DEF ModelCoversDesign
  <2>1. \A i : Knows(known, image, actual, i) => Agrees(i)
    BY DEF Knows, Agrees, Seen
  <2>2. \A l \in Latches(design) : Agrees(l)
    BY <2>1 DEF IInv, NothingWrong, KnowsState
  <2>3. ASSUME designFresh, modelFresh
        PROVE  \A i \in Driven(design) : Knows(known, image, actual, i)
    BY <2>3, Known
  <2>4. ASSUME designFresh, modelFresh, NEW list \in Lists, NEW k \in DOMAIN design.refs[list]
        PROVE  Signed(known, model.refs[list][k]) \in {"X", Signed(actual, design.refs[list][k])}
    <3> DEFINE v == design.refs[list][k]
    <3>1. v \in Values(design.size) /\ IsDriven(design, v)
      <4>1. design.refs[list] \in Seq(Values(design.size))
        BY DEF IInv, Accepted, WellFormed, Machine
      <4>2. v \in Values(design.size)
        BY <4>1, ElementOfSeq, LenProperties
      <4> QED
        BY <4>2 DEF IInv, Accepted, Verify, FullyDriven
    <3>2. model.refs[list][k] = RemapValue(v, image)
      BY ZenonT(30) DEF IInv, Represented, Represents
    <3>3. v.index # NoVar => Knows(known, image, actual, v.index)
      BY <2>3, <2>4, <3>1 DEF IsDriven
    <3> HIDE DEF v
    <3>4. Signed(known, RemapValue(v, image)) \in {"X", Signed(actual, v)}
      BY <3>1, <3>3, Known, SeenValue DEF IInv, Represented
    <3> QED
      BY <3>2, <3>4 DEF v
  <2> QED
    BY <2>1, <2>2, <2>3, <2>4
<1> QED
  BY <1>1, InitInv, InvPreserved, PTL DEF Spec
================================================================================
