----------------------------- MODULE ReorderProofs -----------------------------
(****************************************************************************)
(* What is proved of the renumbering of variables, for every FSM, whatever  *)
(* its size and however its gates are wired: of reorder_gates_with; of      *)
(* normalize_ordering, which groups the variables and calls it; and of      *)
(* export::prepare, which calls it on outputs it has normalised.            *)
(****************************************************************************)
EXTENDS Normalize, Export, FsmProofs

(****************************************************************************)
(* The inductive invariant.  Numbering says what the loop has built;        *)
(* Coverage that the queue still holds every gate it has not numbered; and  *)
(* Stuck that the gates deferred since the last assignment, which the queue *)
(* holds at its end, all wait for an unassigned gate.                       *)
(****************************************************************************)
Settled ==
  /\ WellFormed(given) /\ FullyDriven(given)
  /\ pc # "done" => fsm = given /\ moved = Identity(fsm)
  /\ pc \in {"call", "misplaced"} =>
       assigned = {} /\ blocked = 0 /\ mapping = Identity(fsm)

Numbering ==
  /\ Gates(fsm) # {} /\ GatesLast(fsm)
  /\ assigned \subseteq Gates(fsm)
  /\ nextGate = FirstGate(fsm) + Cardinality(assigned)
  /\ \A i \in VarsOf(fsm) \ assigned : mapping[i] = i
  /\ \A g \in assigned :
       /\ mapping[g] \in FirstGate(fsm) .. nextGate - 1
       /\ \A d \in Deps(fsm, g) : d \in assigned /\ mapping[d] < mapping[g]
       /\ \A h \in assigned : mapping[h] = mapping[g] => h = g

Coverage == \A g \in Gates(fsm) \ assigned : \E k \in 1 .. Len(queue) : queue[k] = g

Stuck ==
  /\ \A k \in 1 .. Len(queue) :
       k > Len(queue) - blocked => Pending(queue[k]) /\ ~Ready(queue[k])
  /\ pc = "walk" => blocked <= Len(queue)
  /\ pc = "cyclic" => queue # <<>> /\ blocked >= Len(queue)

IInv ==
  /\ TypeOK
  /\ Settled
  /\ pc \in {"walk", "cyclic"} => Numbering /\ Coverage /\ Stuck
  /\ DoneIsVerified
  /\ NamesFollow

--------------------------------------------------------------------------------
(* The first gate is a gate, and no gate is before it.                     *)
LEMMA FirstGateIsLeast ==
  ASSUME NEW m, WellFormed(m), Gates(m) # {}
  PROVE  /\ FirstGate(m) \in Gates(m)
         /\ FirstGate(m) \in VarsOf(m)
         /\ \A h \in Gates(m) : FirstGate(m) <= h
<1>1. Gates(m) \subseteq VarsOf(m) /\ VarsOf(m) \subseteq Nat
  BY DEF Gates, Kind, VarsOf, WellFormed
<1>2. \E g \in Gates(m) : \A h \in Gates(m) : g <= h
  BY <1>1, LeastNatural
<1> QED
  BY <1>1, <1>2, Zenon DEF FirstGate

(* Gates numbered from the first gate up stay inside the variable vector.  *)
LEMMA GatesFit ==
  ASSUME NEW m, WellFormed(m), Gates(m) # {}, NEW Part \in SUBSET Gates(m)
  PROVE  /\ IsFiniteSet(Part) /\ Cardinality(Part) \in Nat
         /\ FirstGate(m) + Cardinality(Part) <= m.size
<1> DEFINE Room == FirstGate(m) .. m.size - 1
<1>1. FirstGate(m) \in 0 .. m.size - 1 /\ m.size \in Nat
  BY FirstGateIsLeast DEF VarsOf, WellFormed
<1>2. Part \subseteq Room
  BY <1>1, FirstGateIsLeast DEF Gates, Kind, VarsOf
<1>3. IsFiniteSet(Room) /\ Cardinality(Room) = m.size - FirstGate(m)
  <2>1. FirstGate(m) \in Int /\ m.size - 1 \in Int /\ ~(FirstGate(m) > m.size - 1)
    BY <1>1
  <2>2. /\ IsFiniteSet(Room)
        /\ Cardinality(Room) = (m.size - 1) - FirstGate(m) + 1
    BY <2>1, FS_Interval, Zenon
  <2> QED
    BY <1>1, <2>2
<1>4. IsFiniteSet(Part) /\ Cardinality(Part) <= Cardinality(Room)
  BY <1>2, <1>3, FS_Subset
<1>5. Cardinality(Part) \in Nat
  BY <1>4, FS_CardinalityType
<1> QED
  BY <1>1, <1>3, <1>4, <1>5

(****************************************************************************)
(* The steps that build the numbering preserve IInv, one lemma per action.  *)
(****************************************************************************)
LEMMA InitEstablishesIInv == Init => IInv
<1> SUFFICES ASSUME Init PROVE IInv
  OBVIOUS
<1>1. WellFormed(fsm) /\ FullyDriven(fsm)
  BY MachinesAssumption DEF Init
<1>2. TypeOK
  BY <1>1 DEF Init, TypeOK, Identity, VarsOf, WellFormed, Ended
<1>3. Settled
  BY <1>1 DEF Init, Settled
<1> QED
  BY <1>2, <1>3 DEF Init, IInv, DoneIsVerified, NamesFollow

LEMMA SeedPreservesIInv == IInv /\ Seed => IInv'
<1> SUFFICES ASSUME IInv, Seed PROVE IInv'
  OBVIOUS
<1> USE DEF Seed, Worklist
<1>1. /\ WellFormed(fsm) /\ fsm.size \in Nat /\ Gates(fsm) # {}
      /\ assigned = {} /\ blocked = 0 /\ mapping = Identity(fsm) /\ fsm = given
  BY DEF IInv, TypeOK, Settled, WellFormed
<1>2. FirstGate(fsm) \in Nat
  BY <1>1, FirstGateIsLeast DEF VarsOf
<1>3. Len(queue') = fsm.size /\ \A k \in 1 .. fsm.size : queue'[k] = k - 1
  BY <1>1
<1>4. TypeOK'
  <2>1. queue' \in Seq(VarsOf(fsm))
    BY <1>1 DEF VarsOf
  <2> QED
    BY <1>2, <2>1 DEF IInv, TypeOK, VarsOf
<1>5. Settled'
  BY <1>1 DEF IInv, Settled
<1>6. Numbering'
  <2>1. Cardinality(assigned) = 0 /\ FirstGate(fsm) + 0 = FirstGate(fsm)
    BY <1>1, <1>2, FS_EmptySet
  <2>2. fsm' = fsm /\ assigned' = {} /\ mapping' = Identity(fsm)
    BY <1>1
  <2>3. nextGate' = FirstGate(fsm) + Cardinality(assigned)
    BY <2>1
  <2> QED
    BY <1>1, <2>2, <2>3 DEF Numbering, Identity
<1>7. Coverage'
  <2> SUFFICES ASSUME NEW g \in Gates(fsm)
               PROVE  \E k \in 1 .. Len(queue') : queue'[k] = g
    BY DEF Coverage
  <2>1. g + 1 \in 1 .. fsm.size /\ (g + 1) - 1 = g
    BY <1>1 DEF Gates, Kind, VarsOf
  <2> QED
    BY <1>3, <2>1
<1>8. Stuck'
  BY <1>1, <1>3 DEF Stuck
<1> QED
  BY <1>4, <1>5, <1>6, <1>7, <1>8 DEF IInv, DoneIsVerified, NamesFollow

LEMMA SkipPreservesIInv == IInv /\ Skip => IInv'
<1> SUFFICES ASSUME IInv, Skip PROVE IInv'
  OBVIOUS
<1> USE DEF Skip, Popping
<1>1. TypeOK /\ Settled /\ Numbering /\ Coverage /\ Stuck
  BY DEF IInv
<1>2. queue \in Seq(VarsOf(fsm)) /\ queue # <<>> /\ blocked \in Nat /\ pc = "walk" /\ pc' = pc
  BY <1>1 DEF TypeOK
<1>3. /\ queue' \in Seq(VarsOf(fsm))
      /\ Len(queue) \in Nat \ {0}
      /\ Head(queue) = queue[1]
      /\ Len(queue') = Len(queue) - 1
      /\ \A k \in 1 .. Len(queue') : queue'[k] = queue[k + 1]
  BY <1>2, HeadTailProperties, EmptySeq
<1>4. TypeOK' /\ Settled' /\ Numbering'
  BY <1>1, <1>3 DEF TypeOK, Settled, Numbering, Deps, Gates, Kind
<1>5. Coverage'
  <2> SUFFICES ASSUME NEW g \in Gates(fsm) \ assigned
               PROVE  \E k \in 1 .. Len(queue') : queue'[k] = g
    BY DEF Coverage
  <2>1. PICK k \in 1 .. Len(queue) : queue[k] = g
    BY <1>1 DEF Coverage
  <2>2. k # 1
    BY <1>3, <2>1 DEF Pending
  <2>3. k - 1 \in 1 .. Len(queue') /\ queue'[k - 1] = g
    BY <1>3, <2>1, <2>2
  <2> QED
    BY <2>3
<1>6. Stuck'
  <2>1. blocked <= Len(queue')
    BY <1>1, <1>2, <1>3 DEF Stuck
  <2>2. ASSUME NEW k \in 1 .. Len(queue'), k > Len(queue') - blocked
        PROVE  Pending(queue'[k]) /\ ~Ready(queue'[k])
    <3>1. k + 1 \in 1 .. Len(queue) /\ k + 1 > Len(queue) - blocked
      BY <1>2, <1>3, <2>2
    <3> QED
      BY <1>1, <1>3, <3>1 DEF Stuck
  <2> QED
    BY <1>2, <2>1, <2>2 DEF Stuck, Pending, Ready
<1> QED
  BY <1>2, <1>4, <1>5, <1>6 DEF IInv, DoneIsVerified, NamesFollow

LEMMA DeferPreservesIInv == IInv /\ Defer => IInv'
<1> SUFFICES ASSUME IInv, Defer PROVE IInv'
  OBVIOUS
<1> DEFINE L == Len(queue)
<1>1. TypeOK /\ Settled /\ Numbering /\ Coverage /\ Stuck
  BY DEF IInv, Defer, Stalled, Popping
<1>2. queue \in Seq(VarsOf(fsm)) /\ queue # <<>> /\ blocked \in Nat
  BY <1>1 DEF TypeOK, Defer, Stalled, Popping
<1>3. /\ pc = "walk" /\ queue' = Append(Tail(queue), Head(queue)) /\ blocked' = blocked + 1
      /\ pc' = IF blocked' < Len(queue') THEN "walk" ELSE "cyclic"
      /\ UNCHANGED <<fsm, assigned, mapping, nextGate, moved, given>>
      /\ Pending(Head(queue)) /\ ~Ready(Head(queue))
  BY DEF Defer, Stalled, Popping
<1>4. /\ queue' \in Seq(VarsOf(fsm))
      /\ L \in Nat \ {0}
      /\ Head(queue) = queue[1]
      /\ Len(queue') = L
      /\ \A k \in 1 .. L - 1 : queue'[k] = queue[k + 1]
      /\ queue'[L] = queue[1]
  <2>1. /\ Head(queue) \in VarsOf(fsm)
        /\ Tail(queue) \in Seq(VarsOf(fsm))
        /\ L \in Nat \ {0}
        /\ Len(Tail(queue)) = L - 1
        /\ \A k \in 1 .. L - 1 : Tail(queue)[k] = queue[k + 1]
        /\ Head(queue) = queue[1]
    BY <1>2, HeadTailProperties, EmptySeq
  <2> QED
    BY <1>3, <2>1, AppendProperties
<1>5. TypeOK' /\ Settled' /\ Numbering'
  BY <1>1, <1>2, <1>4, <1>3 DEF TypeOK, Settled, Numbering, Ended
<1>6. Coverage'
  <2> SUFFICES ASSUME NEW g \in Gates(fsm) \ assigned
               PROVE  \E k \in 1 .. L : queue'[k] = g
    BY <1>4, <1>3 DEF Coverage
  <2>1. PICK k \in 1 .. L : queue[k] = g
    BY <1>1 DEF Coverage
  <2>2. CASE k = 1
    <3>1. L \in 1 .. L /\ queue'[L] = g
      BY <1>4, <2>1, <2>2
    <3> QED
      BY <3>1
  <2>3. CASE k # 1
    <3>1. k - 1 \in 1 .. L - 1 /\ (k - 1) + 1 = k
      BY <1>4, <2>1, <2>3
    <3>2. queue'[k - 1] = g /\ k - 1 \in 1 .. L
      BY <1>4, <2>1, <3>1
    <3> QED
      BY <3>2
  <2> QED
    BY <2>2, <2>3
<1>7. Stuck'
  <2>1. ASSUME NEW k \in 1 .. L, k > L - (blocked + 1)
        PROVE  Pending(queue'[k]) /\ ~Ready(queue'[k])
    <3>1. CASE k = L
      BY <1>4, <1>3, <3>1
    <3>2. CASE k # L
      <4>1. k \in 1 .. L - 1 /\ k + 1 \in 1 .. L /\ k + 1 > L - blocked
        BY <1>2, <1>4, <2>1, <3>2
      <4> QED
        BY <1>1, <1>4, <4>1 DEF Stuck
    <3> QED
      BY <3>1, <3>2
  <2>2. queue' # <<>>
    BY <1>4, EmptySeq
  <2>3. /\ pc' = "walk" => blocked' <= Len(queue')
        /\ pc' = "cyclic" => blocked' >= Len(queue')
    BY <1>2, <1>4, <1>3
  <2> QED
    BY <1>4, <1>3, <2>1, <2>2, <2>3 DEF Stuck, Pending, Ready
<1> QED
  BY <1>5, <1>6, <1>7, <1>3 DEF IInv, DoneIsVerified, NamesFollow

LEMMA AssignPreservesIInv == IInv /\ Assign => IInv'
<1> SUFFICES ASSUME IInv, Assign PROVE IInv'
  OBVIOUS
<1> USE DEF Assign, Popping
<1> DEFINE h == Head(queue)
<1>1. TypeOK /\ Settled /\ Numbering /\ Coverage /\ Stuck
  BY DEF IInv
<1>2. /\ queue \in Seq(VarsOf(fsm)) /\ queue # <<>> /\ WellFormed(fsm)
      /\ nextGate \in Nat /\ mapping \in [VarsOf(fsm) -> Nat] /\ assigned \subseteq VarsOf(fsm)
  BY <1>1 DEF TypeOK
<1>3. /\ queue' \in Seq(VarsOf(fsm))
      /\ Len(queue) \in Nat \ {0}
      /\ h = queue[1] /\ h \in VarsOf(fsm)
      /\ Len(queue') = Len(queue) - 1
      /\ \A k \in 1 .. Len(queue') : queue'[k] = queue[k + 1]
  BY <1>2, HeadTailProperties, EmptySeq
<1>4. h \in Gates(fsm) /\ h \notin assigned /\ Deps(fsm, h) \subseteq assigned
  BY DEF Pending, Ready
<1>5. /\ mapping' \in [VarsOf(fsm) -> Nat]
      /\ mapping'[h] = nextGate
      /\ \A i \in VarsOf(fsm) : i # h => mapping'[i] = mapping[i]
  BY <1>2, <1>3
<1>6. TypeOK' /\ Settled'
  BY <1>1, <1>2, <1>3, <1>5 DEF TypeOK, Settled
<1>7. Numbering'
  <2>1. FirstGate(fsm) \in Nat
    BY <1>1, <1>2, FirstGateIsLeast DEF Numbering, VarsOf
  <2>2. /\ IsFiniteSet(assigned) /\ Cardinality(assigned) \in Nat
        /\ Cardinality(assigned') = Cardinality(assigned) + 1
    BY <1>1, <1>2, <1>4, GatesFit, FS_AddElement DEF Numbering
  <2>3. nextGate' = FirstGate(fsm) + Cardinality(assigned')
    BY <1>1, <2>1, <2>2 DEF Numbering
  <2>4. \A g \in assigned : mapping[g] \in FirstGate(fsm) .. nextGate - 1 /\ mapping'[g] = mapping[g]
    BY <1>1, <1>2, <1>4, <1>5 DEF Numbering
  <2>5. nextGate \in FirstGate(fsm) .. nextGate' - 1 /\ nextGate' = nextGate + 1
    BY <1>1, <1>2, <2>1, <2>2 DEF Numbering
  <2>6. ASSUME NEW g \in assigned'
        PROVE  /\ mapping'[g] \in FirstGate(fsm) .. nextGate' - 1
               /\ \A d \in Deps(fsm, g) : d \in assigned' /\ mapping'[d] < mapping'[g]
               /\ \A k \in assigned' : mapping'[k] = mapping'[g] => k = g
    <3>1. CASE g = h
      BY <1>2, <1>4, <1>5, <2>1, <2>4, <2>5, <3>1
    <3>2. CASE g \in assigned
      <4>1. mapping'[g] \in FirstGate(fsm) .. nextGate' - 1 /\ mapping'[g] < nextGate
        BY <1>2, <2>1, <2>4, <2>5, <3>2
      <4>2. \A d \in Deps(fsm, g) : d \in assigned /\ mapping[d] < mapping[g]
        BY <1>1, <3>2 DEF Numbering
      <4>3. \A k \in assigned : mapping[k] = mapping[g] => k = g
        BY <1>1, <3>2 DEF Numbering
      <4>4. ASSUME NEW k \in assigned', mapping'[k] = mapping'[g] PROVE k = g
        BY <1>2, <1>5, <2>4, <3>2, <4>1, <4>3, <4>4
      <4> QED
        BY <2>4, <3>2, <4>1, <4>2, <4>4
    <3> QED
      BY <3>1, <3>2
  <2> QED
    BY <1>1, <1>4, <1>5, <2>3, <2>6 DEF Numbering
<1>8. Coverage'
  <2> SUFFICES ASSUME NEW g \in Gates(fsm) \ assigned, g # h
               PROVE  \E k \in 1 .. Len(queue') : queue'[k] = g
    BY DEF Coverage
  <2>1. PICK k \in 1 .. Len(queue) : queue[k] = g
    BY <1>1 DEF Coverage
  <2>2. k - 1 \in 1 .. Len(queue') /\ queue'[k - 1] = g
    BY <1>3, <2>1
  <2> QED
    BY <2>2
<1>9. Stuck'
  BY <1>3 DEF Stuck
<1> QED
  BY <1>6, <1>7, <1>8, <1>9 DEF IInv, DoneIsVerified, NamesFollow

(****************************************************************************)
(* When the loop has numbered every gate, the mapping places each driver at *)
(* an index of its own, so the rebuild finds it there again.                *)
(****************************************************************************)
LEMMA MappingPlacesDrivers ==
  ASSUME TypeOK, Numbering, Gates(fsm) \subseteq assigned
  PROVE  /\ \A i \in VarsOf(fsm) : mapping[i] \in VarsOf(fsm)
         /\ \A g \in Gates(fsm) : FirstGate(fsm) <= mapping[g]
         /\ \A i \in Inputs(fsm) \cup Latches(fsm) : mapping[i] = i /\ i < FirstGate(fsm)
         /\ \A i, j \in Driven(fsm) : mapping[i] = mapping[j] => i = j
<1>1. /\ WellFormed(fsm) /\ mapping \in [VarsOf(fsm) -> Nat] /\ Gates(fsm) = assigned
      /\ assigned \subseteq VarsOf(fsm) /\ fsm.size \in Nat /\ FirstGate(fsm) \in Nat
  <2>1. /\ WellFormed(fsm) /\ mapping \in [VarsOf(fsm) -> Nat] /\ fsm.size \in Nat
        /\ assigned \subseteq VarsOf(fsm) /\ Gates(fsm) = assigned /\ Gates(fsm) # {}
    BY DEF TypeOK, Numbering, WellFormed
  <2>2. FirstGate(fsm) \in VarsOf(fsm)
    BY <2>1, FirstGateIsLeast
  <2> QED
    BY <2>1, <2>2 DEF VarsOf
<1>2. nextGate <= fsm.size /\ nextGate \in Nat
  BY <1>1, GatesFit DEF Numbering
<1>3. \A g \in Gates(fsm) : mapping[g] \in FirstGate(fsm) .. fsm.size - 1
  BY <1>1, <1>2 DEF Numbering
<1>4. \A i \in Inputs(fsm) \cup Latches(fsm) : i \in VarsOf(fsm) \ assigned /\ i < FirstGate(fsm)
  BY <1>1 DEF Numbering, GatesLast, Inputs, Latches, Gates, Kind
<1>5. \A i \in Inputs(fsm) \cup Latches(fsm) : mapping[i] = i
  BY <1>4 DEF Numbering
<1>6. \A i \in VarsOf(fsm) : mapping[i] \in VarsOf(fsm)
  BY <1>1, <1>3 DEF Numbering, VarsOf
<1>7. ASSUME NEW i \in Driven(fsm), NEW j \in Driven(fsm), mapping[i] = mapping[j]
      PROVE  i = j
  <2>1. /\ i \in VarsOf(fsm) /\ j \in VarsOf(fsm)
        /\ i \in Gates(fsm) \/ i \in Inputs(fsm) \cup Latches(fsm)
        /\ j \in Gates(fsm) \/ j \in Inputs(fsm) \cup Latches(fsm)
    BY <1>1, DriverShape DEF Driven
  <2>2. CASE i \in Gates(fsm) /\ j \in Gates(fsm)
    BY <1>1, <1>7, <2>2 DEF Numbering
  <2>3. CASE ~(i \in Gates(fsm) /\ j \in Gates(fsm))
    BY <1>1, <1>3, <1>4, <1>5, <1>7, <2>1, <2>3 DEF VarsOf
  <2> QED
    BY <2>2, <2>3
<1> QED
  BY <1>1, <1>3, <1>4, <1>5, <1>6, <1>7

LEMMA RebuiltDrivers ==
  ASSUME TypeOK, Numbering, Gates(fsm) \subseteq assigned
  PROVE  /\ \A i \in Driven(fsm) : Rebuilt.driver[mapping[i]] = RemapDriver(fsm.driver[i])
         /\ \A j \in VarsOf(fsm) : \/ Rebuilt.driver[j] = NoDriver
                                   \/ \E i \in Driven(fsm) : mapping[i] = j
<1>1. Rebuilt.driver = [i \in VarsOf(fsm) |-> IF Landing(i) = {} THEN NoDriver
                                              ELSE RemapDriver(fsm.driver[Origin(i)])]
  BY DEF Rebuilt
<1>2. ASSUME NEW i \in Driven(fsm)
      PROVE  Rebuilt.driver[mapping[i]] = RemapDriver(fsm.driver[i])
  <2>1. i \in VarsOf(fsm) /\ mapping[i] \in VarsOf(fsm)
    BY MappingPlacesDrivers DEF Driven
  <2>2. Landing(mapping[i]) = {i}
    BY MappingPlacesDrivers, <2>1 DEF Landing
  <2>3. Origin(mapping[i]) = i
    BY <2>2 DEF Origin
  <2> QED
    BY <1>1, <2>1, <2>2, <2>3
<1>3. ASSUME NEW j \in VarsOf(fsm), Rebuilt.driver[j] # NoDriver
      PROVE  \E i \in Driven(fsm) : mapping[i] = j
  <2>1. Landing(j) # {}
    BY <1>1, <1>3
  <2> QED
    BY <2>1 DEF Landing
<1> QED
  BY <1>2, <1>3

(* A remapped value is a value, and stays driven.                          *)
LEMMA RemapTyped ==
  ASSUME TypeOK, Numbering, Gates(fsm) \subseteq assigned, NEW v \in Values(fsm.size)
  PROVE  /\ Remap(v) \in Values(fsm.size)
         /\ Remap(v).index = IF v.index = NoVar THEN NoVar ELSE mapping[v.index]
<1>1. fsm.size \in Nat /\ VarsOf(fsm) = 0 .. fsm.size - 1
  BY DEF TypeOK, WellFormed, VarsOf
<1>2. v.sign \in BOOLEAN /\ v.index \in {NoVar} \cup VarsOf(fsm)
  BY <1>1 DEF Values
<1>3. CASE v.index = NoVar
  BY <1>3 DEF Remap
<1>4. CASE v.index # NoVar
  <2>1. mapping[v.index] \in VarsOf(fsm)
    BY <1>2, <1>4, MappingPlacesDrivers
  <2> QED
    BY <1>1, <1>2, <1>4, <2>1 DEF Remap, Lit, Values
<1> QED
  BY <1>3, <1>4

LEMMA RemapDriverTyped ==
  ASSUME TypeOK, Numbering, Gates(fsm) \subseteq assigned, NEW i \in VarsOf(fsm)
  PROVE  /\ RemapDriver(fsm.driver[i]) \in Drivers(fsm.size)
         /\ RemapDriver(fsm.driver[i]).kind = fsm.driver[i].kind
         /\ i \in Gates(fsm) =>
              /\ GateInputs(RemapDriver(fsm.driver[i])) =
                   {Remap(fsm.driver[i].a), Remap(fsm.driver[i].b)}
              /\ Precedes(RemapDriver(fsm.driver[i]).a, RemapDriver(fsm.driver[i]).b)
         /\ i \in Latches(fsm) =>
              RemapDriver(fsm.driver[i]).input = Remap(fsm.driver[i].input)
<1> DEFINE d == fsm.driver[i]
<1>1. /\ WellFormed(fsm) /\ fsm.size \in Nat /\ d \in Drivers(fsm.size)
  BY DriverShape DEF TypeOK
<1>2. CASE i \in Gates(fsm)
  <2>1. d \in GateDrivers(fsm.size) /\ d.kind = "gate"
    BY <1>1, <1>2, DriverShape DEF Gates, Kind
  <2>2. /\ Remap(d.a) \in Values(fsm.size) /\ Remap(d.b) \in Values(fsm.size)
        /\ d.sign \in BOOLEAN /\ d.type \in {"And", "Or"}
    BY <2>1, RemapTyped DEF GateDrivers
  <2>3. RemapDriver(d) = GateDriver(d.sign, d.type, Remap(d.a), Remap(d.b))
    BY <2>1 DEF RemapDriver
  <2>4. RemapDriver(d) \in GateDrivers(fsm.size)
    BY <1>1, <2>2, <2>3, GateDriverSorts
  <2>5. RemapDriver(d).kind = "gate" /\ RemapDriver(d) \in Drivers(fsm.size)
    BY <2>4 DEF GateDrivers, Drivers
  <2> QED
    BY <1>1, <1>2, <2>1, <2>2, <2>3, <2>5, GateDriverSorts DEF Gates, Latches, Kind
<1>3. CASE i \in Latches(fsm)
  <2>1. d \in LatchDrivers(fsm.size) /\ d.kind = "latch"
    BY <1>1, <1>3, DriverShape DEF Latches, Kind
  <2>2. Remap(d.input) \in Values(fsm.size)
    BY <2>1, RemapTyped DEF LatchDrivers
  <2>3. RemapDriver(d) = [d EXCEPT !.input = Remap(d.input)]
    BY <2>1 DEF RemapDriver
  <2> QED
    BY <1>1, <1>3, <2>1, <2>2, <2>3 DEF LatchDrivers, Drivers, Gates, Latches, Kind
<1>4. CASE i \notin Gates(fsm) /\ i \notin Latches(fsm)
  BY <1>1, <1>4 DEF RemapDriver, Gates, Latches, Kind
<1> QED
  BY <1>2, <1>3, <1>4

(* The rebuilt machine is well formed and passes verify.                   *)
LEMMA RebuiltWellFormed ==
  ASSUME TypeOK, Numbering, Gates(fsm) \subseteq assigned
  PROVE  WellFormed(Rebuilt) /\ Rebuilt.size = fsm.size
<1>1. fsm.size \in Nat /\ fsm \in Machine(fsm.size) /\ VarsOf(fsm) = 0 .. fsm.size - 1
  BY DEF TypeOK, WellFormed, VarsOf
<1>2. Rebuilt.driver \in [VarsOf(fsm) -> Drivers(fsm.size)]
  <2>1. \A o \in VarsOf(fsm) : RemapDriver(fsm.driver[o]) \in Drivers(fsm.size)
    BY RemapDriverTyped
  <2>2. \A i \in VarsOf(fsm) : Landing(i) # {} => Origin(i) \in VarsOf(fsm)
    BY DEF Landing, Origin, Driven
  <2>3. NoDriver \in Drivers(fsm.size)
    BY DEF Drivers
  <2> QED
    BY <2>1, <2>2, <2>3 DEF Rebuilt
<1>3. Rebuilt.label \in [VarsOf(fsm) -> Nat]
  <2>1. \A o \in VarsOf(fsm) : fsm.label[o] \in Nat
    BY <1>1 DEF Machine
  <2>2. \A i \in VarsOf(fsm) : Landing(i) # {} => Origin(i) \in VarsOf(fsm)
    BY DEF Landing, Origin, Driven
  <2> QED
    BY <2>1, <2>2 DEF Rebuilt, NoLabel
<1>4. Rebuilt.refs \in [Lists -> Seq(Values(fsm.size))]
  <2>1. ASSUME NEW list \in Lists
        PROVE  [k \in DOMAIN fsm.refs[list] |-> Remap(fsm.refs[list][k])] \in Seq(Values(fsm.size))
    <3>1. fsm.refs[list] \in Seq(Values(fsm.size))
      BY <1>1 DEF Machine
    <3>2. /\ Len(fsm.refs[list]) \in Nat
          /\ DOMAIN fsm.refs[list] = 1 .. Len(fsm.refs[list])
          /\ \A k \in 1 .. Len(fsm.refs[list]) : fsm.refs[list][k] \in Values(fsm.size)
      BY <3>1, LenProperties
    <3>3. \A k \in 1 .. Len(fsm.refs[list]) : Remap(fsm.refs[list][k]) \in Values(fsm.size)
      BY <3>2, RemapTyped
    <3> QED
      BY <3>2, <3>3
  <2> QED
    BY <2>1 DEF Rebuilt
<1> QED
  BY <1>1, <1>2, <1>3, <1>4 DEF WellFormed, Machine, Rebuilt

LEMMA RebuiltVerifies ==
  ASSUME TypeOK, Numbering, Gates(fsm) \subseteq assigned, FullyDriven(fsm)
  PROVE  Verify(Rebuilt)
<1> DEFINE n == fsm.size
           R == Rebuilt
<1>1. /\ WellFormed(fsm) /\ n \in Nat /\ WellFormed(R) /\ R.size = n
      /\ VarsOf(R) = VarsOf(fsm) /\ VarsOf(fsm) \subseteq Nat
  BY RebuiltWellFormed DEF TypeOK, WellFormed, VarsOf
<1>2. \A v \in Values(n) : IsDriven(fsm, v) => IsDriven(R, Remap(v))
  <2> SUFFICES ASSUME NEW v \in Values(n), v.index \in Driven(fsm), v.index # NoVar
               PROVE  mapping[v.index] \in Driven(R)
    BY RemapTyped DEF IsDriven
  <2>1. v.index \in VarsOf(fsm) /\ fsm.driver[v.index].kind # "none"
    BY DEF Driven, Kind
  <2>2. R.driver[mapping[v.index]] = RemapDriver(fsm.driver[v.index])
    BY RebuiltDrivers
  <2>3. RemapDriver(fsm.driver[v.index]).kind = fsm.driver[v.index].kind
    BY <2>1, RemapDriverTyped
  <2>4. mapping[v.index] \in VarsOf(fsm)
    BY <2>1, MappingPlacesDrivers
  <2> QED
    BY <1>1, <2>1, <2>2, <2>3, <2>4 DEF Driven, Kind
(* Where each driver of the result comes from.                             *)
<1>3. ASSUME NEW j \in VarsOf(R), R.driver[j].kind # "none"
      PROVE  \E i \in Driven(fsm) :
               /\ i \in VarsOf(fsm) /\ mapping[i] = j
               /\ R.driver[j] = RemapDriver(fsm.driver[i])
               /\ fsm.driver[i].kind = R.driver[j].kind
  <2>1. R.driver[j] # NoDriver
    BY <1>3 DEF NoDriver
  <2>2. PICK i \in Driven(fsm) : mapping[i] = j
    BY <1>1, <2>1, RebuiltDrivers
  <2>3. i \in VarsOf(fsm) /\ R.driver[j] = RemapDriver(fsm.driver[i])
    BY <2>2, RebuiltDrivers DEF Driven
  <2>4. fsm.driver[i].kind = R.driver[j].kind
    BY <2>3, RemapDriverTyped
  <2> QED
    BY <2>2, <2>3, <2>4
<1>4. ASSUME NEW j \in Gates(R)
      PROVE  /\ \A v \in GateInputs(R.driver[j]) : IsDriven(R, v) /\ v.index < j
             /\ Precedes(R.driver[j].a, R.driver[j].b)
  <2>1. j \in VarsOf(R) /\ R.driver[j].kind = "gate"
    BY DEF Gates, Kind
  <2>2. PICK g \in VarsOf(fsm) : /\ mapping[g] = j /\ fsm.driver[g].kind = "gate"
                                 /\ R.driver[j] = RemapDriver(fsm.driver[g])
    BY <1>3, <2>1
  <2> DEFINE d == fsm.driver[g]
  <2>3. g \in Gates(fsm) /\ g \in assigned /\ d \in GateDrivers(n)
    BY <1>1, <2>2, DriverShape DEF Gates, Kind
  <2>4. /\ GateInputs(R.driver[j]) = {Remap(d.a), Remap(d.b)}
        /\ Precedes(R.driver[j].a, R.driver[j].b)
    BY <2>2, <2>3, RemapDriverTyped
  <2>5. ASSUME NEW v \in GateInputs(d)
        PROVE  IsDriven(R, Remap(v)) /\ Remap(v).index < j
    <3>1. v \in Values(n) /\ IsDriven(fsm, v)
      BY <2>3 DEF GateInputs, GateDrivers, FullyDriven
    <3>2. IsDriven(R, Remap(v))
      BY <1>2, <3>1
    <3>3. j \in Nat
      BY <1>1, <2>1
    <3>4. CASE v.index = NoVar
      BY <3>1, <3>2, <3>3, <3>4, RemapTyped DEF NoVar
    <3>5. CASE v.index \in Gates(fsm)
      <4>1. v.index \in Deps(fsm, g)
        BY <3>5 DEF Deps
      <4>2. mapping[v.index] < mapping[g]
        BY <2>3, <4>1 DEF Numbering
      <4>3. v.index # NoVar
        BY <1>1, <3>5 DEF Gates, Kind, NoVar
      <4> QED
        BY <2>2, <3>1, <3>2, <4>2, <4>3, RemapTyped
    <3>6. CASE v.index \in Inputs(fsm) \cup Latches(fsm)
      <4>1. mapping[v.index] = v.index /\ v.index < FirstGate(fsm) /\ FirstGate(fsm) <= mapping[g]
        BY <2>3, <3>6, MappingPlacesDrivers
      <4>2. v.index \in Nat /\ FirstGate(fsm) \in Nat /\ v.index # NoVar
        <5>1. v.index \in Nat
          BY <1>1, <3>6 DEF Inputs, Latches, Kind
        <5>2. FirstGate(fsm) \in VarsOf(fsm)
          BY <1>1, <2>3, FirstGateIsLeast
        <5> QED
          BY <1>1, <5>1, <5>2 DEF NoVar
      <4> QED
        BY <2>2, <3>1, <3>2, <3>3, <4>1, <4>2, RemapTyped
    <3> QED
      BY <1>1, <3>1, <3>4, <3>5, <3>6, DriverShape DEF IsDriven, Driven
  <2> QED
    BY <2>4, <2>5 DEF GateInputs
<1>5. ASSUME NEW j \in Latches(R) PROVE IsDriven(R, R.driver[j].input)
  <2>1. j \in VarsOf(R) /\ R.driver[j].kind = "latch"
    BY DEF Latches, Kind
  <2>2. PICK l \in VarsOf(fsm) : /\ fsm.driver[l].kind = "latch"
                                 /\ R.driver[j] = RemapDriver(fsm.driver[l])
    BY <1>3, <2>1
  <2>3. l \in Latches(fsm) /\ fsm.driver[l] \in LatchDrivers(n)
    BY <1>1, <2>2, DriverShape DEF Latches, Kind
  <2>4. fsm.driver[l].input \in Values(n) /\ IsDriven(fsm, fsm.driver[l].input)
    BY <2>3 DEF LatchDrivers, FullyDriven
  <2>5. R.driver[j].input = Remap(fsm.driver[l].input)
    BY <2>2, <2>3, RemapDriverTyped
  <2> QED
    BY <1>2, <2>4, <2>5
<1>6. ASSUME NEW list \in Lists, NEW k \in DOMAIN R.refs[list]
      PROVE  IsDriven(R, R.refs[list][k])
  <2>1. /\ k \in DOMAIN fsm.refs[list]
        /\ R.refs[list][k] = Remap(fsm.refs[list][k])
    BY DEF Rebuilt
  <2>2. fsm.refs[list] \in Seq(Values(n))
    BY <1>1 DEF WellFormed, Machine
  <2>3. fsm.refs[list][k] \in Values(n)
    BY <2>1, <2>2, LenProperties
  <2>4. IsDriven(fsm, fsm.refs[list][k])
    BY <2>1 DEF FullyDriven
  <2> QED
    BY <1>2, <2>1, <2>3, <2>4
<1> HIDE DEF R
<1> QED
  BY <1>4, <1>5, <1>6 DEF Verify, FullyDriven, OrderedGates, R

(* Each driver keeps its label, and the caller's table leads to both.      *)
LEMMA RebuiltNames ==
  ASSUME TypeOK, Numbering, Gates(fsm) \subseteq assigned, moved = Identity(fsm),
         NEW i \in Driven(fsm)
  PROVE  /\ OnRemap[i] = mapping[i]
         /\ Rebuilt.label[mapping[i]] = fsm.label[i]
         /\ Rebuilt.driver[mapping[i]].kind = fsm.driver[i].kind
<1>1. i \in VarsOf(fsm) /\ mapping[i] \in VarsOf(fsm) /\ WellFormed(fsm)
  BY MappingPlacesDrivers DEF Driven, TypeOK
<1>2. OnRemap[i] = mapping[i]
  <2>1. i \in Gates(fsm) \/ i \in Inputs(fsm) \cup Latches(fsm)
    BY <1>1, DriverShape
  <2> QED
    BY <1>1, <2>1, MappingPlacesDrivers DEF OnRemap, Identity
<1>3. Landing(mapping[i]) = {i}
  BY <1>1, MappingPlacesDrivers DEF Landing
<1>4. Origin(mapping[i]) = i
  BY <1>3 DEF Origin
<1>5. Rebuilt.label = [j \in VarsOf(fsm) |-> IF Landing(j) = {} THEN NoLabel
                                             ELSE fsm.label[Origin(j)]]
  BY DEF Rebuilt
<1>6. Rebuilt.label[mapping[i]] = fsm.label[i]
  BY <1>1, <1>3, <1>4, <1>5
<1>7. Rebuilt.driver[mapping[i]].kind = fsm.driver[i].kind
  BY <1>1, RebuiltDrivers, RemapDriverTyped
<1> QED
  BY <1>2, <1>6, <1>7

LEMMA RebuildPreservesIInv == IInv /\ Rebuild => IInv'
<1> SUFFICES ASSUME IInv, Rebuild PROVE IInv'
  OBVIOUS
<1>1. /\ TypeOK /\ Settled /\ Numbering /\ Coverage /\ pc = "walk" /\ queue = <<>>
      /\ pc' = "done" /\ fsm' = Rebuilt /\ moved' = OnRemap
      /\ UNCHANGED <<walkVars, given>>
  BY DEF IInv, Rebuild
<1>2. fsm = given /\ moved = Identity(fsm) /\ WellFormed(fsm) /\ FullyDriven(fsm)
  BY <1>1 DEF Settled, TypeOK
<1>3. Gates(fsm) \subseteq assigned
  <2>1. Len(queue) = 0
    BY <1>1, EmptySeq
  <2> QED
    BY <1>1, <2>1 DEF Coverage
<1>4. WellFormed(Rebuilt) /\ Rebuilt.size = fsm.size /\ VarsOf(Rebuilt) = VarsOf(fsm)
  BY <1>1, <1>3, RebuiltWellFormed DEF VarsOf
<1>5. Verify(Rebuilt)
  BY <1>1, <1>2, <1>3, RebuiltVerifies
<1>6. OnRemap \in [VarsOf(fsm) -> Nat]
  BY <1>1 DEF OnRemap, TypeOK
<1>7. TypeOK'
  BY <1>1, <1>4, <1>6 DEF TypeOK, walkVars, Ended
<1>8. Settled'
  BY <1>1, <1>2 DEF Settled
<1>9. NamesFollow'
  BY <1>1, <1>2, <1>3, RebuiltNames DEF NamesFollow
<1> QED
  BY <1>1, <1>5, <1>7, <1>8, <1>9 DEF IInv, DoneIsVerified

(* The steps that only end the call.                                       *)
LEMMA EndingPreservesIInv ==
  IInv /\ (NothingToReorder \/ RejectLayout \/ UNCHANGED vars) => IInv'
<1> SUFFICES ASSUME IInv, NothingToReorder \/ RejectLayout \/ UNCHANGED vars PROVE IInv'
  OBVIOUS
<1>1. CASE NothingToReorder
  <2>1. /\ pc = "call" /\ pc' = "done" /\ Gates(fsm) = {} /\ TypeOK /\ Settled
        /\ UNCHANGED <<fsm, walkVars, moved, given>>
    BY <1>1 DEF IInv, NothingToReorder
  <2>2. fsm = given /\ moved = Identity(fsm) /\ Verify(fsm)
    BY <2>1 DEF Settled, Verify, OrderedGates
  <2>3. NamesFollow'
    BY <2>1, <2>2 DEF NamesFollow, Identity, Driven
  <2>4. TypeOK'
    BY <2>1 DEF TypeOK, walkVars, Ended
  <2>5. Settled'
    BY <2>1, <2>2 DEF Settled, walkVars
  <2> QED
    BY <2>1, <2>2, <2>3, <2>4, <2>5 DEF IInv, DoneIsVerified
<1>2. CASE RejectLayout
  BY <1>2 DEF RejectLayout, IInv, TypeOK, Settled, DoneIsVerified, NamesFollow, walkVars, Ended
<1>3. CASE UNCHANGED vars
  BY <1>3 DEF vars, walkVars, IInv, TypeOK, Settled, Numbering, Coverage, Stuck, Pending, Ready,
              DoneIsVerified, NamesFollow
<1> QED
  BY <1>1, <1>2, <1>3

--------------------------------------------------------------------------------
(* The numbering of the invariant fits the vector and is topological.      *)
LEMMA NumberingFits == IInv => Topological
<1> SUFFICES ASSUME IInv, pc = "walk", NEW g \in assigned
             PROVE  /\ mapping[g] \in FirstGate(fsm) .. fsm.size - 1
                    /\ \A d \in Deps(fsm, g) : d \in assigned /\ mapping[d] < mapping[g]
                    /\ \A h \in assigned : mapping[h] = mapping[g] => h = g
                    /\ \A i \in Inputs(fsm) \cup Latches(fsm) : i < mapping[g]
  BY DEF Topological
<1>1. Numbering /\ WellFormed(fsm) /\ fsm.size \in Nat
  BY DEF IInv, TypeOK, WellFormed
<1>2. FirstGate(fsm) \in VarsOf(fsm) /\ FirstGate(fsm) \in Nat
  BY <1>1, FirstGateIsLeast DEF Numbering, VarsOf
<1>3. nextGate <= fsm.size /\ nextGate \in Nat
  BY <1>1, <1>2, GatesFit DEF Numbering
<1>4. mapping[g] \in FirstGate(fsm) .. nextGate - 1
  BY <1>1 DEF Numbering
<1>5. \A i \in Inputs(fsm) \cup Latches(fsm) : i < FirstGate(fsm) /\ i \in Nat
  BY <1>1 DEF Numbering, GatesLast, Inputs, Latches, Kind, VarsOf
<1> QED
  BY <1>1, <1>2, <1>3, <1>4, <1>5 DEF Numbering

(* When the loop gives up, the gates it has not numbered read each other.  *)
LEMMA StuckGatesCycle == IInv => CycleAlarmJustified
<1> SUFFICES ASSUME IInv, pc = "cyclic" PROVE Cyclic(given)
  BY DEF CycleAlarmJustified
<1> DEFINE Part == Gates(fsm) \ assigned
<1>1. /\ fsm = given /\ Coverage /\ Stuck /\ queue \in Seq(VarsOf(fsm))
      /\ blocked \in Nat /\ queue # <<>> /\ blocked >= Len(queue)
  BY DEF IInv, TypeOK, Settled, Stuck
<1>2. Len(queue) \in Nat \ {0}
  BY <1>1, EmptySeq
<1>3. \A k \in 1 .. Len(queue) : Pending(queue[k]) /\ ~Ready(queue[k])
  BY <1>1, <1>2 DEF Stuck
<1>4. Part # {}
  BY <1>2, <1>3 DEF Pending
<1>5. ASSUME NEW g \in Part PROVE Deps(fsm, g) \cap Part # {}
  <2>1. ~Ready(g)
    BY <1>1, <1>3 DEF Coverage
  <2> QED
    BY <2>1 DEF Ready, Deps
<1> QED
  BY <1>1, <1>4, <1>5 DEF Cyclic

--------------------------------------------------------------------------------
(* The invariant holds throughout every call.                              *)
THEOREM Invariance == Spec => []IInv
<1>1. Init => IInv
  BY InitEstablishesIInv
<1>2. IInv /\ [Next]_vars => IInv'
  BY SeedPreservesIInv, SkipPreservesIInv, DeferPreservesIInv, AssignPreservesIInv,
     RebuildPreservesIInv, EndingPreservesIInv DEF Next, Step, Terminated
<1> QED
  BY <1>1, <1>2, PTL DEF Spec

(* Every variable of the call keeps its type: in particular no index        *)
(* written to the mapping or to the rebuilt vector is out of bounds.        *)
THEOREM TypeCorrect == Spec => []TypeOK
<1>1. IInv => TypeOK
  BY DEF IInv
<1> QED
  BY <1>1, Invariance, PTL

(* For every FSM, the numbering the loop builds is one-to-one, fits the     *)
(* vector and is topological at every iteration.                            *)
THEOREM NumberingIsTopological == Spec => []Topological
BY NumberingFits, Invariance, PTL

(* The panic for cyclic gates is never a false alarm, whatever the order    *)
(* of the gates and wherever the vector has holes.                          *)
THEOREM CyclePanicMeansCycle == Spec => []CycleAlarmJustified
BY StuckGatesCycle, Invariance, PTL

(* When reorder_gates returns, FSM::verify with ordering passes.           *)
THEOREM ReorderedVerifies == Spec => []DoneIsVerified
<1>1. IInv => DoneIsVerified
  BY DEF IInv
<1> QED
  BY <1>1, Invariance, PTL

(* Labels and the table written by on_remap name the same variables after   *)
(* the call as before it.                                                   *)
THEOREM NamesFollowGates == Spec => []NamesFollow
<1>1. IInv => NamesFollow
  BY DEF IInv
<1> QED
  BY <1>1, Invariance, PTL

--------------------------------------------------------------------------------
(****************************************************************************)
(* Already-valid prefixes: what the walk does to the indices below the      *)
(* first hole and the first gate that reads forward.                        *)
(*                                                                          *)
(* The queue still holds the indices from n on in their order, so nothing   *)
(* has been deferred, and the gates numbered are those before n.            *)
(****************************************************************************)
UpTo(n) ==
  /\ Len(queue) = fsm.size - n
  /\ \A j \in 1 .. Len(queue) : queue[j] = n + j - 1
  /\ \A g \in Gates(fsm) : g \in assigned <=> g < n
  /\ nextGate = IF n < FirstGate(fsm) THEN FirstGate(fsm) ELSE n

(* While the walk is in the valid prefix it goes straight through it; when  *)
(* it has left, it has numbered the prefix, and does so once.               *)
PrefixWalked(k) ==
  /\ \A g \in Gates(fsm) : g < k => mapping[g] = g
  /\ \/ \A g \in Gates(fsm) : g < k => g \in assigned
     \/ \E n \in 0 .. k - 1 : UpTo(n)

PInv ==
  /\ pc = "walk" => \A k \in 0 .. fsm.size : ValidUpTo(fsm, k) => PrefixWalked(k)
  /\ ValidPrefixKept

--------------------------------------------------------------------------------
(* What an index of a valid prefix is: an input or a latch before the first *)
(* gate, or a gate that reads gates before it only.                         *)
LEMMA PrefixIndex ==
  ASSUME NEW m, WellFormed(m), Gates(m) # {}, GatesLast(m),
         NEW k \in 0 .. m.size, ValidUpTo(m, k), NEW n \in 0 .. k - 1
  PROVE  /\ n \in VarsOf(m) /\ FirstGate(m) \in Nat
         /\ n \notin Gates(m) => n < FirstGate(m)
         /\ n \in Gates(m) => /\ FirstGate(m) <= n
                              /\ \A d \in Deps(m, n) : d < n
<1>1. n \in VarsOf(m) /\ n \in Driven(m) /\ m.size \in Nat
  BY DEF ValidUpTo, VarsOf, WellFormed
<1>2. FirstGate(m) \in Nat /\ \A h \in Gates(m) : FirstGate(m) <= h
  BY FirstGateIsLeast DEF VarsOf
<1>3. n \notin Gates(m) => n < FirstGate(m)
  BY <1>1, DriverShape DEF GatesLast
<1>4. n \in Gates(m) => \A d \in Deps(m, n) : d < n
  BY DEF ValidUpTo, Deps
<1> QED
  BY <1>1, <1>2, <1>3, <1>4

LEMMA SeedKeepsPrefix == IInv /\ PInv /\ Seed => PInv'
<1> SUFFICES ASSUME IInv, PInv, Seed PROVE PInv'
  OBVIOUS
<1>1. /\ WellFormed(fsm) /\ fsm.size \in Nat /\ Gates(fsm) # {} /\ fsm' = fsm
      /\ assigned' = {} /\ mapping' = Identity(fsm) /\ pc' = "walk"
      /\ queue' = [j \in 1 .. fsm.size |-> j - 1] /\ nextGate' = FirstGate(fsm)
  BY DEF IInv, TypeOK, Settled, WellFormed, Seed, Worklist
<1>2. FirstGate(fsm) \in Nat /\ Gates(fsm) \subseteq VarsOf(fsm)
  BY <1>1, FirstGateIsLeast DEF VarsOf, Gates, Kind
<1>3. Len(queue') = fsm.size
  BY <1>1
<1>4. UpTo(0)'
  BY <1>1, <1>2, <1>3 DEF UpTo, VarsOf
<1>5. ASSUME NEW k \in 0 .. fsm.size PROVE PrefixWalked(k)'
  <2>1. \A g \in Gates(fsm) : mapping'[g] = g
    BY <1>1, <1>2 DEF Identity
  <2>2. CASE k = 0
    BY <1>1, <1>2, <2>1, <2>2 DEF PrefixWalked, VarsOf
  <2>3. CASE k # 0
    <3>1. 0 \in 0 .. k - 1
      BY <2>3
    <3> QED
      BY <1>1, <1>4, <2>1, <3>1 DEF PrefixWalked
  <2> QED
    BY <2>2, <2>3
<1> QED
  BY <1>1, <1>5 DEF PInv, ValidPrefixKept

(* One index of the queue is done with and the walk goes on to the next.    *)
LEMMA WalkKeepsPrefix == IInv /\ PInv /\ (Skip \/ Defer \/ Assign) => PInv'
<1> SUFFICES ASSUME IInv, PInv, Skip \/ Defer \/ Assign, pc' = "walk",
                    NEW k \in 0 .. fsm.size, ValidUpTo(fsm, k)
             PROVE  PrefixWalked(k)'
  BY DEF PInv, ValidPrefixKept, Skip, Defer, Assign, Stalled
<1> DEFINE h == Head(queue)
<1>1. /\ pc = "walk" /\ queue # <<>> /\ fsm' = fsm /\ TypeOK /\ Numbering
      /\ PrefixWalked(k)
  BY DEF Skip, Defer, Assign, Popping, PInv, IInv
<1>2. /\ WellFormed(fsm) /\ fsm.size \in Nat /\ Gates(fsm) # {} /\ GatesLast(fsm)
      /\ Gates(fsm) \subseteq VarsOf(fsm) /\ assigned \subseteq Gates(fsm)
      /\ queue \in Seq(VarsOf(fsm)) /\ mapping \in [VarsOf(fsm) -> Nat]
      /\ FirstGate(fsm) \in Nat
  <2>1. WellFormed(fsm) /\ Gates(fsm) # {}
    BY <1>1 DEF TypeOK, Numbering
  <2>2. FirstGate(fsm) \in Nat
    BY <2>1, FirstGateIsLeast DEF VarsOf
  <2>3. Gates(fsm) \subseteq VarsOf(fsm) /\ fsm.size \in Nat
    BY <2>1 DEF Gates, Kind, WellFormed
  <2> QED
    BY <1>1, <2>1, <2>2, <2>3 DEF TypeOK, Numbering
<1>3. /\ Len(queue) \in Nat \ {0} /\ h = queue[1] /\ h \in VarsOf(fsm)
      /\ Len(Tail(queue)) = Len(queue) - 1
      /\ \A j \in 1 .. Len(Tail(queue)) : Tail(queue)[j] = queue[j + 1]
  BY <1>1, <1>2, HeadTailProperties, EmptySeq
<1>4. CASE \A g \in Gates(fsm) : g < k => g \in assigned
  <2>1. assigned \subseteq assigned'
    BY DEF Skip, Defer, Assign
  <2>2. \A g \in Gates(fsm) : g < k => mapping'[g] = mapping[g]
    <3>1. CASE Assign
      BY <1>2, <1>4, <3>1 DEF Assign, Pending
    <3>2. CASE Skip \/ Defer
      BY <3>2 DEF Skip, Defer
    <3> QED
      BY <3>1, <3>2
  <2> QED
    BY <1>1, <1>4, <2>1, <2>2 DEF PrefixWalked
<1>5. CASE \E n \in 0 .. k - 1 : UpTo(n)
  <2>1. PICK n \in 0 .. k - 1 : UpTo(n)
    BY <1>5
  <2>2. h = n /\ Len(queue) = fsm.size - n
    BY <1>3, <2>1 DEF UpTo
  <2>3. /\ n \notin Gates(fsm) => n < FirstGate(fsm)
        /\ n \in Gates(fsm) => FirstGate(fsm) <= n /\ \A d \in Deps(fsm, n) : d < n
    BY <1>2, <2>1, PrefixIndex
  <2>4. ~Defer
    <3> SUFFICES ASSUME Defer PROVE FALSE
      OBVIOUS
    <3>1. n \in Gates(fsm) /\ ~Ready(n)
      BY <2>2 DEF Defer, Pending
    <3> QED
      BY <2>1, <2>3, <3>1 DEF Ready, Deps, UpTo
  <2>5. queue' = Tail(queue)
    BY <2>4 DEF Skip, Assign
  <2>6. \A g \in Gates(fsm) : (g < k => mapping'[g] = g) /\ (g \in assigned' <=> g < n + 1)
    <3>1. CASE Skip
      <4>1. n \notin Gates(fsm) /\ assigned' = assigned /\ mapping' = mapping
        BY <2>1, <2>2, <3>1 DEF Skip, Pending, UpTo
      <4> QED
        BY <1>1, <1>2, <2>1, <4>1 DEF PrefixWalked, UpTo, VarsOf
    <3>2. CASE Assign
      <4>1. /\ n \in Gates(fsm) /\ assigned' = assigned \cup {n}
            /\ mapping' = [mapping EXCEPT ![n] = nextGate]
        BY <2>2, <3>2 DEF Assign, Pending
      <4>2. nextGate = n
        BY <1>2, <2>1, <2>3, <4>1 DEF UpTo
      <4> QED
        BY <1>1, <1>2, <2>1, <4>1, <4>2, SMTT(20) DEF PrefixWalked, UpTo, VarsOf
    <3> QED
      BY <2>4, <3>1, <3>2
  <2>7. CASE n + 1 = k
    BY <1>1, <2>6, <2>7 DEF PrefixWalked
  <2>8. CASE n + 1 # k
    <3>1. nextGate' = IF n + 1 < FirstGate(fsm) THEN FirstGate(fsm) ELSE n + 1
      <4>1. CASE Skip
        <5>1. n \notin Gates(fsm) /\ nextGate' = nextGate
          BY <2>1, <2>2, <4>1 DEF Skip, Pending, UpTo
        <5> QED
          BY <1>2, <2>1, <2>3, <5>1 DEF UpTo
      <4>2. CASE Assign
        <5>1. n \in Gates(fsm) /\ nextGate' = nextGate + 1
          BY <2>2, <4>2 DEF Assign, Pending
        <5> QED
          BY <1>2, <2>1, <2>3, <5>1 DEF UpTo
      <4> QED
        BY <2>4, <4>1, <4>2
    <3>2. n + 1 \in 0 .. k - 1
      BY <2>8
    <3>3. /\ Len(queue') = fsm.size - (n + 1)
          /\ \A j \in 1 .. Len(queue') : queue'[j] = (n + 1) + j - 1
      <4>1. Len(queue') = Len(queue) - 1 /\ Len(queue') \in Nat
        BY <1>3, <2>5
      <4>2. ASSUME NEW j \in 1 .. Len(queue') PROVE queue'[j] = (n + 1) + j - 1
        <5>1. j + 1 \in 1 .. Len(queue) /\ queue'[j] = queue[j + 1]
          BY <1>3, <2>5, <4>1, <4>2
        <5>2. queue[j + 1] = n + (j + 1) - 1
          BY <2>1, <5>1 DEF UpTo
        <5> QED
          BY <2>1, <5>1, <5>2
      <4>3. Len(queue') = fsm.size - (n + 1)
        BY <1>2, <2>1, <2>2, <4>1, SMTT(60)
      <4> QED
        BY <4>2, <4>3
    <3>4. UpTo(n + 1)'
      BY <1>1, <2>6, <3>1, <3>3 DEF UpTo
    <3> QED
      BY <1>1, <2>6, <3>2, <3>4 DEF PrefixWalked
  <2> QED
    BY <2>7, <2>8
<1> QED
  BY <1>1, <1>4, <1>5 DEF PrefixWalked

--------------------------------------------------------------------------------
(* When the queue is empty, the prefix has been numbered with its own       *)
(* indices, so its drivers are rebuilt where they were, inputs included.    *)
LEMMA RebuildKeepsPrefix == IInv /\ PInv /\ Rebuild => PInv'
<1> SUFFICES ASSUME IInv, PInv, Rebuild,
                    NEW k \in 0 .. given.size, ValidUpTo(given, k), NEW i \in 0 .. k - 1
             PROVE  OnRemap[i] = i /\ (i \in Gates(given) => Rebuilt.driver[i] = given.driver[i])
  BY DEF PInv, ValidPrefixKept, Rebuild
<1>1. /\ TypeOK /\ Settled /\ Numbering /\ Coverage /\ pc = "walk" /\ queue = <<>>
      /\ fsm = given /\ moved = Identity(fsm) /\ FullyDriven(fsm) /\ WellFormed(fsm)
  BY DEF IInv, Rebuild, Settled, TypeOK
<1>2. Len(queue) = 0 /\ Gates(fsm) \subseteq assigned /\ fsm.size \in Nat
  <2>1. Len(queue) = 0
    BY <1>1, EmptySeq
  <2> QED
    BY <1>1, <2>1 DEF Coverage, WellFormed
<1>3. \A g \in Gates(fsm) : g < k => mapping[g] = g
  BY <1>1 DEF PInv, PrefixWalked
<1>4. i \in VarsOf(fsm) /\ i \in Driven(fsm)
  BY <1>1, <1>2 DEF ValidUpTo, VarsOf
<1>5. \A j \in VarsOf(fsm) : j < k => mapping[j] = j
  BY <1>1, <1>3 DEF Numbering
<1>6. OnRemap[i] = i
  BY <1>1, <1>4, <1>5 DEF OnRemap, Identity, VarsOf
<1>7. ASSUME i \in Gates(fsm) PROVE Rebuilt.driver[i] = fsm.driver[i]
  <2> DEFINE d == fsm.driver[i]
  <2>1. d \in GateDrivers(fsm.size) /\ Precedes(d.a, d.b)
    BY <1>1, <1>4, <1>7, DriverShape DEF FullyDriven
  <2>2. \A v \in GateInputs(d) : v \in Values(fsm.size) /\ v.index < i
    BY <1>1, <1>7, <2>1 DEF ValidUpTo, GateInputs, GateDrivers
  <2>3. ASSUME NEW v \in GateInputs(d) PROVE Remap(v) = v
    <3>1. v \in Values(fsm.size) /\ v.index < i
      BY <2>2
    <3>2. CASE v.index = NoVar
      BY <3>2 DEF Remap
    <3>3. CASE v.index # NoVar
      <4>1. v.index \in VarsOf(fsm) /\ v.index < k
        BY <1>2, <1>4, <3>1, <3>3 DEF Values, VarsOf
      <4>2. Remap(v) = Lit(v.index, v.sign)
        BY <1>5, <3>3, <4>1 DEF Remap
      <4> QED
        BY <3>1, <4>2 DEF Lit, Values
    <3> QED
      BY <3>2, <3>3
  <2>4. Remap(d.a) = d.a /\ Remap(d.b) = d.b
    BY <2>3 DEF GateInputs
  <2>5. RemapDriver(d) = GateDriver(d.sign, d.type, d.a, d.b)
    <3>1. d.kind = "gate"
      BY <2>1 DEF GateDrivers
    <3> QED
      BY <2>4, <3>1 DEF RemapDriver
  <2>6. GateDriver(d.sign, d.type, d.a, d.b) = d
    <3>1. d = [kind |-> "gate", sign |-> d.sign, type |-> d.type, a |-> d.a, b |-> d.b]
      BY <2>1 DEF GateDrivers
    <3> QED
      BY <2>1, <3>1 DEF GateDriver, SortInputs
  <2>7. Rebuilt.driver[mapping[i]] = RemapDriver(d) /\ mapping[i] = i
    BY <1>1, <1>2, <1>4, <1>5, RebuiltDrivers DEF VarsOf
  <2> QED
    BY <2>5, <2>6, <2>7
<1> QED
  BY <1>1, <1>6, <1>7

LEMMA EndingKeepsPrefix ==
  IInv /\ PInv /\ (NothingToReorder \/ RejectLayout \/ UNCHANGED vars) => PInv'
<1> SUFFICES ASSUME IInv, PInv, NothingToReorder \/ RejectLayout \/ UNCHANGED vars PROVE PInv'
  OBVIOUS
<1>1. CASE NothingToReorder
  <2>1. /\ pc' = "done" /\ fsm' = given' /\ moved' = Identity(fsm) /\ given' = fsm
    BY <1>1 DEF NothingToReorder, IInv, Settled
  <2>2. fsm.size \in Nat
    BY DEF IInv, TypeOK, WellFormed
  <2>3. ValidPrefixKept'
    BY <2>1, <2>2 DEF ValidPrefixKept, Identity, VarsOf
  <2> QED
    BY <2>1, <2>3 DEF PInv
<1>2. CASE RejectLayout
  BY <1>2 DEF RejectLayout, PInv, ValidPrefixKept
<1>3. CASE UNCHANGED vars
  BY <1>3 DEF vars, walkVars, PInv, PrefixWalked, UpTo, ValidPrefixKept
<1> QED
  BY <1>1, <1>2, <1>3

(* "Already-valid prefixes keep their indices", for every FSM: below the    *)
(* first hole and the first gate that reads forward, the call moves nothing *)
(* and changes no gate.                                                     *)
THEOREM PrefixesStay == Spec => []ValidPrefixKept
<1>1. Init => PInv
  BY DEF Init, PInv, ValidPrefixKept
<1>2. IInv /\ PInv /\ [Next]_vars => PInv'
  BY SeedKeepsPrefix, WalkKeepsPrefix, RebuildKeepsPrefix, EndingKeepsPrefix
     DEF Next, Step, Terminated
<1>3. PInv => ValidPrefixKept
  BY DEF PInv
<1> QED
  BY <1>1, <1>2, <1>3, Invariance, PTL DEF Spec

--------------------------------------------------------------------------------
(****************************************************************************)
(* What a renumbering to of m into n preserves: each driver is at the place *)
(* of its variable, with its operands renamed and its label, no two drivers *)
(* share a place, and every list exposes the renamed values.                *)
(****************************************************************************)
Carried(m, n, to) ==
  /\ \A i \in Driven(m) :
       /\ to[i] \in VarsOf(n)
       /\ n.driver[to[i]] = RenamedDriver(m.driver[i], to)
       /\ n.label[to[i]] = m.label[i]
       /\ \A j \in Driven(m) : to[i] = to[j] => i = j
  /\ \A list \in Lists :
       n.refs[list] = [k \in DOMAIN m.refs[list] |-> Renamed(m.refs[list][k], to)]

--------------------------------------------------------------------------------
(* A table that gives the driven variables of m places below n, and a table *)
(* that is the composition of two others.                                   *)
Places(m, n, to) == \A i \in Driven(m) : to[i] \in 0 .. n - 1
Composes(m, f, g, h) == \A i \in Driven(m) : h[i] = g[f[i]]

(* Renaming a value into n variables keeps its sign and is a value of n.   *)
LEMMA RenamedTyped ==
  ASSUME NEW m, WellFormed(m), NEW n \in Nat, NEW to,
         Places(m, n, to),
         NEW v \in Values(m.size), IsDriven(m, v)
  PROVE  /\ Renamed(v, to) \in Values(n)
         /\ Renamed(v, to).index = IF v.index = NoVar THEN NoVar ELSE to[v.index]
         /\ Renamed(v, to).sign = v.sign
<1>1. v.sign \in BOOLEAN /\ v = [index |-> v.index, sign |-> v.sign]
  BY DEF Values
<1>2. CASE v.index = NoVar
  BY <1>1, <1>2 DEF Renamed, Values
<1>3. CASE v.index # NoVar
  <2>1. to[v.index] \in 0 .. n - 1
    BY <1>3 DEF IsDriven, Places
  <2> QED
    BY <1>1, <1>3, <2>1 DEF Renamed, Lit, Values
<1> QED
  BY <1>2, <1>3

(* The operands of the drivers of an FSM that passes verify are driven.     *)
LEMMA OperandsDriven ==
  ASSUME NEW m, WellFormed(m), FullyDriven(m), NEW i \in VarsOf(m)
  PROVE  /\ i \in Gates(m) =>
              /\ m.driver[i].a \in Values(m.size) /\ IsDriven(m, m.driver[i].a)
              /\ m.driver[i].b \in Values(m.size) /\ IsDriven(m, m.driver[i].b)
              /\ Precedes(m.driver[i].a, m.driver[i].b)
         /\ i \in Latches(m) =>
              m.driver[i].input \in Values(m.size) /\ IsDriven(m, m.driver[i].input)
<1>1. ASSUME i \in Gates(m)
      PROVE  /\ m.driver[i].a \in Values(m.size) /\ IsDriven(m, m.driver[i].a)
             /\ m.driver[i].b \in Values(m.size) /\ IsDriven(m, m.driver[i].b)
             /\ Precedes(m.driver[i].a, m.driver[i].b)
  <2>1. m.driver[i] \in GateDrivers(m.size)
    BY <1>1, DriverShape
  <2> QED
    BY <1>1, <2>1 DEF GateDrivers, FullyDriven, GateInputs
<1>2. ASSUME i \in Latches(m)
      PROVE  m.driver[i].input \in Values(m.size) /\ IsDriven(m, m.driver[i].input)
  <2>1. m.driver[i] \in LatchDrivers(m.size)
    BY <1>2, DriverShape
  <2> QED
    BY <1>2, <2>1 DEF LatchDrivers, FullyDriven
<1> QED
  BY <1>1, <1>2

(* The values a list exposes are driven too.                               *)
LEMMA ListDriven ==
  ASSUME NEW m, WellFormed(m), FullyDriven(m), NEW list \in Lists
  PROVE  /\ m.refs[list] \in Seq(Values(m.size)) /\ Len(m.refs[list]) \in Nat
         /\ DOMAIN m.refs[list] = 1 .. Len(m.refs[list])
         /\ \A k \in DOMAIN m.refs[list] :
              m.refs[list][k] \in Values(m.size) /\ IsDriven(m, m.refs[list][k])
<1>1. m.refs[list] \in Seq(Values(m.size))
  BY DEF WellFormed, Machine
<1>2. Len(m.refs[list]) \in Nat /\ DOMAIN m.refs[list] = 1 .. Len(m.refs[list])
      /\ \A k \in 1 .. Len(m.refs[list]) : m.refs[list][k] \in Values(m.size)
  BY <1>1, LenProperties
<1> QED
  BY <1>1, <1>2 DEF FullyDriven

(* Renaming a driver keeps its kind, and its renamed operands are its own.  *)
LEMMA RenamedDriverTyped ==
  ASSUME NEW m, WellFormed(m), FullyDriven(m), NEW n \in Nat, NEW to,
         Places(m, n, to), NEW i \in VarsOf(m)
  PROVE  /\ RenamedDriver(m.driver[i], to) \in Drivers(n)
         /\ RenamedDriver(m.driver[i], to).kind = m.driver[i].kind
         /\ i \in Gates(m) =>
              /\ RenamedDriver(m.driver[i], to) =
                   GateDriver(m.driver[i].sign, m.driver[i].type,
                              Renamed(m.driver[i].a, to), Renamed(m.driver[i].b, to))
              /\ GateInputs(RenamedDriver(m.driver[i], to)) =
                   {Renamed(m.driver[i].a, to), Renamed(m.driver[i].b, to)}
              /\ Precedes(RenamedDriver(m.driver[i], to).a, RenamedDriver(m.driver[i], to).b)
         /\ i \in Latches(m) =>
              RenamedDriver(m.driver[i], to).input = Renamed(m.driver[i].input, to)
         /\ i \notin Gates(m) \cup Latches(m) => RenamedDriver(m.driver[i], to) = m.driver[i]
<1> DEFINE d == m.driver[i]
<1>1. m.size \in Nat /\ d \in Drivers(m.size)
  BY DriverShape
<1>2. CASE i \in Gates(m)
  <2>1. d \in GateDrivers(m.size) /\ d.kind = "gate" /\ i \notin Latches(m)
    BY <1>2, DriverShape DEF Gates, Latches, Kind
  <2>2. /\ Renamed(d.a, to) \in Values(n) /\ Renamed(d.b, to) \in Values(n)
        /\ d.sign \in BOOLEAN /\ d.type \in {"And", "Or"}
    BY <1>2, <2>1, OperandsDriven, RenamedTyped DEF GateDrivers
  <2>3. RenamedDriver(d, to) = GateDriver(d.sign, d.type, Renamed(d.a, to), Renamed(d.b, to))
    BY <2>1 DEF RenamedDriver
  <2>4. /\ RenamedDriver(d, to) \in GateDrivers(n)
        /\ GateInputs(RenamedDriver(d, to)) = {Renamed(d.a, to), Renamed(d.b, to)}
        /\ Precedes(RenamedDriver(d, to).a, RenamedDriver(d, to).b)
    BY <2>2, <2>3, GateDriverSorts
  <2>5. RenamedDriver(d, to).kind = "gate" /\ RenamedDriver(d, to) \in Drivers(n)
    BY <2>4 DEF GateDrivers, Drivers
  <2> QED
    BY <1>2, <2>1, <2>3, <2>4, <2>5
<1>3. CASE i \in Latches(m)
  <2>1. d \in LatchDrivers(m.size) /\ d.kind = "latch" /\ i \notin Gates(m)
    BY <1>3, DriverShape DEF Gates, Latches, Kind
  <2>2. Renamed(d.input, to) \in Values(n)
    BY <1>3, <2>1, OperandsDriven, RenamedTyped
  <2>3. RenamedDriver(d, to) = [d EXCEPT !.input = Renamed(d.input, to)]
    BY <2>1 DEF RenamedDriver
  <2>4. [d EXCEPT !.input = Renamed(d.input, to)] \in LatchDrivers(n)
        /\ [d EXCEPT !.input = Renamed(d.input, to)].kind = "latch"
    BY <2>1, <2>2 DEF LatchDrivers
  <2>5. [d EXCEPT !.input = Renamed(d.input, to)].input = Renamed(d.input, to)
    BY <2>1 DEF LatchDrivers
  <2> QED
    BY <1>3, <2>1, <2>3, <2>4, <2>5 DEF Drivers
<1>4. CASE i \notin Gates(m) /\ i \notin Latches(m)
  <2>1. d.kind # "gate" /\ d.kind # "latch"
    BY <1>4 DEF Gates, Latches, Kind
  <2>2. RenamedDriver(d, to) = d
    BY <2>1 DEF RenamedDriver
  <2>3. d \in {NoDriver, InputDriver}
    BY <1>1, <2>1 DEF Drivers, GateDrivers, LatchDrivers
  <2> QED
    BY <1>4, <2>2, <2>3 DEF Drivers
<1> QED
  BY <1>2, <1>3, <1>4

(* The same of one gate and of one latch.                                  *)
LEMMA RenamedGate ==
  ASSUME NEW m, WellFormed(m), FullyDriven(m), NEW n \in Nat, NEW to,
         Places(m, n, to), NEW g \in Gates(m), NEW e, e = RenamedDriver(m.driver[g], to)
  PROVE  /\ GateInputs(e) = {Renamed(m.driver[g].a, to), Renamed(m.driver[g].b, to)}
         /\ Precedes(e.a, e.b)
<1> DEFINE d == m.driver[g]
<1>1. g \in VarsOf(m)
  BY DEF Gates, Kind
<1>2. /\ GateInputs(RenamedDriver(d, to)) = {Renamed(d.a, to), Renamed(d.b, to)}
      /\ Precedes(RenamedDriver(d, to).a, RenamedDriver(d, to).b)
  BY <1>1, RenamedDriverTyped, SMTT(20)
<1> QED
  BY <1>2
LEMMA RenamedLatch ==
  ASSUME NEW m, WellFormed(m), FullyDriven(m), NEW n \in Nat, NEW to,
         Places(m, n, to), NEW l \in Latches(m), NEW e, e = RenamedDriver(m.driver[l], to)
  PROVE  e.input = Renamed(m.driver[l].input, to)
<1>1. l \in VarsOf(m)
  BY DEF Latches, Kind
<1>2. RenamedDriver(m.driver[l], to).input = Renamed(m.driver[l].input, to)
  BY <1>1, RenamedDriverTyped, SMTT(20)
<1> QED
  BY <1>2

--------------------------------------------------------------------------------
(* The constructor of a gate does not look at the order of its inputs.     *)
LEMMA GateDriverCommutes ==
  ASSUME NEW n \in Nat, NEW a \in Values(n), NEW b \in Values(n),
         NEW s \in BOOLEAN, NEW t \in {"And", "Or"}
  PROVE  GateDriver(s, t, a, b) = GateDriver(s, t, b, a)
<1> DEFINE g == [kind |-> "gate", sign |-> s, type |-> t, a |-> a, b |-> b]
           h == [kind |-> "gate", sign |-> s, type |-> t, a |-> b, b |-> a]
<1>1. /\ a.index \in Int /\ b.index \in Int /\ a.sign \in BOOLEAN /\ b.sign \in BOOLEAN
      /\ a = [index |-> a.index, sign |-> a.sign] /\ b = [index |-> b.index, sign |-> b.sign]
  BY DEF Values, NoVar
<1>2. /\ GateDriver(s, t, a, b) = IF Precedes(a, b) THEN g ELSE h
      /\ GateDriver(s, t, b, a) = IF Precedes(b, a) THEN h ELSE g
  <2>1. g \in GateDrivers(n) /\ h \in GateDrivers(n)
    BY DEF GateDrivers
  <2>2. Precedes(a, b) => GateDriver(s, t, a, b) = g
    BY DEF GateDriver, SortInputs
  <2>3. ~Precedes(a, b) => GateDriver(s, t, a, b) = h
    BY <2>1 DEF GateDriver, SortInputs
  <2>4. Precedes(b, a) => GateDriver(s, t, b, a) = h
    BY DEF GateDriver, SortInputs
  <2>5. ~Precedes(b, a) => GateDriver(s, t, b, a) = g
    BY <2>1 DEF GateDriver, SortInputs
  <2> QED
    BY <2>2, <2>3, <2>4, <2>5
<1>3. CASE Precedes(a, b) /\ Precedes(b, a)
  <2>1. a.index = b.index /\ a.sign = b.sign
    BY <1>1, <1>3 DEF Precedes
  <2>2. a = b
    BY <1>1, <2>1
  <2> QED
    BY <2>2
<1>4. CASE ~(Precedes(a, b) /\ Precedes(b, a))
  <2>1. Precedes(a, b) \/ Precedes(b, a)
    BY <1>1 DEF Precedes
  <2> QED
    BY <1>2, <1>4, <2>1
<1> QED
  BY <1>3, <1>4

(* Renaming twice is renaming by the composed table.                       *)
LEMMA RenamedTwice ==
  ASSUME NEW m, WellFormed(m), NEW n \in Nat, NEW f, NEW g, NEW h,
         Places(m, n, f), Composes(m, f, g, h),
         NEW v \in Values(m.size), IsDriven(m, v)
  PROVE  Renamed(Renamed(v, f), g) = Renamed(v, h)
<1>1. CASE v.index = NoVar
  BY <1>1 DEF Renamed
<1>2. CASE v.index # NoVar
  <2>1. f[v.index] \in 0 .. n - 1 /\ h[v.index] = g[f[v.index]] /\ f[v.index] # NoVar
    BY <1>2 DEF IsDriven, NoVar, Places, Composes
  <2>2. Renamed(v, f) = Lit(f[v.index], v.sign)
    BY <1>2 DEF Renamed
  <2>3. Renamed(v, f).index = f[v.index] /\ Renamed(v, f).sign = v.sign
    BY <2>2 DEF Lit
  <2> QED
    BY <1>2, <2>1, <2>3 DEF Renamed
<1> QED
  BY <1>1, <1>2

(* The same for drivers; a gate that was sorted in between is sorted anew. *)
LEMMA RenamedDriverTwice ==
  ASSUME NEW m, WellFormed(m), FullyDriven(m), NEW n \in Nat, NEW p \in Nat,
         NEW f, NEW g, NEW h,
         Places(m, n, f), Places(m, p, h), Composes(m, f, g, h),
         NEW i \in VarsOf(m)
  PROVE  RenamedDriver(RenamedDriver(m.driver[i], f), g) = RenamedDriver(m.driver[i], h)
<1> DEFINE d == m.driver[i]
           e == RenamedDriver(d, f)
<1>1. e.kind = d.kind
  BY RenamedDriverTyped
<1>2. CASE i \in Gates(m)
  <2>1. /\ d.kind = "gate" /\ d \in GateDrivers(m.size)
        /\ d.a \in Values(m.size) /\ IsDriven(m, d.a)
        /\ d.b \in Values(m.size) /\ IsDriven(m, d.b)
    BY <1>2, DriverShape, OperandsDriven DEF Gates, Kind
  <2> DEFINE fa == Renamed(d.a, f)
             fb == Renamed(d.b, f)
             ha == Renamed(d.a, h)
             hb == Renamed(d.b, h)
  <2>2. Renamed(fa, g) = ha /\ Renamed(fb, g) = hb
    BY <2>1, RenamedTwice
  <2>3. ha \in Values(p) /\ hb \in Values(p)
    BY <2>1, RenamedTyped
  <2>4. e = GateDriver(d.sign, d.type, fa, fb)
    BY <1>2, RenamedDriverTyped
  <2>5. /\ e.sign = d.sign /\ e.type = d.type
        /\ (e.a = fa /\ e.b = fb) \/ (e.a = fb /\ e.b = fa)
    BY <2>4 DEF GateDriver, SortInputs
  <2>6. RenamedDriver(e, g) = GateDriver(e.sign, e.type, Renamed(e.a, g), Renamed(e.b, g))
    BY <1>1, <2>1 DEF RenamedDriver
  <2>7. RenamedDriver(d, h) = GateDriver(d.sign, d.type, ha, hb)
    BY <1>2, <2>1 DEF RenamedDriver
  <2>8. GateDriver(d.sign, d.type, ha, hb) = GateDriver(d.sign, d.type, hb, ha)
    BY <2>1, <2>3, GateDriverCommutes DEF GateDrivers
  <2> HIDE DEF e, fa, fb, ha, hb
  <2> QED
    BY <2>2, <2>5, <2>6, <2>7, <2>8 DEF e
<1>3. CASE i \in Latches(m)
  <2>1. /\ d.kind = "latch" /\ d.input \in Values(m.size) /\ IsDriven(m, d.input)
        /\ d \in LatchDrivers(m.size)
    BY <1>3, DriverShape, OperandsDriven DEF Latches, Kind
  <2>2. Renamed(Renamed(d.input, f), g) = Renamed(d.input, h)
    <3> DEFINE v == d.input
    <3>1. v \in Values(m.size) /\ IsDriven(m, v)
      BY <2>1
    <3> HIDE DEF v
    <3>2. Renamed(Renamed(v, f), g) = Renamed(v, h)
      BY <3>1, RenamedTwice
    <3> QED
      BY <3>2 DEF v
  <2>3. e = [d EXCEPT !.input = Renamed(d.input, f)]
    BY <2>1 DEF RenamedDriver
  <2>4. e.input = Renamed(d.input, f)
    BY <2>1, <2>3 DEF LatchDrivers
  <2>5. RenamedDriver(e, g) = [e EXCEPT !.input = Renamed(e.input, g)]
    BY <1>1, <2>1 DEF RenamedDriver
  <2>6. RenamedDriver(d, h) = [d EXCEPT !.input = Renamed(d.input, h)]
    BY <2>1 DEF RenamedDriver
  <2>7. [[d EXCEPT !.input = Renamed(d.input, f)] EXCEPT !.input = Renamed(d.input, h)]
          = [d EXCEPT !.input = Renamed(d.input, h)]
    BY <2>1 DEF LatchDrivers
  <2> QED
    BY <2>2, <2>3, <2>4, <2>5, <2>6, <2>7
<1>4. CASE i \notin Gates(m) \cup Latches(m)
  <2>1. e = d /\ d.kind # "gate" /\ d.kind # "latch"
    BY <1>4, RenamedDriverTyped DEF Gates, Latches, Kind
  <2> QED
    BY <2>1 DEF RenamedDriver
<1> QED
  BY <1>2, <1>3, <1>4

--------------------------------------------------------------------------------
(* Driven variables are carried to driven ones of the same kind.           *)
LEMMA CarriedKinds ==
  ASSUME NEW m, WellFormed(m), FullyDriven(m), NEW n, WellFormed(n), NEW to, Carried(m, n, to)
  PROVE  /\ n.size \in Nat /\ Places(m, n.size, to)
         /\ \A i \in Driven(m) : /\ n.driver[to[i]].kind = m.driver[i].kind
                                 /\ to[i] \in Driven(n)
<1>1. n.size \in Nat /\ Places(m, n.size, to)
  BY DEF WellFormed, Carried, Places, VarsOf
<1>2. ASSUME NEW i \in Driven(m)
      PROVE  n.driver[to[i]].kind = m.driver[i].kind /\ to[i] \in Driven(n)
  <2>1. i \in VarsOf(m) /\ m.driver[i].kind # "none" /\ to[i] \in VarsOf(n)
    BY DEF Driven, Kind, Carried
  <2>2. n.driver[to[i]] = RenamedDriver(m.driver[i], to)
    BY DEF Carried
  <2>3. n.driver[to[i]].kind = m.driver[i].kind
    BY <1>1, <2>1, <2>2, RenamedDriverTyped
  <2> QED
    BY <2>1, <2>3 DEF Driven, Kind
<1> QED
  BY <1>1, <1>2

(* Two renumberings compose.                                               *)
LEMMA CarriedTwice ==
  ASSUME NEW m, WellFormed(m), FullyDriven(m), NEW n, WellFormed(n), FullyDriven(n),
         NEW p, WellFormed(p), NEW f, NEW g, NEW h,
         Carried(m, n, f), Carried(n, p, g), Composes(m, f, g, h)
  PROVE  Carried(m, p, h)
<1>1. /\ n.size \in Nat /\ p.size \in Nat /\ Places(m, n.size, f) /\ Places(n, p.size, g)
      /\ \A i \in Driven(m) : f[i] \in Driven(n)
  BY CarriedKinds
<1>2. Places(m, p.size, h)
  BY <1>1 DEF Places, Composes
<1>3. ASSUME NEW i \in Driven(m)
      PROVE  /\ h[i] \in VarsOf(p)
             /\ p.driver[h[i]] = RenamedDriver(m.driver[i], h)
             /\ p.label[h[i]] = m.label[i]
             /\ \A j \in Driven(m) : h[i] = h[j] => i = j
  <2>1. i \in VarsOf(m) /\ f[i] \in Driven(n) /\ h[i] = g[f[i]]
    BY <1>1 DEF Driven, Composes
  <2>2. /\ p.driver[g[f[i]]] = RenamedDriver(n.driver[f[i]], g)
        /\ n.driver[f[i]] = RenamedDriver(m.driver[i], f)
        /\ p.label[g[f[i]]] = n.label[f[i]] /\ n.label[f[i]] = m.label[i]
        /\ g[f[i]] \in VarsOf(p)
    BY <2>1 DEF Carried
  <2>3. RenamedDriver(RenamedDriver(m.driver[i], f), g) = RenamedDriver(m.driver[i], h)
    BY <1>1, <1>2, <2>1, RenamedDriverTwice
  <2>4. ASSUME NEW j \in Driven(m), h[i] = h[j] PROVE i = j
    <3>1. g[f[i]] = g[f[j]] /\ f[j] \in Driven(n)
      BY <1>1, <2>4 DEF Composes
    <3>2. f[i] = f[j]
      BY <2>1, <3>1 DEF Carried
    <3> QED
      BY <3>2 DEF Carried
  <2> QED
    BY <2>1, <2>2, <2>3, <2>4
<1>4. ASSUME NEW list \in Lists
      PROVE  p.refs[list] = [k \in DOMAIN m.refs[list] |-> Renamed(m.refs[list][k], h)]
  <2>1. /\ p.refs[list] = [k \in DOMAIN n.refs[list] |-> Renamed(n.refs[list][k], g)]
        /\ n.refs[list] = [k \in DOMAIN m.refs[list] |-> Renamed(m.refs[list][k], f)]
    BY DEF Carried
  <2>2. ASSUME NEW k \in DOMAIN m.refs[list]
        PROVE  Renamed(Renamed(m.refs[list][k], f), g) = Renamed(m.refs[list][k], h)
    <3>1. m.refs[list][k] \in Values(m.size) /\ IsDriven(m, m.refs[list][k])
      BY ListDriven
    <3> QED
      BY <1>1, <3>1, RenamedTwice
  <2> QED
    BY <2>1, <2>2
<1> QED
  BY <1>3, <1>4 DEF Carried

(* Renaming nothing changes no value of the FSM.                           *)
LEMMA RenamedInPlace ==
  ASSUME NEW m, WellFormed(m), NEW v \in Values(m.size)
  PROVE  Renamed(v, Identity(m)) = v
<1>1. m.size \in Nat /\ v = [index |-> v.index, sign |-> v.sign]
  BY DEF WellFormed, Values
<1>2. v.index # NoVar => v.index \in VarsOf(m)
  BY <1>1 DEF Values, VarsOf
<1> QED
  BY <1>1, <1>2 DEF Renamed, Identity, Lit

(* An FSM that passes verify is carried to itself.                         *)
LEMMA CarriedInPlace ==
  ASSUME NEW m, WellFormed(m), FullyDriven(m)
  PROVE  Carried(m, m, Identity(m))
<1> DEFINE to == Identity(m)
<1>1. \A i \in Driven(m) : i \in VarsOf(m) /\ to[i] = i
  BY DEF Driven, Identity
<1>2. ASSUME NEW i \in VarsOf(m) PROVE RenamedDriver(m.driver[i], to) = m.driver[i]
  <2> DEFINE d == m.driver[i]
  <2>1. CASE i \in Gates(m)
    <3>1. d \in GateDrivers(m.size) /\ d.kind = "gate"
      BY <2>1, DriverShape DEF Gates, Kind
    <3>2. /\ d.a \in Values(m.size) /\ d.b \in Values(m.size) /\ Precedes(d.a, d.b)
          /\ Renamed(d.a, to) = d.a /\ Renamed(d.b, to) = d.b
      BY <2>1, OperandsDriven, RenamedInPlace
    <3>3. RenamedDriver(d, to) = GateDriver(d.sign, d.type, d.a, d.b)
      BY <3>1, <3>2 DEF RenamedDriver
    <3>4. d = [kind |-> "gate", sign |-> d.sign, type |-> d.type, a |-> d.a, b |-> d.b]
      BY <3>1 DEF GateDrivers
    <3>5. GateDriver(d.sign, d.type, d.a, d.b) = d
      BY <3>2, <3>4 DEF GateDriver, SortInputs
    <3> QED
      BY <3>3, <3>5
  <2>2. CASE i \in Latches(m)
    <3>1. d \in LatchDrivers(m.size) /\ d.kind = "latch"
      BY <2>2, DriverShape DEF Latches, Kind
    <3>2. Renamed(d.input, to) = d.input
      BY <2>2, OperandsDriven, RenamedInPlace
    <3> QED
      BY <3>1, <3>2 DEF RenamedDriver, LatchDrivers
  <2>3. CASE i \notin Gates(m) \cup Latches(m)
    BY <2>3 DEF RenamedDriver, Gates, Latches, Kind
  <2> QED
    BY <2>1, <2>2, <2>3
<1>3. ASSUME NEW list \in Lists
      PROVE  m.refs[list] = [k \in DOMAIN m.refs[list] |-> Renamed(m.refs[list][k], to)]
  <2>1. \A k \in DOMAIN m.refs[list] : Renamed(m.refs[list][k], to) = m.refs[list][k]
    BY ListDriven, RenamedInPlace
  <2>2. m.refs[list] \in Seq(Values(m.size))
    BY ListDriven
  <2> QED
    BY <2>1, <2>2
<1> HIDE DEF to
<1>4. \A i \in Driven(m) : \A j \in Driven(m) : to[i] = to[j] => i = j
  BY <1>1
<1> QED
  BY <1>1, <1>2, <1>3, <1>4 DEF Carried, to

--------------------------------------------------------------------------------
(* The rebuild of reorder_gates carries each driver to where on_remap says, *)
(* and moves gates only.                                                   *)
LEMMA RebuiltCarries ==
  ASSUME TypeOK, Numbering, Gates(fsm) \subseteq assigned, FullyDriven(fsm),
         moved = Identity(fsm)
  PROVE  /\ Carried(fsm, Rebuilt, OnRemap)
         /\ \A i \in VarsOf(fsm) \ Gates(fsm) : OnRemap[i] = i
<1>1. /\ WellFormed(fsm) /\ VarsOf(Rebuilt) = VarsOf(fsm)
      /\ \A i \in VarsOf(fsm) : mapping[i] \in VarsOf(fsm)
      /\ \A i, j \in Driven(fsm) : mapping[i] = mapping[j] => i = j
  BY MappingPlacesDrivers, RebuiltWellFormed DEF TypeOK, VarsOf
<1>2. \A i \in Driven(fsm) : i \in VarsOf(fsm) /\ OnRemap[i] = mapping[i]
  BY RebuiltNames DEF Driven
<1>3. ASSUME NEW v, IsDriven(fsm, v) PROVE Remap(v) = Renamed(v, OnRemap)
  <2>1. v.index # NoVar => OnRemap[v.index] = mapping[v.index]
    BY <1>2, <1>3 DEF IsDriven
  <2> QED
    BY <2>1 DEF Remap, Renamed
<1>4. ASSUME NEW i \in VarsOf(fsm)
      PROVE  RemapDriver(fsm.driver[i]) = RenamedDriver(fsm.driver[i], OnRemap)
  <2> DEFINE d == fsm.driver[i]
  <2>1. CASE i \in Gates(fsm)
    <3>1. /\ d.kind = "gate" /\ Remap(d.a) = Renamed(d.a, OnRemap)
          /\ Remap(d.b) = Renamed(d.b, OnRemap)
      BY <1>1, <1>3, <2>1, OperandsDriven DEF Gates, Kind
    <3> QED
      BY <3>1 DEF RemapDriver, RenamedDriver
  <2>2. CASE i \in Latches(fsm)
    <3>1. d.kind = "latch" /\ Remap(d.input) = Renamed(d.input, OnRemap)
      BY <1>1, <1>3, <2>2, OperandsDriven DEF Latches, Kind
    <3> QED
      BY <3>1 DEF RemapDriver, RenamedDriver
  <2>3. CASE i \notin Gates(fsm) \cup Latches(fsm)
    BY <2>3 DEF RemapDriver, RenamedDriver, Gates, Latches, Kind
  <2> QED
    BY <2>1, <2>2, <2>3
<1>5. ASSUME NEW i \in Driven(fsm)
      PROVE  /\ OnRemap[i] \in VarsOf(Rebuilt)
             /\ Rebuilt.driver[OnRemap[i]] = RenamedDriver(fsm.driver[i], OnRemap)
             /\ Rebuilt.label[OnRemap[i]] = fsm.label[i]
             /\ \A j \in Driven(fsm) : OnRemap[i] = OnRemap[j] => i = j
  <2>1. Rebuilt.driver[mapping[i]] = RemapDriver(fsm.driver[i])
    BY RebuiltDrivers
  <2>2. Rebuilt.label[mapping[i]] = fsm.label[i]
    BY RebuiltNames
  <2> QED
    BY <1>1, <1>2, <1>4, <2>1, <2>2
<1>6. ASSUME NEW list \in Lists
      PROVE  Rebuilt.refs[list] = [k \in DOMAIN fsm.refs[list] |-> Renamed(fsm.refs[list][k], OnRemap)]
  <2>1. Rebuilt.refs[list] = [k \in DOMAIN fsm.refs[list] |-> Remap(fsm.refs[list][k])]
    BY DEF Rebuilt
  <2>2. \A k \in DOMAIN fsm.refs[list] : Remap(fsm.refs[list][k]) = Renamed(fsm.refs[list][k], OnRemap)
    BY <1>1, <1>3, ListDriven
  <2> QED
    BY <2>1, <2>2
<1>7. \A i \in VarsOf(fsm) \ Gates(fsm) : OnRemap[i] = i
  BY DEF OnRemap, Identity
<1> QED
  BY <1>5, <1>6, <1>7 DEF Carried

(****************************************************************************)
(* How a call ends: on a layout it rejects, or with every driver where the  *)
(* table says, nothing else, and the gates consecutive from the first on.   *)
(****************************************************************************)
Numbered(m, to) ==
  \A g \in Gates(m) : to[g] \in FirstGate(m) .. FirstGate(m) + Cardinality(Gates(m)) - 1
Onto(m, n, to) == \A k \in Driven(n) : \E i \in Driven(m) : to[i] = k
Finished ==
  /\ pc = "misplaced" => Gates(given) # {} /\ ~GatesLast(given)
  /\ pc = "done" => /\ Carried(given, fsm, moved) /\ Onto(given, fsm, moved)
                    /\ Numbered(given, moved)
                    /\ \A i \in VarsOf(given) \ Gates(given) : moved[i] = i

LEMMA StepPreservesIInv == IInv /\ Step => IInv'
BY SeedPreservesIInv, SkipPreservesIInv, DeferPreservesIInv, AssignPreservesIInv,
   RebuildPreservesIInv, EndingPreservesIInv DEF Step

LEMMA StepKeepsFinished == IInv /\ Finished /\ Step => Finished'
<1> SUFFICES ASSUME IInv, Finished, Step PROVE Finished'
  OBVIOUS
<1>0. given' = given
  BY DEF Step, NothingToReorder, RejectLayout, Seed, Skip, Defer, Assign, Rebuild
<1>1. CASE NothingToReorder
  <2>1. pc' = "done" /\ fsm' = given /\ moved' = Identity(given)
        /\ WellFormed(given) /\ FullyDriven(given)
    BY <1>1 DEF NothingToReorder, IInv, Settled
  <2>2. Carried(given, given, Identity(given))
    BY <2>1, CarriedInPlace
  <2>3. \A i \in VarsOf(given) : Identity(given)[i] = i
    BY DEF Identity
  <2>4. Gates(given) = {}
    BY <1>1, <2>1 DEF NothingToReorder, IInv, Settled
  <2>5. Onto(given, given, Identity(given))
    BY <2>3 DEF Onto, Driven
  <2> QED
    BY <1>0, <2>1, <2>2, <2>3, <2>4, <2>5 DEF Finished, Numbered
<1>2. CASE RejectLayout
  BY <1>0, <1>2 DEF RejectLayout, Finished, IInv, Settled
<1>3. CASE Seed \/ Skip \/ Defer \/ Assign
  <2>1. pc' \in {"walk", "cyclic"}
    BY <1>3 DEF Seed, Skip, Defer, Assign, Popping
  <2> QED
    BY <2>1 DEF Finished
<1>4. CASE Rebuild
  <2>1. /\ pc' = "done" /\ fsm' = Rebuilt /\ moved' = OnRemap /\ pc = "walk" /\ queue = <<>>
        /\ TypeOK /\ Numbering /\ Coverage /\ fsm = given /\ moved = Identity(fsm)
        /\ FullyDriven(fsm)
    BY <1>4 DEF Rebuild, IInv, Settled
  <2>2. Gates(fsm) \subseteq assigned
    <3>1. Len(queue) = 0
      BY <2>1, EmptySeq
    <3> QED
      BY <2>1, <3>1 DEF Coverage
  <2>3. /\ Carried(fsm, Rebuilt, OnRemap)
        /\ \A i \in VarsOf(fsm) \ Gates(fsm) : OnRemap[i] = i
    BY <2>1, <2>2, RebuiltCarries
  <2>4. Numbered(fsm, OnRemap)
    <3>1. assigned = Gates(fsm)
      BY <2>1, <2>2 DEF Numbering
    <3>2. nextGate = FirstGate(fsm) + Cardinality(Gates(fsm))
      BY <2>1, <3>1 DEF Numbering
    <3>3. \A g \in Gates(fsm) : mapping[g] \in FirstGate(fsm) .. nextGate - 1
      BY <2>1, <3>1 DEF Numbering
    <3>4. \A g \in Gates(fsm) : OnRemap[g] = mapping[g]
      BY DEF OnRemap, Gates, Kind
    <3>5. nextGate - 1 = FirstGate(fsm) + Cardinality(Gates(fsm)) - 1
      <4>1. Cardinality(Gates(fsm)) \in Nat /\ FirstGate(fsm) \in Nat
        BY <2>1, GatesFit, FirstGateIsLeast DEF TypeOK, Numbering, VarsOf
      <4> QED
        BY <3>2, <4>1
    <3>6. ASSUME NEW g \in Gates(fsm)
          PROVE  OnRemap[g] \in FirstGate(fsm) .. FirstGate(fsm) + Cardinality(Gates(fsm)) - 1
      BY <3>3, <3>4, <3>5, Zenon
    <3> QED
      BY <3>6 DEF Numbered
  <2>5. Onto(fsm, Rebuilt, OnRemap)
    <3> SUFFICES ASSUME NEW k \in Driven(Rebuilt) PROVE \E i \in Driven(fsm) : OnRemap[i] = k
      BY DEF Onto
    <3>1. k \in VarsOf(fsm) /\ Rebuilt.driver[k] # NoDriver
      BY DEF Driven, Kind, VarsOf, Rebuilt, NoDriver
    <3>2. PICK i \in Driven(fsm) : mapping[i] = k
      BY <2>1, <2>2, <3>1, RebuiltDrivers
    <3> QED
      BY <2>1, <2>2, <3>2, RebuiltNames
  <2> QED
    BY <1>0, <2>1, <2>3, <2>4, <2>5 DEF Finished
<1> QED
  BY <1>1, <1>2, <1>3, <1>4 DEF Step

--------------------------------------------------------------------------------
(****************************************************************************)
(* What normalize_ordering guarantees for every FSM: the grouping and the   *)
(* reordering together rename the variables and lose nothing, the result    *)
(* has the layout of binary AIGER, and all that is proved of reorder_gates  *)
(* alone holds of the call inside.                                          *)
(****************************************************************************)

(****************************************************************************)
(* The inductive invariant of a call: reorder_gates keeps its own, on the   *)
(* FSM it is given; that FSM is the original or what the grouping makes of  *)
(* it; and reorder_gates carries every driver to where its table says.      *)
(****************************************************************************)
Staged ==
  /\ WellFormed(original) /\ FullyDriven(original)
  /\ phase \in {"group", "grouped", "alone"}
  /\ phase = "group" => pc = "call" /\ queue = <<>>
  /\ phase = "grouped" => place = PlaceOf(original) /\ given = Compacted(original, place)
  /\ phase # "grouped" => place = Identity(original) /\ given = original

NInv == IInv /\ PInv /\ Staged /\ Finished

--------------------------------------------------------------------------------
(* The grouping gives every driven variable a place of its own, leaves no   *)
(* gap, puts inputs before latches and latches before gates, and keeps the  *)
(* order within each group.                                                 *)
LEMMA GroupingPlaces ==
  ASSUME NEW m, WellFormed(m)
  PROVE  /\ Cardinality(Driven(m)) \in Nat
         /\ Places(m, Cardinality(Driven(m)), PlaceOf(m))
         /\ \A i, j \in Driven(m) : PlaceOf(m)[i] = PlaceOf(m)[j] => i = j
         /\ \A k \in 0 .. Cardinality(Driven(m)) - 1 : \E i \in Driven(m) : PlaceOf(m)[i] = k
         /\ \A i \in Inputs(m), l \in Latches(m) : PlaceOf(m)[i] < PlaceOf(m)[l]
         /\ \A i \in Inputs(m) \cup Latches(m), g \in Gates(m) : PlaceOf(m)[i] < PlaceOf(m)[g]
         /\ \A i, j \in Inputs(m) : i < j => PlaceOf(m)[i] < PlaceOf(m)[j]
         /\ \A i, j \in Latches(m) : i < j => PlaceOf(m)[i] < PlaceOf(m)[j]
         /\ \A i, j \in Gates(m) : i < j => PlaceOf(m)[i] < PlaceOf(m)[j]
<1> DEFINE Ins == Inputs(m)
           B == Latches(m)
           Outs == Gates(m)
           D == Driven(m)
           P(i) == Grouped(Ins, B, Outs, i)
           na == Cardinality(Ins)
           nb == Cardinality(B)
           nc == Cardinality(Outs)
<1>1. /\ Ins \in SUBSET Nat /\ B \in SUBSET Nat /\ Outs \in SUBSET Nat
      /\ IsFiniteSet(Ins) /\ IsFiniteSet(B) /\ IsFiniteSet(Outs)
      /\ Ins \cap B = {} /\ Ins \cap Outs = {} /\ B \cap Outs = {} /\ D = (Ins \cup B) \cup Outs
      /\ D \subseteq VarsOf(m)
  <2>1. m.size \in Nat /\ VarsOf(m) \subseteq Nat
    BY DEF WellFormed, VarsOf
  <2>2. IsFiniteSet(VarsOf(m))
    BY <2>1, FS_Interval DEF VarsOf
  <2>3. Ins \subseteq VarsOf(m) /\ B \subseteq VarsOf(m) /\ Outs \subseteq VarsOf(m)
    BY DEF Inputs, Latches, Gates, Kind
  <2>4. IsFiniteSet(Ins) /\ IsFiniteSet(B) /\ IsFiniteSet(Outs)
    BY <2>2, <2>3, FS_Subset
  <2>5. D = (Ins \cup B) \cup Outs /\ D \subseteq VarsOf(m)
    <3>1. D \subseteq VarsOf(m)
      BY DEF Driven
    <3>2. \A i \in VarsOf(m) : i \in D <=> i \in Outs \cup B \cup Ins
      BY DriverShape
    <3> QED
      BY <2>3, <3>1, <3>2
  <2>6. Ins \cap B = {} /\ Ins \cap Outs = {} /\ B \cap Outs = {}
    BY DEF Inputs, Latches, Gates, Kind
  <2> QED
    BY <2>1, <2>3, <2>4, <2>5, <2>6
<1>2. /\ na \in Nat /\ nb \in Nat /\ nc \in Nat
      /\ \A i \in Ins : P(i) \in 0 .. na - 1
      /\ \A i \in B : P(i) \in na .. na + nb - 1
      /\ \A i \in Outs : P(i) \in na + nb .. na + nb + nc - 1
      /\ \A i, j \in Ins \cup B \cup Outs : P(i) = P(j) => i = j
      /\ \A i, j \in Ins : i < j => P(i) < P(j)
      /\ \A i, j \in B : i < j => P(i) < P(j)
      /\ \A i, j \in Outs : i < j => P(i) < P(j)
  <2> HIDE DEF Ins, B, Outs, D
  <2> QED
    BY <1>1, GroupedPlaces
<1>3. IsFiniteSet(D) /\ Cardinality(D) = na + nb + nc
  <2>1. IsFiniteSet(Ins \cup B) /\ Cardinality(Ins \cup B) = na + nb - Cardinality(Ins \cap B)
    BY <1>1, FS_Union
  <2>2. IsFiniteSet((Ins \cup B) \cup Outs)
        /\ Cardinality((Ins \cup B) \cup Outs) = Cardinality(Ins \cup B) + nc - Cardinality((Ins \cup B) \cap Outs)
    BY <1>1, <2>1, FS_Union
  <2>3. Cardinality(Ins \cap B) = 0 /\ Cardinality((Ins \cup B) \cap Outs) = 0
    <3>1. Ins \cap B = {} /\ (Ins \cup B) \cap Outs = {}
      BY <1>1
    <3>2. Cardinality({}) = 0
      BY FS_EmptySet
    <3> QED
      BY <3>1, <3>2, Zenon
  <2>4. D = (Ins \cup B) \cup Outs
    BY <1>1
  <2> HIDE DEF Ins, B, Outs, D
  <2> QED
    BY <1>2, <2>1, <2>2, <2>3, <2>4
<1>4. \A i \in D : PlaceOf(m)[i] = P(i)
  BY <1>1 DEF PlaceOf
<1> DEFINE n == Cardinality(D)
<1>5. \A i \in D : P(i) \in 0 .. n - 1
  <2> HIDE DEF Ins, B, Outs, D, P
  <2> QED
    BY <1>1, <1>2, <1>3
<1>6. \A k \in 0 .. n - 1 : \E i \in D : P(i) = k
  <2> DEFINE f == [i \in D |-> P(i)]
  <2>1. f \in [D -> 0 .. n - 1]
    BY <1>5
  <2> HIDE DEF Ins, B, Outs, D, P
  <2>2. \A i, j \in D : f[i] = f[j] => i = j
    BY <1>1, <1>2
  <2>3. \A k \in 0 .. n - 1 : \E i \in D : f[i] = k
    <3> HIDE DEF f
    <3> QED
      BY <1>3, <2>1, <2>2, PlacesFilled
  <2> QED
    BY <2>3
<1> HIDE DEF Ins, B, Outs, D, P
<1>7. /\ \A i \in Ins, l \in B : P(i) < P(l)
      /\ \A i \in Ins \cup B, g \in Outs : P(i) < P(g)
  BY <1>2
<1>8. /\ n \in Nat /\ Places(m, n, PlaceOf(m))
      /\ \A i, j \in D : PlaceOf(m)[i] = PlaceOf(m)[j] => i = j
      /\ \A k \in 0 .. n - 1 : \E i \in D : PlaceOf(m)[i] = k
  <2>1. n \in Nat
    BY <1>2, <1>3
  <2>2. Places(m, n, PlaceOf(m))
    BY <1>4, <1>5 DEF Places, D
  <2>3. \A i, j \in D : PlaceOf(m)[i] = PlaceOf(m)[j] => i = j
    BY <1>1, <1>2, <1>4
  <2>4. \A k \in 0 .. n - 1 : \E i \in D : PlaceOf(m)[i] = k
    BY <1>4, <1>6
  <2> QED
    BY <2>1, <2>2, <2>3, <2>4
<1>9. /\ \A i \in Ins, l \in B : PlaceOf(m)[i] < PlaceOf(m)[l]
      /\ \A i \in Ins \cup B, g \in Outs : PlaceOf(m)[i] < PlaceOf(m)[g]
      /\ \A i, j \in Ins : i < j => PlaceOf(m)[i] < PlaceOf(m)[j]
      /\ \A i, j \in B : i < j => PlaceOf(m)[i] < PlaceOf(m)[j]
      /\ \A i, j \in Outs : i < j => PlaceOf(m)[i] < PlaceOf(m)[j]
  BY <1>1, <1>2, <1>4, <1>7
<1> QED
  BY <1>8, <1>9 DEF Ins, B, Outs, D

(* The compacted FSM carries the original, passes verify up to the order of *)
(* its gates, and has no gap; its variables are grouped.                    *)
LEMMA CompactedCarries ==
  ASSUME NEW m, WellFormed(m), FullyDriven(m), NEW c, c = Compacted(m, PlaceOf(m))
  PROVE  /\ WellFormed(c) /\ FullyDriven(c) /\ c.size = Cardinality(Driven(m))
         /\ Carried(m, c, PlaceOf(m))
         /\ \A k \in VarsOf(c) : \E i \in Driven(m) :
              PlaceOf(m)[i] = k /\ c.driver[k].kind = m.driver[i].kind
<1> DEFINE to == PlaceOf(m)
           n == Cardinality(Driven(m))
           At(k) == CHOOSE i \in Driven(m) : to[i] = k
<1>1. /\ n \in Nat /\ Places(m, n, to) /\ m.size \in Nat
      /\ \A i \in Driven(m) : \A j \in Driven(m) : to[i] = to[j] => i = j
      /\ \A k \in 0 .. n - 1 : \E i \in Driven(m) : to[i] = k
  BY GroupingPlaces DEF WellFormed
<1>2. /\ c.size = n
      /\ c.driver = [k \in 0 .. n - 1 |-> RenamedDriver(m.driver[At(k)], to)]
      /\ c.label = [k \in 0 .. n - 1 |-> m.label[At(k)]]
      /\ c.refs = [list \in Lists |->
                     [k \in DOMAIN m.refs[list] |-> Renamed(m.refs[list][k], to)]]
      /\ c = [size |-> c.size, driver |-> c.driver, label |-> c.label, refs |-> c.refs]
  BY DEF Compacted
<1> HIDE DEF to, n
<1>3. \A k \in 0 .. n - 1 : At(k) \in Driven(m) /\ to[At(k)] = k /\ At(k) \in VarsOf(m)
  BY <1>1 DEF Driven
<1>4. \A i \in Driven(m) : to[i] \in 0 .. n - 1 /\ At(to[i]) = i
  BY <1>1, <1>3 DEF Places
<1> HIDE DEF At
<1>5. ASSUME NEW list \in Lists, NEW k \in DOMAIN m.refs[list]
      PROVE  Renamed(m.refs[list][k], to) \in Values(n)
  <2>1. m.refs[list][k] \in Values(m.size) /\ IsDriven(m, m.refs[list][k])
    BY ListDriven
  <2> QED
    BY <1>1, <2>1, RenamedTyped
<1>6. WellFormed(c) /\ VarsOf(c) = 0 .. n - 1
  <2>1. c.driver \in [0 .. n - 1 -> Drivers(n)]
    <3>1. \A k \in 0 .. n - 1 : RenamedDriver(m.driver[At(k)], to) \in Drivers(n)
      BY <1>1, <1>3, RenamedDriverTyped
    <3> QED
      BY <1>2, <3>1
  <2>2. c.label \in [0 .. n - 1 -> Nat]
    <3>1. \A i \in VarsOf(m) : m.label[i] \in Nat
      BY DEF WellFormed, Machine, VarsOf
    <3> QED
      BY <1>2, <1>3, <3>1
  <2>3. c.refs \in [Lists -> Seq(Values(n))]
    <3>1. ASSUME NEW list \in Lists
          PROVE  [k \in DOMAIN m.refs[list] |-> Renamed(m.refs[list][k], to)] \in Seq(Values(n))
      <4>1. DOMAIN m.refs[list] = 1 .. Len(m.refs[list]) /\ Len(m.refs[list]) \in Nat
        BY ListDriven
      <4> QED
        BY <1>5, <4>1
    <3> QED
      BY <1>2, <3>1
  <2> QED
    BY <1>1, <1>2, <2>1, <2>2, <2>3 DEF WellFormed, Machine, VarsOf
<1>7. Carried(m, c, to)
  <2>1. ASSUME NEW i \in Driven(m)
        PROVE  /\ to[i] \in VarsOf(c)
               /\ c.driver[to[i]] = RenamedDriver(m.driver[i], to)
               /\ c.label[to[i]] = m.label[i]
               /\ \A j \in Driven(m) : to[i] = to[j] => i = j
    BY <1>1, <1>2, <1>4, <1>6
  <2> QED
    BY <1>2, <2>1 DEF Carried
<1>8. /\ \A i \in Driven(m) : to[i] \in Driven(c)
      /\ \A k \in VarsOf(c) : /\ At(k) \in Driven(m) /\ At(k) \in VarsOf(m) /\ to[At(k)] = k
                              /\ c.driver[k] = RenamedDriver(m.driver[At(k)], to)
                              /\ c.driver[k].kind = m.driver[At(k)].kind
  BY <1>1, <1>2, <1>3, <1>6, <1>7, CarriedKinds
<1>9. ASSUME NEW v \in Values(m.size), IsDriven(m, v) PROVE IsDriven(c, Renamed(v, to))
  <2>1. v.index # NoVar => v.index \in Driven(m) /\ to[v.index] \in Driven(c)
    BY <1>8, <1>9 DEF IsDriven
  <2>2. Renamed(v, to).index = IF v.index = NoVar THEN NoVar ELSE to[v.index]
    BY <1>1, <1>9, RenamedTyped
  <2> QED
    BY <2>1, <2>2 DEF IsDriven
<1>10. ASSUME NEW g \in Gates(c)
       PROVE  /\ \A v \in GateInputs(c.driver[g]) : IsDriven(c, v)
              /\ Precedes(c.driver[g].a, c.driver[g].b)
  <2> DEFINE d == m.driver[At(g)]
  <2>1. g \in VarsOf(c) /\ c.driver[g].kind = "gate"
    BY DEF Gates, Kind
  <2>2. At(g) \in Gates(m) /\ At(g) \in VarsOf(m) /\ c.driver[g] = RenamedDriver(d, to)
    BY <1>8, <2>1 DEF Gates, Kind
  <2>3. /\ GateInputs(c.driver[g]) = {Renamed(d.a, to), Renamed(d.b, to)}
        /\ Precedes(c.driver[g].a, c.driver[g].b)
    BY <1>1, <2>2, RenamedGate
  <2>4. /\ d.a \in Values(m.size) /\ IsDriven(m, d.a)
        /\ d.b \in Values(m.size) /\ IsDriven(m, d.b)
    BY <2>2, OperandsDriven
  <2> QED
    BY <1>9, <2>2, <2>3, <2>4
<1>11. ASSUME NEW l \in Latches(c) PROVE IsDriven(c, c.driver[l].input)
  <2> DEFINE d == m.driver[At(l)]
  <2>1. l \in VarsOf(c) /\ c.driver[l].kind = "latch"
    BY DEF Latches, Kind
  <2>2. At(l) \in Latches(m) /\ At(l) \in VarsOf(m) /\ c.driver[l] = RenamedDriver(d, to)
    BY <1>8, <2>1 DEF Latches, Kind
  <2>3. c.driver[l].input = Renamed(d.input, to)
    BY <1>1, <2>2, RenamedLatch
  <2>4. d.input \in Values(m.size) /\ IsDriven(m, d.input)
    BY <2>2, OperandsDriven
  <2> QED
    BY <1>9, <2>3, <2>4
<1>12. ASSUME NEW list \in Lists, NEW k \in DOMAIN c.refs[list] PROVE IsDriven(c, c.refs[list][k])
  <2>1. k \in DOMAIN m.refs[list] /\ c.refs[list][k] = Renamed(m.refs[list][k], to)
    BY <1>2
  <2>2. m.refs[list][k] \in Values(m.size) /\ IsDriven(m, m.refs[list][k])
    BY <2>1, ListDriven
  <2> QED
    BY <1>9, <2>1, <2>2
<1>13. FullyDriven(c)
  BY <1>10, <1>11, <1>12 DEF FullyDriven
<1> QED
  BY <1>2, <1>6, <1>7, <1>8, <1>13 DEF to, n

(****************************************************************************)
(* The steps of a call keep NInv, the grouping first.                      *)
(****************************************************************************)
LEMMA NormalizeInitEstablishes == NormalizeInit => NInv
<1> SUFFICES ASSUME NormalizeInit PROVE NInv
  OBVIOUS
<1>1. IInv
  BY InitEstablishesIInv DEF NormalizeInit
<1>2. PInv
  BY DEF NormalizeInit, Init, PInv, ValidPrefixKept
<1>3. WellFormed(fsm) /\ FullyDriven(fsm)
  BY MachinesAssumption DEF NormalizeInit, Init
<1> QED
  BY <1>1, <1>2, <1>3 DEF NormalizeInit, Init, NInv, Staged, Finished

LEMMA GroupPreservesNInv == NInv /\ Group => NInv'
<1> SUFFICES ASSUME NInv, Group PROVE NInv'
  OBVIOUS
<1> DEFINE c == Compacted(original, PlaceOf(original))
<1>1. /\ pc = "call" /\ queue = <<>> /\ given = original /\ fsm = given
      /\ WellFormed(original) /\ FullyDriven(original)
      /\ assigned = {} /\ blocked = 0 /\ nextGate \in Nat
  BY DEF NInv, Staged, Group, IInv, Settled, TypeOK
<1>2. /\ pc' = "call" /\ queue' = <<>> /\ assigned' = {} /\ blocked' = 0 /\ nextGate' \in Nat
      /\ phase' = "grouped" /\ original' = original /\ place' = PlaceOf(original)
      /\ fsm' = c /\ given' = c /\ mapping' = Identity(c) /\ moved' = Identity(c)
  BY <1>1 DEF Group
<1>3. WellFormed(c) /\ FullyDriven(c)
  BY <1>1, CompactedCarries
<1> HIDE DEF c
<1>4. TypeOK'
  <2>1. /\ pc' \in {"call", "walk"} \cup Ended /\ WellFormed(fsm') /\ WellFormed(given')
        /\ given'.size = fsm'.size /\ queue' \in Seq(VarsOf(fsm')) /\ assigned' \subseteq VarsOf(fsm')
        /\ nextGate' \in Nat /\ blocked' \in Nat
    BY <1>2, <1>3
  <2>2. Identity(c) \in [VarsOf(c) -> Nat]
    BY <1>3 DEF Identity, VarsOf, WellFormed
  <2> QED
    BY <1>2, <2>1, <2>2 DEF TypeOK
<1>5. Settled'
  BY <1>2, <1>3 DEF Settled
<1>6. IInv'
  BY <1>2, <1>4, <1>5 DEF IInv, DoneIsVerified, NamesFollow
<1>7. PInv'
  BY <1>2 DEF PInv, ValidPrefixKept
<1>8. Staged'
  BY <1>1, <1>2 DEF Staged, c
<1>9. Finished'
  BY <1>2 DEF Finished
<1> QED
  BY <1>6, <1>7, <1>8, <1>9 DEF NInv

LEMMA ReorderGatesPreservesNInv == NInv /\ NormalizeReorder => NInv'
<1> SUFFICES ASSUME NInv, NormalizeReorder PROVE NInv'
  OBVIOUS
<1>1. IInv /\ PInv /\ Staged /\ Finished /\ Step /\ phase # "group"
      /\ UNCHANGED <<phase, original, place>>
  BY DEF NInv, NormalizeReorder
<1>2. IInv'
  BY <1>1, StepPreservesIInv
<1>3. PInv'
  BY <1>1, SeedKeepsPrefix, WalkKeepsPrefix, RebuildKeepsPrefix, EndingKeepsPrefix DEF Step
<1>4. given' = given
  BY <1>1 DEF Step, NothingToReorder, RejectLayout, Seed, Skip, Defer, Assign, Rebuild
<1>5. Staged'
  BY <1>1, <1>4 DEF Staged
<1>6. Finished'
  BY <1>1, StepKeepsFinished
<1> QED
  BY <1>2, <1>3, <1>5, <1>6 DEF NInv

LEMMA ReturnedPreservesNInv == NInv /\ UNCHANGED normalizeVars => NInv'
<1> SUFFICES ASSUME NInv, UNCHANGED normalizeVars PROVE NInv'
  OBVIOUS
<1>1. UNCHANGED vars /\ UNCHANGED <<phase, original, place>>
  BY DEF normalizeVars
<1>2. IInv' /\ PInv'
  BY <1>1, EndingPreservesIInv, EndingKeepsPrefix DEF NInv
<1>3. Staged' /\ Finished'
  BY <1>1 DEF NInv, Staged, Finished, vars, walkVars
<1> QED
  BY <1>2, <1>3 DEF NInv

(* The invariant holds throughout every call of either function.           *)
THEOREM NormalizeInvariance == NormalizeSpec => []NInv
<1>1. NormalizeInit => NInv
  BY NormalizeInitEstablishes
<1>2. NInv /\ [NormalizeNext]_normalizeVars => NInv'
  BY GroupPreservesNInv, ReorderGatesPreservesNInv, ReturnedPreservesNInv
     DEF NormalizeNext, NormalizeReturned
<1> QED
  BY <1>1, <1>2, PTL DEF NormalizeSpec

--------------------------------------------------------------------------------
(* The order of the gates of the original survives the grouping.           *)
LEMMA GroupingKeepsOrder ==
  ASSUME NEW m, WellFormed(m), FullyDriven(m), OrderedGates(m),
         NEW c, c = Compacted(m, PlaceOf(m))
  PROVE  OrderedGates(c)
<1> DEFINE to == PlaceOf(m)
<1> SUFFICES ASSUME NEW k \in Gates(c), NEW w \in GateInputs(c.driver[k]) PROVE w.index < k
  BY DEF OrderedGates
<1>1. /\ WellFormed(c) /\ Carried(m, c, to) /\ k \in VarsOf(c) /\ c.driver[k].kind = "gate"
      /\ k \in Nat /\ c.size \in Nat /\ Places(m, c.size, to)
  BY CompactedCarries, CarriedKinds DEF Gates, Kind, WellFormed, VarsOf
<1>2. PICK g \in Driven(m) : to[g] = k /\ m.driver[g].kind = "gate"
  BY <1>1, CompactedCarries
<1> DEFINE d == m.driver[g]
<1>3. /\ g \in Gates(m) /\ g \in VarsOf(m)
      /\ c.driver[k] = RenamedDriver(d, to)
  BY <1>1, <1>2 DEF Driven, Gates, Kind, Carried
<1> HIDE DEF to
<1>4. GateInputs(RenamedDriver(d, to)) = {Renamed(d.a, to), Renamed(d.b, to)}
  <2>1. PICK n \in Nat : Places(m, n, to)
    BY <1>1
  <2> QED
    BY <1>3, <2>1, RenamedDriverTyped
<1>5. ASSUME NEW v \in {d.a, d.b} PROVE Renamed(v, to).index < k
  <2>1. v \in Values(m.size) /\ IsDriven(m, v) /\ v.index < g
    BY <1>3, OperandsDriven DEF OrderedGates, GateInputs
  <2>2. Renamed(v, to).index = IF v.index = NoVar THEN NoVar ELSE to[v.index]
    BY <1>1, <2>1, RenamedTyped
  <2>3. CASE v.index = NoVar
    BY <1>1, <2>2, <2>3 DEF NoVar
  <2>4. CASE v.index # NoVar
    <3>1. v.index \in Inputs(m) \cup Latches(m) \cup Gates(m)
      BY <2>1, <2>4, DriverShape DEF IsDriven, Driven
    <3>2. to[v.index] < to[g]
      BY <1>3, <2>1, <3>1, GroupingPlaces DEF to
    <3> QED
      BY <1>2, <2>2, <2>4, <3>2
  <2> QED
    BY <2>3, <2>4
<1> QED
  BY <1>3, <1>4, <1>5

(* The FSM reorder_gates is given is the original, renamed by place.       *)
LEMMA GivenCarriesOriginal ==
  ASSUME NInv
  PROVE  /\ WellFormed(given) /\ FullyDriven(given) /\ Carried(original, given, place)
         /\ WellFormed(original) /\ FullyDriven(original)
<1>1. Staged /\ WellFormed(original) /\ FullyDriven(original)
  BY DEF NInv, Staged
<1>2. CASE phase = "grouped"
  BY <1>1, <1>2, CompactedCarries DEF Staged
<1>3. CASE phase # "grouped"
  BY <1>1, <1>3, CarriedInPlace DEF Staged
<1> QED
  BY <1>1, <1>2, <1>3

(* When the call is done, Now carries the original to the result.          *)
LEMMA ResultCarriesOriginal ==
  ASSUME NInv, pc = "done"
  PROVE  /\ Carried(original, fsm, Now)
         /\ \A i \in Driven(original) : place[i] \in Driven(given) /\ Now[i] = moved[place[i]]
<1>1. /\ WellFormed(given) /\ FullyDriven(given) /\ Carried(original, given, place)
      /\ WellFormed(original) /\ FullyDriven(original)
      /\ WellFormed(fsm) /\ Carried(given, fsm, moved)
  BY GivenCarriesOriginal DEF NInv, Finished, IInv, TypeOK
<1>2. \A i \in Driven(original) : place[i] \in Driven(given) /\ Now[i] = moved[place[i]]
  BY <1>1, CarriedKinds DEF Now, Driven
<1>3. Composes(original, place, moved, Now)
  BY <1>2 DEF Composes
<1> QED
  BY <1>1, <1>2, <1>3, CarriedTwice

--------------------------------------------------------------------------------
(* All that holds of reorder_gates called alone holds of the call that      *)
(* normalize_ordering makes: its types, its numbering, its panic, its       *)
(* result, its names and its valid prefixes.                                *)
THEOREM NormalizeCallsReorder ==
  NormalizeSpec => [](/\ TypeOK /\ Topological /\ CycleAlarmJustified
                      /\ DoneIsVerified /\ NamesFollow /\ ValidPrefixKept)
<1>1. NInv => /\ TypeOK /\ Topological /\ CycleAlarmJustified
              /\ DoneIsVerified /\ NamesFollow /\ ValidPrefixKept
  BY NumberingFits, StuckGatesCycle DEF NInv, IInv, PInv
<1> QED
  BY <1>1, NormalizeInvariance, PTL

(* The renumberings of a call lose nothing, for every FSM: each driver is   *)
(* at the place of its variable, operands renamed, with its label; and      *)
(* every list exposes the renamed values.                                   *)
THEOREM NormalizeIsRenaming == NormalizeSpec => []Isomorphic
<1>1. NInv => Isomorphic
  BY ResultCarriesOriginal DEF Isomorphic, Carried
<1> QED
  BY <1>1, NormalizeInvariance, PTL

(* The only FSM normalize_ordering leaves for verify_gates_last to reject   *)
(* is one of gates alone.                                                   *)
THEOREM GroupingRepairsLayout == NormalizeSpec => []LayoutRepaired
<1>1. NInv => LayoutRepaired
  <2> SUFFICES ASSUME NInv, phase = "grouped", pc = "misplaced",
                      NEW s \in Inputs(original) \cup Latches(original)
               PROVE  FALSE
    BY DEF LayoutRepaired
  <2>1. /\ WellFormed(original) /\ FullyDriven(original) /\ place = PlaceOf(original)
        /\ given = Compacted(original, place)
        /\ Gates(given) # {} /\ ~GatesLast(given)
    BY DEF NInv, Staged, Finished
  <2>2. WellFormed(given) /\ Carried(original, given, place) /\ given.size \in Nat
    BY <2>1, CompactedCarries DEF WellFormed
  <2>3. FirstGate(given) \in Gates(given) /\ FirstGate(given) \in VarsOf(given)
    BY <2>1, <2>2, FirstGateIsLeast
  <2>4. ASSUME NEW k \in VarsOf(given), given.driver[k].kind \in {"input", "latch"}
        PROVE  k < FirstGate(given)
    <3>1. PICK i \in Driven(original) :
            place[i] = k /\ original.driver[i].kind \in {"input", "latch"}
      BY <2>1, <2>4, CompactedCarries
    <3>2. PICK g \in Driven(original) :
            place[g] = FirstGate(given) /\ original.driver[g].kind = "gate"
      BY <2>1, <2>3, CompactedCarries DEF Gates, Kind
    <3>3. i \in Inputs(original) \cup Latches(original) /\ g \in Gates(original)
      BY <3>1, <3>2 DEF Inputs, Latches, Gates, Kind, Driven
    <3> QED
      BY <2>1, <3>1, <3>2, <3>3, GroupingPlaces
  <2>5. \A i \in Inputs(given) \cup Latches(given) : i < FirstGate(given)
    BY <2>4 DEF Inputs, Latches, Kind
  <2>6. ~(0 < FirstGate(given))
    BY <2>1, <2>5 DEF GatesLast
  <2>7. /\ s \in Driven(original) /\ place[s] \in VarsOf(given)
        /\ given.driver[place[s]].kind \in {"input", "latch"}
    <3>1. s \in VarsOf(original) /\ original.driver[s].kind \in {"input", "latch"}
      BY DEF Inputs, Latches, Kind
    <3>2. s \in Driven(original)
      BY <3>1 DEF Driven, Kind
    <3>3. given.driver[place[s]].kind = original.driver[s].kind
      BY <2>1, <2>2, <3>2, CarriedKinds
    <3>4. place[s] \in VarsOf(given)
      BY <2>2, <3>2 DEF Carried
    <3> QED
      BY <3>1, <3>2, <3>3, <3>4
  <2>8. place[s] < FirstGate(given) /\ place[s] \in Nat /\ FirstGate(given) \in Nat
    BY <2>2, <2>3, <2>4, <2>7 DEF VarsOf
  <2> QED
    BY <2>6, <2>8
<1> QED
  BY <1>1, NormalizeInvariance, PTL

(* A compacted FSM has no gap, and its groups follow each other.           *)
LEMMA CompactedLayout ==
  ASSUME NEW m, WellFormed(m), FullyDriven(m), NEW c, c = Compacted(m, PlaceOf(m))
  PROVE  /\ Driven(c) = VarsOf(c)
         /\ \A i \in Inputs(c), l \in Latches(c) : i < l
         /\ \A i \in Inputs(c) \cup Latches(c), g \in Gates(c) : i < g
<1> DEFINE to == PlaceOf(m)
<1>1. \A k \in VarsOf(c) : \E i \in Driven(m) : to[i] = k /\ c.driver[k].kind = m.driver[i].kind
  BY CompactedCarries
<1>2. Driven(c) = VarsOf(c)
  BY <1>1 DEF Driven, Kind
<1> HIDE DEF to
<1>3. /\ \A k \in Inputs(c) : \E i \in Inputs(m) : to[i] = k
      /\ \A k \in Latches(c) : \E i \in Latches(m) : to[i] = k
      /\ \A k \in Gates(c) : \E i \in Gates(m) : to[i] = k
  BY <1>1 DEF Inputs, Latches, Gates, Kind, Driven
<1>4. /\ \A i \in Inputs(m), l \in Latches(m) : to[i] < to[l]
      /\ \A i \in Inputs(m) \cup Latches(m), g \in Gates(m) : to[i] < to[g]
  BY GroupingPlaces DEF to
<1> QED
  BY <1>2, <1>3, <1>4

(* reorder_gates moves the gates of a compacted FSM among themselves.      *)
LEMMA GatesStayLast ==
  ASSUME NInv, pc = "done", phase = "grouped"
  PROVE  /\ Driven(fsm) = VarsOf(fsm) /\ Inputs(fsm) \subseteq Inputs(given)
         /\ Latches(fsm) \subseteq Latches(given) /\ Gates(fsm) \subseteq Gates(given)
<1> DEFINE n == given.size
           Part == VarsOf(given)
<1>1. /\ WellFormed(given) /\ FullyDriven(given) /\ WellFormed(fsm) /\ n \in Nat
      /\ Part = 0 .. n - 1 /\ VarsOf(fsm) = Part /\ Carried(given, fsm, moved)
      /\ \A i \in Part \ Gates(given) : moved[i] = i
  BY GivenCarriesOriginal DEF NInv, Finished, IInv, TypeOK, WellFormed, VarsOf
<1>2. Driven(given) = Part
  BY CompactedLayout DEF NInv, Staged
<1>3. /\ \A i \in Part : moved[i] \in Part /\ fsm.driver[moved[i]].kind = given.driver[i].kind
      /\ \A i, j \in Part : moved[i] = moved[j] => i = j
  <2>1. \A i \in Part : fsm.driver[moved[i]].kind = given.driver[i].kind
    BY <1>1, <1>2, CarriedKinds
  <2> QED
    BY <1>1, <1>2, <2>1 DEF Carried
<1>4. \A j \in Part : \E i \in Part : moved[i] = j
  <2> DEFINE f == [i \in Part |-> moved[i]]
  <2>1. IsFiniteSet(Part) /\ Cardinality(Part) = n
    <3>1. 0 \in Int /\ n - 1 \in Int
      BY <1>1
    <3>2. IsFiniteSet(0 .. n - 1)
          /\ Cardinality(0 .. n - 1) = IF 0 > n - 1 THEN 0 ELSE (n - 1) - 0 + 1
      BY <3>1, FS_Interval, Zenon
    <3> QED
      BY <1>1, <3>2
  <2>2. f \in [Part -> 0 .. Cardinality(Part) - 1] /\ \A i, j \in Part : f[i] = f[j] => i = j
    BY <1>1, <1>3, <2>1
  <2> HIDE DEF f, Part
  <2>3. \A k \in 0 .. Cardinality(Part) - 1 : \E i \in Part : f[i] = k
    BY <2>1, <2>2, PlacesFilled
  <2> QED
    BY <1>1, <2>1, <2>3 DEF f
<1>5. ASSUME NEW j \in Part
      PROVE  /\ fsm.driver[j].kind # "none"
             /\ fsm.driver[j].kind = given.driver[j].kind
  <2>1. PICK i \in Part : moved[i] = j
    BY <1>4
  <2>2. fsm.driver[j].kind = given.driver[i].kind /\ given.driver[i].kind # "none"
    BY <1>2, <1>3, <2>1 DEF Driven, Kind
  <2>3. CASE i \notin Gates(given)
    BY <1>1, <2>1, <2>2, <2>3
  <2>4. CASE i \in Gates(given)
    <3>1. j \in Gates(given)
      BY <1>1, <1>3, <2>1, <2>4
    <3> QED
      BY <2>2, <2>4, <3>1 DEF Gates, Kind
  <2> QED
    BY <2>3, <2>4
<1> QED
  BY <1>1, <1>5 DEF Driven, Inputs, Latches, Gates, Kind

(* What had an order keeps it: inputs and latches always, gates when they   *)
(* were ordered, as then they are a valid prefix of the compacted FSM.      *)
LEMMA OrderKept ==
  ASSUME NInv, pc = "done", phase = "grouped"
  PROVE  /\ \A i, j \in Inputs(original) : i < j => Now[i] < Now[j]
         /\ \A i, j \in Latches(original) : i < j => Now[i] < Now[j]
         /\ OrderedGates(original) => \A i, j \in Gates(original) : i < j => Now[i] < Now[j]
<1>1. /\ WellFormed(original) /\ FullyDriven(original) /\ place = PlaceOf(original)
      /\ given = Compacted(original, place) /\ Carried(original, given, place)
      /\ WellFormed(given) /\ given.size \in Nat
  BY GivenCarriesOriginal DEF NInv, Staged, WellFormed
<1>2. \A i \in Driven(original) : /\ place[i] \in Driven(given) /\ Now[i] = moved[place[i]]
                                  /\ given.driver[place[i]].kind = original.driver[i].kind
  BY <1>1, ResultCarriesOriginal, CarriedKinds
<1>3. /\ Inputs(original) \subseteq Driven(original) /\ Latches(original) \subseteq Driven(original)
      /\ Gates(original) \subseteq Driven(original)
  BY DEF Inputs, Latches, Gates, Kind, Driven
<1>4. \A i \in Inputs(original) \cup Latches(original) : Now[i] = place[i]
  <2> TAKE i \in Inputs(original) \cup Latches(original)
  <2>1. /\ i \in Driven(original) /\ place[i] \in VarsOf(given)
        /\ given.driver[place[i]].kind # "gate"
    BY <1>2, <1>3 DEF Inputs, Latches, Kind, Driven
  <2>2. place[i] \in VarsOf(given) \ Gates(given)
    BY <2>1 DEF Gates, Kind
  <2> QED
    BY <1>2, <2>1, <2>2 DEF NInv, Finished
<1>5. ASSUME OrderedGates(original) PROVE \A i \in Gates(original) : Now[i] = place[i]
  <2>1. OrderedGates(given) /\ Driven(given) = VarsOf(given)
    BY <1>1, <1>5, GroupingKeepsOrder, CompactedLayout
  <2>2. given.size \in 0 .. given.size /\ ValidUpTo(given, given.size)
    BY <1>1, <2>1 DEF ValidUpTo, OrderedGates, VarsOf
  <2>3. \A i \in 0 .. given.size - 1 : moved[i] = i
    BY <2>2 DEF NInv, PInv, ValidPrefixKept
  <2> QED
    BY <1>2, <1>3, <2>1, <2>3 DEF VarsOf
<1> QED
  BY <1>1, <1>4, <1>5, GroupingPlaces

(* normalize_ordering returns the layout of binary AIGER for every FSM:     *)
(* inputs, latches and gates follow each other without a gap, gates are     *)
(* ordered, and what had an order keeps it.                                 *)
THEOREM NormalizeMeetsLayout == NormalizeSpec => []BinaryLayout
<1>1. NInv => BinaryLayout
  <2> SUFFICES ASSUME NInv, phase = "grouped", pc = "done" PROVE BinaryLayout
    BY DEF BinaryLayout
  <2>1. /\ \A i \in Inputs(given), l \in Latches(given) : i < l
        /\ \A i \in Inputs(given) \cup Latches(given), g \in Gates(given) : i < g
    BY CompactedLayout DEF NInv, Staged
  <2>2. /\ \A i \in Inputs(fsm), l \in Latches(fsm) : i < l
        /\ \A i \in Inputs(fsm) \cup Latches(fsm), g \in Gates(fsm) : i < g
    BY <2>1, GatesStayLast
  <2>3. Verify(fsm) /\ Driven(fsm) = VarsOf(fsm)
    BY GatesStayLast DEF NInv, IInv, DoneIsVerified
  <2>4. ASSUME NEW kind \in {"input", "latch", "gate"}, kind # "gate" \/ OrderedGates(original)
        PROVE  \A i, j \in Kind(original, kind) : i < j => Now[i] < Now[j]
    BY <2>4, OrderKept DEF Inputs, Latches, Gates
  <2> QED
    BY <2>2, <2>3, <2>4 DEF BinaryLayout
<1> QED
  BY <1>1, NormalizeInvariance, PTL

--------------------------------------------------------------------------------
(****************************************************************************)
(* What export::prepare guarantees for every FSM and every options: the     *)
(* exported FSM is the given circuit under another numbering and polarity,  *)
(* the writers accept it, and preparation panics on nothing else than a     *)
(* cycle of gates or a gate that is not last.                               *)
(****************************************************************************)

ExportOptions == [zeroInit : BOOLEAN, assertion : Nat, cover : Nat]
(* What reorder_gates is given.                                            *)
Prepared(m, o) == NormalizedOutputs(Chosen(m, o))

--------------------------------------------------------------------------------
(* FSMs of the same size and kinds of drivers have the same parts.          *)
LEMMA SameKinds ==
  ASSUME NEW m, NEW n, n.size = m.size,
         \A i \in VarsOf(m) : n.driver[i].kind = m.driver[i].kind
  PROVE  /\ VarsOf(n) = VarsOf(m) /\ Inputs(n) = Inputs(m) /\ Latches(n) = Latches(m)
         /\ Gates(n) = Gates(m) /\ Driven(n) = Driven(m)
BY DEF VarsOf, Inputs, Latches, Gates, Driven, Kind

(* Zero initialisation changes reset values only.                          *)
LEMMA AskedKeeps ==
  ASSUME NEW m, WellFormed(m), FullyDriven(m), NEW o
  PROVE  /\ WellFormed(Asked(m, o)) /\ FullyDriven(Asked(m, o))
         /\ Asked(m, o).size = m.size /\ Asked(m, o).refs = m.refs
         /\ Flipped(Asked(m, o)) = Flipped(m)
<1> DEFINE a == Asked(m, o)
<1>1. m.size \in Nat /\ m \in Machine(m.size)
  BY DEF WellFormed
<1>2. /\ a.size = m.size /\ a.label = m.label /\ a.refs = m.refs
      /\ a.driver = [i \in VarsOf(m) |-> ZeroInit(m.driver[i], o.zeroInit)]
      /\ a = [size |-> a.size, driver |-> a.driver, label |-> a.label, refs |-> a.refs]
  <2> DEFINE f == [i \in VarsOf(m) |-> ZeroInit(m.driver[i], o.zeroInit)]
  <2>1. a = [m EXCEPT !.driver = f]
    BY Zenon DEF Asked
  <2> HIDE DEF f
  <2>2. /\ a.size = m.size /\ a.label = m.label /\ a.refs = m.refs /\ a.driver = f
        /\ a = [size |-> a.size, driver |-> a.driver, label |-> a.label, refs |-> a.refs]
    BY <1>1, <2>1 DEF Machine
  <2> QED
    BY <2>2, Zenon DEF f
<1>3. ASSUME NEW i \in VarsOf(m)
      PROVE  /\ a.driver[i] \in Drivers(m.size) /\ a.driver[i].kind = m.driver[i].kind
             /\ i \in Gates(m) => a.driver[i] = m.driver[i]
             /\ i \in Latches(m) => /\ a.driver[i].sign = m.driver[i].sign
                                    /\ a.driver[i].input = m.driver[i].input
  <2> DEFINE d == m.driver[i]
  <2>1. d \in Drivers(m.size) /\ a.driver[i] = ZeroInit(d, o.zeroInit)
    BY <1>2, DriverShape
  <2>2. CASE o.zeroInit /\ d.kind = "latch"
    <3>1. d \in LatchDrivers(m.size) /\ a.driver[i] = [d EXCEPT !.reset = "0"] /\ i \notin Gates(m)
      BY <2>1, <2>2, DriverShape DEF ZeroInit, Latches, Gates, Kind
    <3>2. [d EXCEPT !.reset = "0"] \in LatchDrivers(m.size)
      BY <3>1 DEF LatchDrivers, Ternary
    <3> QED
      BY <3>1, <3>2 DEF Drivers, LatchDrivers
  <2>3. CASE ~(o.zeroInit /\ d.kind = "latch")
    BY <2>1, <2>3 DEF ZeroInit
  <2> QED
    BY <2>2, <2>3
<1>4. WellFormed(a)
  BY <1>1, <1>2, <1>3 DEF WellFormed, Machine, VarsOf
<1> HIDE DEF a
<1>5. /\ VarsOf(a) = VarsOf(m) /\ Latches(a) = Latches(m) /\ Gates(a) = Gates(m)
      /\ Driven(a) = Driven(m)
  BY <1>2, <1>3, SameKinds
<1>6. Gates(m) \subseteq VarsOf(m) /\ Latches(m) \subseteq VarsOf(m)
  BY DEF Gates, Latches, Kind
<1>7. FullyDriven(a)
  BY <1>2, <1>3, <1>5, <1>6 DEF FullyDriven, IsDriven
<1>8. Flipped(a) = Flipped(m)
  BY <1>3, <1>5, <1>6 DEF Flipped
<1> QED
  BY <1>2, <1>4, <1>7, <1>8 DEF a

(* The inverse of a value is a value on the same variable.                 *)
LEMMA InverseTyped ==
  ASSUME NEW n \in Nat, NEW v \in Values(n)
  PROVE  /\ Xor(v, TRUE) \in Values(n) /\ Xor(v, TRUE).index = v.index
         /\ Xor(v, TRUE).sign = ~v.sign
<1>1. v.sign \in BOOLEAN /\ v.index \in {NoVar} \cup 0 .. n - 1
      /\ v = [index |-> v.index, sign |-> v.sign]
  BY DEF Values
<1>2. Xor(v, TRUE) = [v EXCEPT !.sign = ~v.sign]
  BY <1>1 DEF Xor
<1>3. [v EXCEPT !.sign = ~v.sign] = [index |-> v.index, sign |-> ~v.sign]
  BY <1>1
<1> QED
  BY <1>1, <1>2, <1>3 DEF Values

(* Property selection changes the lists only, and lists what is driven.    *)
LEMMA ChosenKeeps ==
  ASSUME NEW m, WellFormed(m), FullyDriven(m), NEW o \in ExportOptions, Selectable(m, o)
  PROVE  /\ WellFormed(Chosen(m, o)) /\ FullyDriven(Chosen(m, o))
         /\ Chosen(m, o).size = m.size /\ Chosen(m, o).driver = m.driver
         /\ \A list \in Lists : Chosen(m, o).refs[list] = Selected(m, o, list)
<1> DEFINE c == Chosen(m, o)
<1>1. m.size \in Nat /\ m \in Machine(m.size)
  BY DEF WellFormed
<1>2. /\ c.size = m.size /\ c.label = m.label /\ c.driver = m.driver
      /\ c.refs = [list \in Lists |-> Selected(m, o, list)]
      /\ c = [size |-> c.size, driver |-> c.driver, label |-> c.label, refs |-> c.refs]
  <2> DEFINE r == [list \in Lists |-> Selected(m, o, list)]
  <2>1. c = [m EXCEPT !.refs = r]
    BY Zenon DEF Chosen
  <2> HIDE DEF r, c
  <2>2. /\ c.size = m.size /\ c.label = m.label /\ c.driver = m.driver /\ c.refs = r
        /\ c = [size |-> c.size, driver |-> c.driver, label |-> c.label, refs |-> c.refs]
    BY <1>1, <2>1 DEF Machine
  <2> QED
    BY <2>2, Zenon DEF r
<1>3. ASSUME NEW list \in Lists
      PROVE  /\ Selected(m, o, list) \in Seq(Values(m.size))
             /\ \A k \in DOMAIN Selected(m, o, list) : IsDriven(m, Selected(m, o, list)[k])
  <2> DEFINE s == Selected(m, o, list)
  <2>1. \A x \in Lists : /\ m.refs[x] \in Seq(Values(m.size))
                         /\ DOMAIN m.refs[x] = 1 .. Len(m.refs[x]) /\ Len(m.refs[x]) \in Nat
                         /\ \A k \in DOMAIN m.refs[x] : m.refs[x][k] \in Values(m.size) /\ IsDriven(m, m.refs[x][k])
    BY ListDriven
  <2>2. CASE list = "covers"
    <3>1. s = <<>>
      BY <2>2 DEF Selected
    <3> QED
      BY <3>1
  <2>3. CASE list = "asserts" /\ o.assertion # None
    <3>1. s = <<m.refs["asserts"][o.assertion]>>
      <4>1. o.cover = None /\ list # "covers"
        BY <2>3 DEF Selectable
      <4> QED
        BY <2>3, <4>1 DEF Selected
    <3>2. o.assertion \in DOMAIN m.refs["asserts"]
      BY <2>1, <2>3 DEF Selectable, ExportOptions, Lists, None
    <3>3. /\ m.refs["asserts"][o.assertion] \in Values(m.size)
          /\ IsDriven(m, m.refs["asserts"][o.assertion])
      BY <2>1, <3>2 DEF Lists
    <3> QED
      BY <3>1, <3>3
  <2>4. CASE list = "asserts" /\ o.assertion = None /\ o.cover # None
    <3> DEFINE v == m.refs["covers"][o.cover]
               w == Xor(v, TRUE)
    <3>1. s = <<w>>
      BY <2>4 DEF Selected
    <3>2. o.cover \in DOMAIN m.refs["covers"]
      BY <2>1, <2>4 DEF Selectable, ExportOptions, Lists, None
    <3>3. v \in Values(m.size) /\ IsDriven(m, v)
      BY <2>1, <3>2 DEF Lists
    <3>4. w \in Values(m.size) /\ w.index = v.index
      BY <1>1, <3>3, InverseTyped
    <3>5. IsDriven(m, w)
      BY <3>3, <3>4 DEF IsDriven
    <3> HIDE DEF v, w
    <3> QED
      BY <3>1, <3>4, <3>5
  <2>5. CASE list # "covers" /\ ~(list = "asserts" /\ (o.assertion # None \/ o.cover # None))
    <3>1. s = m.refs[list]
      BY <2>5 DEF Selected
    <3> QED
      BY <2>1, <3>1
  <2>6. o.assertion # None => o.cover = None
    BY DEF Selectable
  <2> QED
    BY <2>2, <2>3, <2>4, <2>5, <2>6, Zenon
<1>4. WellFormed(c)
  BY <1>1, <1>2, <1>3 DEF WellFormed, Machine
<1> HIDE DEF c
<1>5. /\ VarsOf(c) = VarsOf(m) /\ Latches(c) = Latches(m) /\ Gates(c) = Gates(m)
      /\ Driven(c) = Driven(m)
  BY <1>2, SameKinds
<1>6. \A v : IsDriven(c, v) <=> IsDriven(m, v)
  BY <1>5 DEF IsDriven
<1>7. FullyDriven(c)
  BY <1>2, <1>3, <1>5, <1>6 DEF FullyDriven
<1> QED
  BY <1>2, <1>4, <1>7 DEF c

--------------------------------------------------------------------------------
(* Inverting the uses of a flipped variable changes a sign, no variable.   *)
LEMMA FlipTyped ==
  ASSUME NEW m, WellFormed(m), NEW v \in Values(m.size)
  PROVE  /\ Flip(m, v) \in Values(m.size) /\ Flip(m, v).index = v.index
         /\ Flip(m, v).sign = (v.sign # (v.index \in Flipped(m)))
         /\ v.index = NoVar => Flip(m, v) = v
         /\ IsDriven(m, v) => IsDriven(m, Flip(m, v))
<1>1. m.size \in Nat /\ v.sign \in BOOLEAN
  BY DEF WellFormed, Values
<1>2. v.index = NoVar => v.index \notin Flipped(m)
  BY DEF Flipped, Latches, Gates, Kind, VarsOf, NoVar
<1>3. CASE v.index \in Flipped(m)
  BY <1>1, <1>2, <1>3, InverseTyped DEF Flip, IsDriven
<1>4. CASE v.index \notin Flipped(m)
  BY <1>1, <1>4 DEF Flip
<1> QED
  BY <1>3, <1>4

(* What normalize_outputs makes of a gate and of a latch d of m.            *)
ExportedGate(m, d, e) ==
  /\ e.sign \in BOOLEAN /\ (e.sign <=> d.type = "And") /\ e.type = d.type
  /\ Precedes(e.a, e.b) /\ GateInputs(e) = {Flip(m, d.a), Flip(m, d.b)}
ExportedLatch(m, d, e) == e.sign = TRUE /\ e.reset = d.reset /\ e.input = Flip(m, d.input)

(* It keeps every driver's kind; gates and latches get the polarity of the  *)
(* exporter and flipped operands, latches keep their reset.                *)
LEMMA NormalizedGate ==
  ASSUME NEW m, WellFormed(m), FullyDriven(m), NEW g \in Gates(m),
         NEW e, e = NormalizedDriver(m, m.driver[g])
  PROVE  e \in Drivers(m.size) /\ e.kind = "gate" /\ ExportedGate(m, m.driver[g], e)
<1> DEFINE d == m.driver[g]
           s == d.type = "And"
           fa == Flip(m, d.a)
           fb == Flip(m, d.b)
<1>1. m.size \in Nat /\ d \in GateDrivers(m.size) /\ d.kind = "gate"
  BY DriverShape DEF Gates, Kind
<1>2. d.type \in {"And", "Or"} /\ s \in BOOLEAN /\ d.a \in Values(m.size) /\ d.b \in Values(m.size)
  BY <1>1 DEF GateDrivers
<1>3. fa \in Values(m.size) /\ fb \in Values(m.size)
  BY <1>2, FlipTyped
<1>4. e = GateDriver(s, d.type, fa, fb)
  BY <1>1 DEF NormalizedDriver
<1> HIDE DEF s, fa, fb, d
<1>5. /\ e \in GateDrivers(m.size) /\ GateInputs(e) = {fa, fb} /\ Precedes(e.a, e.b)
  BY <1>1, <1>2, <1>3, <1>4, GateDriverSorts
<1>6. e.sign = s /\ e.type = d.type
  BY <1>4 DEF GateDriver, SortInputs
<1>7. e.kind = "gate" /\ e \in Drivers(m.size)
  BY <1>5 DEF GateDrivers, Drivers
<1>8. ExportedGate(m, d, e)
  BY <1>2, <1>5, <1>6, Zenon DEF ExportedGate, s, fa, fb
<1> QED
  BY <1>7, <1>8 DEF d

LEMMA NormalizedDrivers ==
  ASSUME NEW m, WellFormed(m), FullyDriven(m), NEW i \in VarsOf(m),
         NEW e, e = NormalizedDriver(m, m.driver[i])
  PROVE  /\ e \in Drivers(m.size) /\ e.kind = m.driver[i].kind
         /\ i \in Gates(m) => ExportedGate(m, m.driver[i], e)
         /\ i \in Latches(m) => ExportedLatch(m, m.driver[i], e)
<1> DEFINE d == m.driver[i]
<1>1. m.size \in Nat /\ d \in Drivers(m.size)
  BY DriverShape
<1>2. CASE i \in Gates(m)
  <2>1. d.kind = "gate" /\ i \notin Latches(m)
    BY <1>2 DEF Gates, Latches, Kind
  <2>2. e \in Drivers(m.size) /\ e.kind = "gate" /\ ExportedGate(m, d, e)
    BY <1>2, NormalizedGate
  <2> QED
    BY <2>1, <2>2
<1>3. CASE i \in Latches(m)
  <2>1. d \in LatchDrivers(m.size) /\ d.kind = "latch" /\ i \notin Gates(m)
    BY <1>3, DriverShape DEF Gates, Latches, Kind
  <2>2. Flip(m, d.input) \in Values(m.size) /\ d.reset \in Ternary
    BY <2>1, FlipTyped DEF LatchDrivers
  <2>3. e = LatchDriver(TRUE, Flip(m, d.input), d.reset)
    BY <2>1 DEF NormalizedDriver
  <2> HIDE DEF d
  <2>4. e \in LatchDrivers(m.size) /\ e.kind = "latch" /\ ExportedLatch(m, d, e)
    BY <2>2, <2>3 DEF LatchDriver, LatchDrivers, ExportedLatch
  <2> QED
    BY <2>1, <2>4 DEF d, Drivers
<1>4. CASE i \notin Gates(m) \cup Latches(m)
  <2>1. d.kind # "gate" /\ d.kind # "latch"
    BY <1>4 DEF Gates, Latches, Kind
  <2>2. e = d
    BY <2>1 DEF NormalizedDriver
  <2> QED
    BY <1>1, <1>4, <2>2
<1> QED
  BY <1>2, <1>3, <1>4

LEMMA NormalizedKeeps ==
  ASSUME NEW m, WellFormed(m), FullyDriven(m), NEW n, n = NormalizedOutputs(m)
  PROVE  /\ WellFormed(n) /\ FullyDriven(n) /\ n.size = m.size
         /\ VarsOf(n) = VarsOf(m) /\ Inputs(n) = Inputs(m) /\ Latches(n) = Latches(m)
         /\ Gates(n) = Gates(m) /\ Driven(n) = Driven(m)
         /\ \A i \in VarsOf(m) : n.driver[i] = NormalizedDriver(m, m.driver[i])
         /\ \A list \in Lists :
              n.refs[list] = [k \in DOMAIN m.refs[list] |-> Flip(m, m.refs[list][k])]
<1>1. m.size \in Nat /\ m \in Machine(m.size)
  BY DEF WellFormed
<1>2. /\ n.size = m.size /\ n.label = m.label
      /\ n.driver = [i \in VarsOf(m) |-> NormalizedDriver(m, m.driver[i])]
      /\ n.refs = [list \in Lists |-> [k \in DOMAIN m.refs[list] |-> Flip(m, m.refs[list][k])]]
      /\ n = [size |-> n.size, driver |-> n.driver, label |-> n.label, refs |-> n.refs]
  <2> DEFINE f == [i \in VarsOf(m) |-> NormalizedDriver(m, m.driver[i])]
             r == [list \in Lists |-> [k \in DOMAIN m.refs[list] |-> Flip(m, m.refs[list][k])]]
  <2>1. n = [m EXCEPT !.driver = f, !.refs = r]
    BY Zenon DEF NormalizedOutputs
  <2> HIDE DEF f, r
  <2>2. /\ n.size = m.size /\ n.label = m.label /\ n.driver = f /\ n.refs = r
        /\ n = [size |-> n.size, driver |-> n.driver, label |-> n.label, refs |-> n.refs]
    BY <1>1, <2>1 DEF Machine
  <2> QED
    BY <2>2, Zenon DEF f, r
<1>3. ASSUME NEW i \in VarsOf(m)
      PROVE  n.driver[i] \in Drivers(m.size) /\ n.driver[i].kind = m.driver[i].kind
  <2>1. n.driver[i] = NormalizedDriver(m, m.driver[i])
    BY <1>2
  <2> QED
    BY <2>1, NormalizedDrivers
<1>4. ASSUME NEW list \in Lists
      PROVE  /\ n.refs[list] = [k \in DOMAIN m.refs[list] |-> Flip(m, m.refs[list][k])]
             /\ n.refs[list] \in Seq(Values(m.size))
             /\ \A k \in DOMAIN n.refs[list] : IsDriven(m, n.refs[list][k])
  <2>1. n.refs[list] = [k \in DOMAIN m.refs[list] |-> Flip(m, m.refs[list][k])]
    BY <1>2
  <2>2. /\ DOMAIN m.refs[list] = 1 .. Len(m.refs[list]) /\ Len(m.refs[list]) \in Nat
        /\ \A k \in DOMAIN m.refs[list] : /\ m.refs[list][k] \in Values(m.size)
                                          /\ IsDriven(m, m.refs[list][k])
    BY ListDriven
  <2>3. \A k \in DOMAIN m.refs[list] : /\ n.refs[list][k] \in Values(m.size)
                                       /\ IsDriven(m, n.refs[list][k])
    BY <2>1, <2>2, FlipTyped
  <2>4. n.refs[list] \in Seq(Values(m.size))
    BY <2>1, <2>2, <2>3
  <2> QED
    BY <2>1, <2>3, <2>4
<1>5. WellFormed(n)
  BY <1>1, <1>2, <1>3, <1>4 DEF WellFormed, Machine, VarsOf
<1>6. /\ VarsOf(n) = VarsOf(m) /\ Inputs(n) = Inputs(m) /\ Latches(n) = Latches(m)
      /\ Gates(n) = Gates(m) /\ Driven(n) = Driven(m)
  BY <1>2, <1>3, SameKinds
<1>7. \A v : IsDriven(n, v) <=> IsDriven(m, v)
  BY <1>6 DEF IsDriven
<1>8. ASSUME NEW g \in Gates(m)
      PROVE  /\ \A v \in GateInputs(n.driver[g]) : IsDriven(n, v)
             /\ Precedes(n.driver[g].a, n.driver[g].b)
  <2>1. g \in VarsOf(m)
    BY DEF Gates, Kind
  <2>2. /\ GateInputs(n.driver[g]) = {Flip(m, m.driver[g].a), Flip(m, m.driver[g].b)}
        /\ Precedes(n.driver[g].a, n.driver[g].b)
    <3>1. n.driver[g] = NormalizedDriver(m, m.driver[g])
      BY <1>2, <2>1
    <3>2. ExportedGate(m, m.driver[g], n.driver[g])
      BY <2>1, <3>1, NormalizedGate
    <3> QED
      BY <3>2 DEF ExportedGate
  <2>3. IsDriven(m, Flip(m, m.driver[g].a)) /\ IsDriven(m, Flip(m, m.driver[g].b))
    BY <2>1, OperandsDriven, FlipTyped
  <2> QED
    BY <1>7, <2>2, <2>3
<1>9. ASSUME NEW l \in Latches(m) PROVE IsDriven(n, n.driver[l].input)
  <2>1. l \in VarsOf(m)
    BY DEF Latches, Kind
  <2>2. n.driver[l].input = Flip(m, m.driver[l].input)
    <3>1. n.driver[l] = NormalizedDriver(m, m.driver[l])
      BY <1>2, <2>1
    <3>2. ExportedLatch(m, m.driver[l], n.driver[l])
      BY <2>1, <3>1, NormalizedDrivers
    <3> QED
      BY <3>2 DEF ExportedLatch
  <2>3. IsDriven(m, Flip(m, m.driver[l].input))
    BY <2>1, OperandsDriven, FlipTyped
  <2> QED
    BY <1>7, <2>2, <2>3
<1>10. FullyDriven(n)
  BY <1>4, <1>6, <1>7, <1>8, <1>9 DEF FullyDriven
<1> QED
  BY <1>2, <1>4, <1>5, <1>6, <1>10

(****************************************************************************)
(* All of it: the FSM n that reorder_gates is given has the parts of the    *)
(* design m, its drivers normalised, and exposes the selected values.       *)
(****************************************************************************)
Normalised(m, o, n) ==
  /\ \A g \in Gates(m) :
       /\ n.driver[g].sign \in BOOLEAN /\ (n.driver[g].sign <=> m.driver[g].type = "And")
       /\ n.driver[g].type = m.driver[g].type
       /\ GateInputs(n.driver[g]) = {Flip(m, m.driver[g].a), Flip(m, m.driver[g].b)}
       /\ Deps(n, g) = Deps(m, g)
  /\ \A l \in Latches(m) :
       /\ n.driver[l].sign = TRUE /\ n.driver[l].reset = m.driver[l].reset
       /\ n.driver[l].input = Flip(m, m.driver[l].input)
  /\ \A list \in Lists :
       n.refs[list] = [k \in DOMAIN Selected(m, o, list) |-> Flip(m, Selected(m, o, list)[k])]
LEMMA PreparedKeeps ==
  ASSUME NEW m, WellFormed(m), FullyDriven(m), NEW o \in ExportOptions, Selectable(m, o),
         NEW n, n = Prepared(m, o)
  PROVE  /\ WellFormed(n) /\ FullyDriven(n) /\ n.size = m.size
         /\ VarsOf(n) = VarsOf(m) /\ Inputs(n) = Inputs(m) /\ Latches(n) = Latches(m)
         /\ Gates(n) = Gates(m) /\ Driven(n) = Driven(m)
         /\ Normalised(m, o, n)
<1> DEFINE c == Chosen(m, o)
<1>1. /\ WellFormed(c) /\ FullyDriven(c) /\ c.size = m.size /\ c.driver = m.driver
      /\ \A list \in Lists : c.refs[list] = Selected(m, o, list)
  BY ChosenKeeps
<1>2. n = NormalizedOutputs(c)
  BY DEF Prepared
<1> HIDE DEF c
<1>3. /\ VarsOf(c) = VarsOf(m) /\ Inputs(c) = Inputs(m) /\ Latches(c) = Latches(m)
      /\ Gates(c) = Gates(m) /\ Driven(c) = Driven(m)
  BY <1>1, SameKinds
<1>4. Flipped(c) = Flipped(m)
  BY <1>1, <1>3 DEF Flipped
<1>5. \A v : Flip(c, v) = Flip(m, v)
  BY <1>4 DEF Flip
<1>6. /\ WellFormed(n) /\ FullyDriven(n) /\ n.size = c.size
      /\ VarsOf(n) = VarsOf(c) /\ Inputs(n) = Inputs(c) /\ Latches(n) = Latches(c)
      /\ Gates(n) = Gates(c) /\ Driven(n) = Driven(c)
      /\ \A i \in VarsOf(c) : n.driver[i] = NormalizedDriver(c, c.driver[i])
      /\ \A list \in Lists :
           n.refs[list] = [k \in DOMAIN c.refs[list] |-> Flip(c, c.refs[list][k])]
  BY <1>1, <1>2, NormalizedKeeps
<1>7. ASSUME NEW g \in Gates(m)
      PROVE  /\ n.driver[g].sign \in BOOLEAN /\ (n.driver[g].sign <=> m.driver[g].type = "And")
             /\ n.driver[g].type = m.driver[g].type
             /\ GateInputs(n.driver[g]) = {Flip(m, m.driver[g].a), Flip(m, m.driver[g].b)}
             /\ Deps(n, g) = Deps(m, g)
  <2>1. g \in VarsOf(c) /\ g \in Gates(c) /\ g \in VarsOf(m)
    BY <1>3 DEF Gates, Kind
  <2>2. /\ n.driver[g].sign \in BOOLEAN /\ (n.driver[g].sign <=> m.driver[g].type = "And")
        /\ n.driver[g].type = m.driver[g].type
        /\ GateInputs(n.driver[g]) = {Flip(m, m.driver[g].a), Flip(m, m.driver[g].b)}
    <3>1. n.driver[g] = NormalizedDriver(c, c.driver[g]) /\ c.driver[g] = m.driver[g]
      BY <1>1, <1>6, <2>1
    <3>2. WellFormed(c) /\ FullyDriven(c) /\ c.driver = m.driver
      BY <1>1
    <3>3. ExportedGate(c, c.driver[g], n.driver[g])
      BY <2>1, <3>1, <3>2, NormalizedGate
    <3> QED
      BY <1>5, <3>1, <3>3, Zenon DEF ExportedGate
  <2>3. /\ Flip(m, m.driver[g].a).index = m.driver[g].a.index
        /\ Flip(m, m.driver[g].b).index = m.driver[g].b.index
    BY <2>1, OperandsDriven, FlipTyped
  <2>4. {v.index : v \in GateInputs(n.driver[g])} = {v.index : v \in GateInputs(m.driver[g])}
    BY <2>2, <2>3 DEF GateInputs
  <2> QED
    BY <1>3, <1>6, <2>2, <2>4 DEF Deps
<1>8. ASSUME NEW l \in Latches(m)
      PROVE  /\ n.driver[l].sign = TRUE /\ n.driver[l].reset = m.driver[l].reset
             /\ n.driver[l].input = Flip(m, m.driver[l].input)
  <2>1. l \in VarsOf(c) /\ l \in Latches(c)
    BY <1>3 DEF Latches, Kind
  <2>2. n.driver[l] = NormalizedDriver(c, c.driver[l]) /\ c.driver[l] = m.driver[l]
    BY <1>1, <1>6, <2>1
  <2>3. WellFormed(c) /\ FullyDriven(c) /\ c.driver = m.driver
    BY <1>1
  <2>4. ExportedLatch(c, c.driver[l], n.driver[l])
    BY <2>1, <2>2, <2>3, NormalizedDrivers
  <2> QED
    BY <1>5, <2>2, <2>4, Zenon DEF ExportedLatch
<1>9. ASSUME NEW list \in Lists
      PROVE  n.refs[list] = [k \in DOMAIN Selected(m, o, list) |-> Flip(m, Selected(m, o, list)[k])]
  BY <1>1, <1>5, <1>6
<1>10. Normalised(m, o, n)
  BY <1>7, <1>8, <1>9, Zenon DEF Normalised
<1> QED
  BY <1>1, <1>3, <1>6, <1>10

LEMMA PreparedTyped ==
  ASSUME NEW m, WellFormed(m), FullyDriven(m), NEW o \in ExportOptions, Selectable(m, o)
  PROVE  /\ WellFormed(Prepared(m, o)) /\ FullyDriven(Prepared(m, o))
         /\ Prepared(m, o).size = m.size
<1> DEFINE n == Prepared(m, o)
<1>1. n = Prepared(m, o)
  OBVIOUS
<1> HIDE DEF n
<1>2. WellFormed(n) /\ FullyDriven(n) /\ n.size = m.size
  BY <1>1, PreparedKeeps
<1> QED
  BY <1>2 DEF n

--------------------------------------------------------------------------------
(* The simulator names the parts of an FSM, and their meaning, as we do.    *)
LEMMA SimulatedParts ==
  ASSUME NEW m
  PROVE  /\ S!VarsOf(m) = VarsOf(m) /\ S!Inputs(m) = Inputs(m)
         /\ S!Latches(m) = Latches(m) /\ S!Gates(m) = Gates(m)
BY DEF S!VarsOf, S!Inputs, S!Latches, S!Gates, S!Kind, VarsOf, Inputs, Latches, Gates, Kind
LEMMA SimulatedSigned ==
  ASSUME NEW vals, NEW v, NEW t, NEW b
  PROVE  S!FlipTernary(t, b) = FlipTernary(t, b) /\ S!Signed(vals, v) = Signed(vals, v)
BY DEF S!FlipTernary, S!Signed, S!NoVar, FlipTernary, Signed, NoVar
LEMMA SimulatedValues ==
  ASSUME NEW m, NEW vals, NEW i
  PROVE  /\ S!LatchNext(m, vals, i) = LatchNext(m, vals, i)
         /\ S!LatchReset(m, i) = LatchReset(m, i)
         /\ S!GateValue(m, vals, i) = GateValue(m, vals, i)
<1> DEFINE d == m.driver[i]
<1>1. {S!Signed(vals, v) : v \in {d.a, d.b}} = {Signed(vals, v) : v \in {d.a, d.b}}
  BY SimulatedSigned
<1>2. ASSUME NEW t, NEW T PROVE S!EvalGate(t, T) = EvalGate(t, T)
  BY SimulatedSigned DEF S!EvalGate, EvalGate, S!Controlling, Controlling
<1>3. S!GateValue(m, vals, i) = GateValue(m, vals, i)
  BY <1>1, <1>2, SimulatedSigned DEF S!GateValue, GateValue, S!GateInputs, GateInputs
<1> QED
  BY <1>3, SimulatedSigned DEF S!LatchNext, LatchNext, S!LatchReset, LatchReset

(* What its calls do.                                                      *)
LEMMA SimulatedCalls ==
  /\ \A i, t : S!SetInput(i, t) =>
       /\ i \in Inputs(fsm) /\ cursor = fsm.size
       /\ fsm' = fsm /\ cursor' = cursor /\ fresh' = FALSE
       /\ values' = [values EXCEPT ![i] = t]
  /\ S!BeginEval =>
       /\ cursor = fsm.size
       /\ fsm' = fsm /\ cursor' = 0 /\ fresh' = (fsm.size = 0)
       /\ values' = values
  /\ S!EvalNext =>
       /\ cursor # fsm.size
       /\ fsm' = fsm /\ cursor' = cursor + 1
       /\ fresh' = (cursor + 1 = fsm.size)
       /\ values' = Pass(fsm, values, cursor)
  /\ S!ClockStep =>
       /\ cursor = fsm.size
       /\ fsm' = fsm /\ cursor' = cursor /\ fresh' = FALSE
       /\ values' = Edged(fsm, values)
<1>1. S!Clocked = Edged(fsm, values)
  BY SimulatedParts, SimulatedValues DEF S!Clocked, Edged
<1>2. \A i : S!Evaluated(i) = Pass(fsm, values, i)
  <2> TAKE i
  <2>1. S!Evaluated(i) = IF i \in S!Gates(fsm) THEN [values EXCEPT ![i] = S!GateValue(fsm, values, i)]
                         ELSE values
    BY DEF S!Evaluated
  <2>2. S!Gates(fsm) = Gates(fsm) /\ S!GateValue(fsm, values, i) = GateValue(fsm, values, i)
    BY SimulatedParts, SimulatedValues
  <2> QED
    BY <2>1, <2>2 DEF Pass
<1>3. S!ClockStep =>
       /\ cursor = fsm.size
       /\ fsm' = fsm /\ cursor' = cursor /\ fresh' = FALSE
       /\ values' = Edged(fsm, values)
  BY <1>1 DEF S!ClockStep, S!Overwrite, S!Idle
<1>4. S!EvalNext =>
       /\ cursor # fsm.size
       /\ fsm' = fsm /\ cursor' = cursor + 1
       /\ fresh' = (cursor + 1 = fsm.size)
       /\ values' = Pass(fsm, values, cursor)
  BY <1>2, Zenon DEF S!EvalNext, S!Idle
<1>5. S!BeginEval =>
       /\ cursor = fsm.size
       /\ fsm' = fsm /\ cursor' = 0 /\ fresh' = (fsm.size = 0)
       /\ values' = values
  BY Zenon DEF S!BeginEval, S!Idle
<1>6. \A i, t : S!SetInput(i, t) =>
       /\ i \in Inputs(fsm) /\ cursor = fsm.size
       /\ fsm' = fsm /\ cursor' = cursor /\ fresh' = FALSE
       /\ values' = [values EXCEPT ![i] = t]
  BY SimulatedParts DEF S!SetInput, S!SetVariable, S!Overwrite, S!Idle
<1> QED
  BY <1>3, <1>4, <1>5, <1>6

(* A simulator that was just built knows the reset values of latches.       *)
LEMMA SimulatedStart ==
  ASSUME NEW m, WellFormed(m), NEW k, k = S!WithReset(m, S!Unknown(m))
  PROVE  /\ k \in [VarsOf(m) -> Ternary]
         /\ \A i \in VarsOf(m) : k[i] = IF i \in Latches(m) THEN LatchReset(m, i) ELSE "X"
<1>1. k = [i \in VarsOf(m) |-> IF i \in Latches(m) THEN LatchReset(m, i) ELSE "X"]
  BY SimulatedParts, SimulatedValues DEF S!WithReset, S!Unknown
<1>2. [i \in VarsOf(m) |-> "X"] \in [VarsOf(m) -> Ternary]
  BY DEF Ternary
<1>3. \A l \in Latches(m) : LatchReset(m, l) \in Ternary
  BY <1>2, LatchValueType
<1> QED
  BY <1>1, <1>3 DEF Ternary

--------------------------------------------------------------------------------
(****************************************************************************)
(* The inductive invariant of a preparation: reorder_gates keeps its own,   *)
(* first on the FSM to export and then on what the earlier passes made of   *)
(* it; image follows the flips and then the renumbering; and the simulator  *)
(* of the result settles what eval passed.                                 *)
(****************************************************************************)
Asking ==
  /\ WellFormed(design) /\ FullyDriven(design) /\ design.size = fsm.size
  /\ options \in Options
  /\ stage \in {"prepare", "reorder", "run", "failed", "panicked"}
  /\ stage \in {"prepare", "failed"} => pc = "call" /\ queue = <<>> /\ design = Asked(fsm, options)
  /\ stage \notin {"prepare", "failed"} =>
       Selectable(design, options) /\ given = Prepared(design, options)
Imaged ==
  /\ stage \in {"reorder", "panicked"} =>
       image = [i \in VarsOf(design) |-> Lit(i, i \notin Flipped(design))]
  /\ stage = "run" =>
       image = [i \in VarsOf(design) |-> Lit(moved[i], i \notin Flipped(design))]
Simulating ==
  /\ stage \in {"prepare", "reorder"} => cursor = fsm.size /\ fresh = FALSE
  /\ stage = "run" => pc = "done" /\ Settles(fsm, values, cursor, fresh)
Refused == stage = "panicked" => pc \in {"misplaced", "cyclic"}
EInv == IInv /\ Finished /\ Asking /\ Imaged /\ Simulating /\ Refused

(* What the options are.                                                   *)
LEMMA OptionsTyped ==
  ASSUME Asking PROVE options \in ExportOptions
BY OptionsAssumption DEF Asking, ExportOptions

LEMMA ExportInitEstablishes == ExportInit => EInv
<1> SUFFICES ASSUME ExportInit PROVE EInv
  OBVIOUS
<1>1. IInv /\ pc = "call" /\ queue = <<>>
  BY InitEstablishesIInv DEF ExportInit, Init
<1>2. WellFormed(fsm) /\ FullyDriven(fsm)
  BY MachinesAssumption DEF ExportInit, Init
<1>3. Asking
  BY <1>1, <1>2, AskedKeeps DEF ExportInit, Asking
<1>4. Finished /\ Imaged /\ Simulating /\ Refused
  BY <1>1 DEF ExportInit, Finished, Imaged, Simulating, Refused
<1> QED
  BY <1>1, <1>3, <1>4 DEF EInv

(* The passes before reorder_gates leave an FSM it may be called on.       *)
LEMMA PreparePreservesEInv == EInv /\ Prepare => EInv'
<1> SUFFICES ASSUME EInv, Prepare PROVE EInv'
  OBVIOUS
<1> DEFINE c == Prepared(design, options)
<1>1. /\ pc = "call" /\ queue = <<>> /\ design = Asked(fsm, options) /\ given = fsm
      /\ WellFormed(fsm) /\ FullyDriven(fsm) /\ WellFormed(design) /\ FullyDriven(design)
      /\ assigned = {} /\ blocked = 0 /\ nextGate \in Nat /\ mapping = Identity(fsm)
      /\ moved = Identity(fsm) /\ options \in ExportOptions /\ cursor = fsm.size /\ fresh = FALSE
      /\ design.size = fsm.size
  BY OptionsTyped DEF EInv, Asking, Simulating, Prepare, IInv, Settled, TypeOK
<1>2. Selectable(design, options) /\ Flipped(design) = Flipped(fsm) /\ design.size = fsm.size
      /\ VarsOf(design) = VarsOf(fsm)
  <2>1. design.refs = fsm.refs /\ Flipped(design) = Flipped(fsm) /\ design.size = fsm.size
    BY <1>1, AskedKeeps
  <2> QED
    BY <2>1 DEF Selectable, Prepare, VarsOf
<1>3. /\ pc' = "call" /\ queue' = <<>> /\ assigned' = {} /\ blocked' = 0 /\ nextGate' \in Nat
      /\ mapping' = mapping /\ moved' = moved /\ stage' = "reorder" /\ fsm' = c /\ given' = c
      /\ UNCHANGED <<options, cursor, fresh, design>>
      /\ image' = [i \in VarsOf(fsm) |-> Lit(i, i \notin Flipped(fsm))]
  BY <1>1 DEF Prepare, walkVars, simVars, Prepared
<1>4. WellFormed(c) /\ FullyDriven(c) /\ c.size = fsm.size /\ Identity(c) = Identity(fsm)
  <2>1. WellFormed(c) /\ FullyDriven(c) /\ c.size = design.size
    BY <1>1, <1>2, PreparedTyped
  <2> QED
    BY <1>2, <2>1 DEF Identity, VarsOf
<1> HIDE DEF c
<1>5. TypeOK'
  <2>1. /\ pc' \in {"call", "walk"} \cup Ended /\ WellFormed(fsm') /\ WellFormed(given')
        /\ given'.size = fsm'.size /\ queue' \in Seq(VarsOf(fsm')) /\ assigned' \subseteq VarsOf(fsm')
        /\ nextGate' \in Nat /\ blocked' \in Nat
    BY <1>3, <1>4
  <2>2. Identity(c) \in [VarsOf(c) -> Nat]
    BY <1>4 DEF Identity, VarsOf, WellFormed
  <2> QED
    BY <1>1, <1>3, <1>4, <2>1, <2>2 DEF TypeOK
<1>6. Settled'
  BY <1>1, <1>3, <1>4 DEF Settled
<1>7. IInv'
  BY <1>3, <1>5, <1>6 DEF IInv, DoneIsVerified, NamesFollow
<1>8. Finished'
  BY <1>3 DEF Finished
<1>9. Asking'
  BY <1>1, <1>2, <1>3, <1>4 DEF EInv, Asking, c
<1>10. Imaged' /\ Simulating' /\ Refused'
  BY <1>1, <1>2, <1>3, <1>4 DEF Imaged, Simulating, Refused
<1> QED
  BY <1>7, <1>8, <1>9, <1>10 DEF EInv

LEMMA ReorderGatesPreservesEInv == EInv /\ ReorderGates => EInv'
<1> SUFFICES ASSUME EInv, ReorderGates PROVE EInv'
  OBVIOUS
<1>1. IInv /\ Finished /\ Step /\ stage = "reorder"
      /\ UNCHANGED <<stage, options, simVars, design, image>>
  BY DEF EInv, ReorderGates
<1>2. IInv' /\ Finished'
  BY <1>1, StepPreservesIInv, StepKeepsFinished
<1>3. given' = given
  BY <1>1 DEF Step, NothingToReorder, RejectLayout, Seed, Skip, Defer, Assign, Rebuild
<1>4. fsm'.size = fsm.size
  BY <1>2, <1>3 DEF EInv, IInv, TypeOK
<1>5. Asking' /\ Imaged' /\ Simulating' /\ Refused'
  BY <1>1, <1>3, <1>4 DEF EInv, Asking, Imaged, Simulating, Refused, simVars
<1> QED
  BY <1>2, <1>5 DEF EInv

(* The other steps touch neither the FSM nor the state of reorder_gates.    *)
LEMMA ReorderKept ==
  ASSUME EInv, fsm' = fsm, UNCHANGED reorderVars PROVE IInv' /\ Finished'
<1>1. UNCHANGED vars
  BY DEF reorderVars, vars
<1>2. IInv'
  BY <1>1, EndingPreservesIInv DEF EInv
<1>3. Finished'
  BY <1>1 DEF EInv, Finished, vars, walkVars
<1> QED
  BY <1>2, <1>3

LEMMA StartPreservesEInv == EInv /\ Start => EInv'
<1> SUFFICES ASSUME EInv, Start PROVE EInv'
  OBVIOUS
<1>1. /\ stage = "reorder" /\ pc = "done" /\ stage' = "run"
      /\ UNCHANGED <<options, fsm, reorderVars, cursor, fresh, design>>
      /\ values' = S!WithReset(fsm, S!Unknown(fsm))
      /\ image' = [i \in VarsOf(fsm) |-> Lit(moved[i], image[i].sign)]
  BY DEF Start
<1>2. IInv' /\ Finished'
  BY <1>1, ReorderKept
<1>3. pc' = pc /\ given' = given /\ moved' = moved /\ queue' = queue
  BY <1>1 DEF reorderVars, walkVars
<1>4. /\ WellFormed(fsm) /\ fsm.size \in Nat /\ design.size = fsm.size /\ VarsOf(design) = VarsOf(fsm)
      /\ cursor = fsm.size /\ fresh = FALSE
      /\ image = [i \in VarsOf(design) |-> Lit(i, i \notin Flipped(design))]
  BY <1>1 DEF EInv, IInv, TypeOK, WellFormed, Asking, Simulating, Imaged, VarsOf
<1>5. Asking'
  BY <1>1, <1>3 DEF EInv, Asking
<1>6. Imaged'
  <2>1. image' = [i \in VarsOf(design) |-> Lit(moved[i], i \notin Flipped(design))]
    BY <1>1, <1>4 DEF Lit
  <2> QED
    BY <1>1, <1>3, <2>1 DEF Imaged
<1>7. Simulating'
  <2>1. values' \in [VarsOf(fsm) -> Ternary]
    BY <1>1, <1>4, SimulatedStart
  <2>2. Settles(fsm, values', fsm.size, FALSE)
    BY <1>4, <2>1 DEF Settles
  <2> QED
    BY <1>1, <1>3, <1>4, <2>2 DEF Simulating
<1>8. Refused'
  BY <1>1 DEF Refused
<1> QED
  BY <1>2, <1>5, <1>6, <1>7, <1>8 DEF EInv

LEMMA PanicPreservesEInv == EInv /\ Panic => EInv'
<1> SUFFICES ASSUME EInv, Panic PROVE EInv'
  OBVIOUS
<1>1. /\ stage = "reorder" /\ stage' = "panicked" /\ pc \in Ended /\ (pc = "done" => ~Verify(fsm))
      /\ UNCHANGED <<options, fsm, reorderVars, simVars, design, image>>
  BY DEF Panic
<1>2. IInv' /\ Finished'
  BY <1>1, ReorderKept
<1>3. pc' = pc /\ given' = given /\ moved' = moved /\ queue' = queue
  BY <1>1 DEF reorderVars, walkVars
<1>4. pc # "done"
  BY <1>1 DEF EInv, IInv, DoneIsVerified
<1>5. Asking' /\ Imaged' /\ Simulating' /\ Refused'
  BY <1>1, <1>3, <1>4 DEF EInv, Asking, Imaged, Simulating, Refused, Ended
<1> QED
  BY <1>2, <1>5 DEF EInv

LEMMA RunPreservesEInv == EInv /\ Run => EInv'
<1> SUFFICES ASSUME EInv, Run PROVE EInv'
  OBVIOUS
<1>1. stage = "run" /\ UNCHANGED <<stage, options, reorderVars, design, image>>
  BY DEF Run
<1>2. /\ WellFormed(fsm) /\ fsm.size \in Nat /\ OrderedGates(fsm) /\ pc = "done"
      /\ Settles(fsm, values, cursor, fresh)
  BY <1>1 DEF EInv, Simulating, IInv, TypeOK, DoneIsVerified, Verify, WellFormed
<1>3. values \in [VarsOf(fsm) -> Ternary]
  BY <1>2 DEF Settles
<1>4. fsm' = fsm /\ Settles(fsm, values', cursor', fresh')
  <2>1. ASSUME NEW i \in VarsOf(fsm), NEW t \in Ternary, S!SetInput(i, t)
        PROVE  fsm' = fsm /\ Settles(fsm, values', cursor', fresh')
    <3>1. [values EXCEPT ![i] = t] \in [VarsOf(fsm) -> Ternary]
      BY <1>3
    <3>2. /\ fsm' = fsm /\ cursor' = fsm.size /\ fresh' = FALSE
          /\ values' = [values EXCEPT ![i] = t]
      BY <2>1, SimulatedCalls
    <3>3. Settles(fsm, [values EXCEPT ![i] = t], fsm.size, FALSE)
      BY <1>2, <3>1, SettlesCalls
    <3> QED
      BY <3>2, <3>3
  <2>2. CASE S!BeginEval
    <3>1. fsm' = fsm /\ cursor' = 0 /\ fresh' = (fsm.size = 0) /\ values' = values
      BY <2>2, SimulatedCalls, Zenon
    <3>2. Settles(fsm, values, 0, fsm.size = 0)
      BY <1>2, SettlesCalls, Zenon
    <3> QED
      BY <3>1, <3>2, Zenon
  <2>3. CASE S!EvalNext
    <3>1. /\ cursor # fsm.size /\ fsm' = fsm /\ cursor' = cursor + 1
          /\ fresh' = (cursor + 1 = fsm.size) /\ values' = Pass(fsm, values, cursor)
      BY <2>3, SimulatedCalls, Zenon
    <3>2. Settles(fsm, Pass(fsm, values, cursor), cursor + 1, cursor + 1 = fsm.size)
      BY <1>2, <3>1, SettlesCalls, Zenon
    <3> QED
      BY <3>1, <3>2, Zenon
  <2>4. CASE S!ClockStep
    <3>1. fsm' = fsm /\ cursor' = fsm.size /\ fresh' = FALSE /\ values' = Edged(fsm, values)
      BY <2>4, SimulatedCalls
    <3>2. Settles(fsm, Edged(fsm, values), fsm.size, FALSE)
      BY <1>2, SettlesCalls, Zenon
    <3> QED
      BY <3>1, <3>2, Zenon
  <2> QED
    BY <2>1, <2>2, <2>3, <2>4 DEF Run, S!Eval
<1>5. IInv' /\ Finished'
  BY <1>1, <1>4, ReorderKept
<1>6. pc' = pc /\ given' = given /\ moved' = moved /\ queue' = queue
  BY <1>1 DEF reorderVars, walkVars
<1>7. Asking' /\ Imaged' /\ Simulating' /\ Refused'
  BY <1>1, <1>2, <1>4, <1>6 DEF EInv, Asking, Imaged, Simulating, Refused
<1> QED
  BY <1>5, <1>7 DEF EInv

LEMMA StoppedPreservesEInv ==
  EInv /\ (RefuseSelection \/ UNCHANGED exportVars) => EInv'
<1> SUFFICES ASSUME EInv, RefuseSelection \/ UNCHANGED exportVars PROVE EInv'
  OBVIOUS
<1>1. /\ UNCHANGED <<options, fsm, reorderVars, simVars, design, image>>
      /\ stage' = stage \/ (stage = "prepare" /\ stage' = "failed")
  BY DEF RefuseSelection, exportVars
<1>2. IInv' /\ Finished'
  BY <1>1, ReorderKept
<1>3. pc' = pc /\ given' = given /\ moved' = moved /\ queue' = queue
      /\ cursor' = cursor /\ fresh' = fresh /\ values' = values
  BY <1>1 DEF reorderVars, walkVars, simVars
<1>4. Asking' /\ Imaged' /\ Simulating' /\ Refused'
  BY <1>1, <1>3 DEF EInv, Asking, Imaged, Simulating, Refused
<1> QED
  BY <1>2, <1>4 DEF EInv

(* The invariant holds throughout every preparation, and while its result   *)
(* is simulated.                                                           *)
THEOREM ExportInvariance == ExportSpec => []EInv
<1>1. EInv /\ [ExportNext]_exportVars => EInv'
  BY PreparePreservesEInv, ReorderGatesPreservesEInv, StartPreservesEInv, PanicPreservesEInv,
     RunPreservesEInv, StoppedPreservesEInv DEF ExportNext, Returned
<1> QED
  BY <1>1, ExportInitEstablishes, PTL DEF ExportSpec

--------------------------------------------------------------------------------
(* What reorder_gates was given is the design, prepared.                   *)
LEMMA GivenParts ==
  ASSUME EInv, stage \in {"reorder", "run", "panicked"}
  PROVE  /\ WellFormed(design) /\ FullyDriven(design) /\ options \in ExportOptions
         /\ Selectable(design, options) /\ given = Prepared(design, options)
         /\ WellFormed(given) /\ FullyDriven(given) /\ given.size = design.size
         /\ VarsOf(given) = VarsOf(design) /\ Driven(given) = Driven(design)
         /\ Inputs(given) = Inputs(design) /\ Latches(given) = Latches(design)
         /\ Gates(given) = Gates(design)
         /\ Normalised(design, options, given)
<1>1. /\ WellFormed(design) /\ FullyDriven(design) /\ options \in ExportOptions
      /\ Selectable(design, options) /\ given = Prepared(design, options)
  BY OptionsTyped DEF EInv, Asking
<1>2. /\ WellFormed(given) /\ FullyDriven(given) /\ given.size = design.size
      /\ VarsOf(given) = VarsOf(design) /\ Driven(given) = Driven(design)
      /\ Inputs(given) = Inputs(design) /\ Latches(given) = Latches(design)
      /\ Gates(given) = Gates(design) /\ Normalised(design, options, given)
  BY <1>1, PreparedKeeps
<1> QED
  BY <1>1, <1>2

(* Preparation panics on a cycle of gates of the design or a gate that is   *)
(* not last in it, and on nothing else: selection, zero initialisation and  *)
(* normalize_outputs make neither, and what reorder_gates returns verifies. *)
THEOREM PanicMeansDesignAtFault == ExportSpec => []PanicJustified
<1>1. EInv => PanicJustified
  <2> SUFFICES ASSUME EInv, stage = "panicked" PROVE Cyclic(design) \/ ~GatesLast(design)
    BY DEF PanicJustified
  <2>1. /\ Inputs(given) = Inputs(design) /\ Latches(given) = Latches(design)
        /\ Gates(given) = Gates(design)
        /\ \A g \in Gates(design) : Deps(given, g) = Deps(design, g)
    BY GivenParts DEF Normalised
  <2>2. CASE pc = "misplaced"
    <3>1. ~GatesLast(given)
      BY <2>2 DEF EInv, Finished
    <3>2. FirstGate(given) = FirstGate(design)
      BY <2>1 DEF FirstGate
    <3> QED
      BY <2>1, <3>1, <3>2 DEF GatesLast
  <2>3. CASE pc = "cyclic"
    <3>1. PICK T \in SUBSET Gates(given) : T # {} /\ \A g \in T : Deps(given, g) \cap T # {}
      BY <2>3, StuckGatesCycle DEF EInv, CycleAlarmJustified, Cyclic
    <3>2. T \in SUBSET Gates(design) /\ T # {} /\ \A g \in T : Deps(design, g) \cap T # {}
      BY <2>1, <3>1
    <3> QED
      BY <3>2 DEF Cyclic
  <2> QED
    BY <2>2, <2>3 DEF EInv, Refused
<1> QED
  BY <1>1, ExportInvariance, PTL

--------------------------------------------------------------------------------
(* Every driven variable of the result stands for one of the design: its    *)
(* kind is the same, and inputs and latches are where they were.            *)
LEMMA ResultOrigins ==
  ASSUME EInv, stage = "run"
  PROVE  /\ WellFormed(fsm) /\ VarsOf(fsm) = VarsOf(design)
         /\ \A k \in Driven(fsm) : \E i \in Driven(design) :
              moved[i] = k /\ fsm.driver[k].kind = given.driver[i].kind
         /\ \A i \in Driven(design) : /\ moved[i] \in VarsOf(fsm)
                                      /\ fsm.driver[moved[i]] = RenamedDriver(given.driver[i], moved)
                                      /\ fsm.driver[moved[i]].kind = given.driver[i].kind
                                      /\ \A j \in Driven(design) : moved[i] = moved[j] => i = j
         /\ \A i \in VarsOf(design) \ Gates(design) : moved[i] = i
         /\ Inputs(fsm) = Inputs(design) /\ Latches(fsm) = Latches(design)
<1>1. /\ pc = "done" /\ WellFormed(fsm) /\ WellFormed(given) /\ FullyDriven(given)
      /\ fsm.size = given.size /\ Carried(given, fsm, moved) /\ Onto(given, fsm, moved)
      /\ \A i \in VarsOf(given) \ Gates(given) : moved[i] = i
  BY GivenParts DEF EInv, Simulating, IInv, TypeOK, Finished
<1>2. /\ VarsOf(given) = VarsOf(design) /\ Driven(given) = Driven(design)
      /\ Inputs(given) = Inputs(design) /\ Latches(given) = Latches(design)
      /\ Gates(given) = Gates(design) /\ VarsOf(fsm) = VarsOf(given)
  BY <1>1, GivenParts DEF VarsOf
<1>3. \A i \in Driven(design) : /\ moved[i] \in VarsOf(fsm)
                                /\ fsm.driver[moved[i]] = RenamedDriver(given.driver[i], moved)
                                /\ fsm.driver[moved[i]].kind = given.driver[i].kind
                                /\ \A j \in Driven(design) : moved[i] = moved[j] => i = j
  <2>1. \A i \in Driven(given) : fsm.driver[moved[i]].kind = given.driver[i].kind
    BY <1>1, CarriedKinds
  <2> QED
    BY <1>1, <1>2, <2>1 DEF Carried
<1>4. \A k \in Driven(fsm) : \E i \in Driven(design) :
        moved[i] = k /\ fsm.driver[k].kind = given.driver[i].kind
  BY <1>1, <1>2, <1>3 DEF Onto
<1>5. ASSUME NEW k \in Driven(fsm), fsm.driver[k].kind # "gate"
      PROVE  k \in Driven(given) /\ given.driver[k].kind = fsm.driver[k].kind
  <2>1. PICK i \in Driven(design) : moved[i] = k /\ fsm.driver[k].kind = given.driver[i].kind
    BY <1>4
  <2>2. i \in VarsOf(given) \ Gates(given)
    BY <1>2, <1>5, <2>1 DEF Gates, Kind, Driven
  <2> QED
    BY <1>1, <1>2, <2>1, <2>2
<1>6. ASSUME NEW k \in Driven(given), given.driver[k].kind # "gate"
      PROVE  k \in VarsOf(fsm) /\ given.driver[k].kind = fsm.driver[k].kind
  <2>1. k \in VarsOf(given) \ Gates(given)
    BY <1>6 DEF Gates, Kind, Driven
  <2> QED
    BY <1>1, <1>2, <1>3, <2>1
<1>7. Inputs(fsm) = Inputs(given) /\ Latches(fsm) = Latches(given)
  BY <1>5, <1>6 DEF Inputs, Latches, Kind, Driven
<1> QED
  BY <1>1, <1>2, <1>3, <1>4, <1>7

(* Gates that follow the other drivers without a gap are moved among        *)
(* themselves, so the result has the layout of the design.                  *)
Packed(m) == /\ \A i \in Inputs(m) \cup Latches(m), g \in Gates(m) : i < g
             /\ Driven(m) = 0 .. Cardinality(Driven(m)) - 1
LEMMA GatesStayPacked ==
  ASSUME EInv, stage = "run", Packed(design)
  PROVE  /\ Gates(fsm) \subseteq Gates(design) /\ Driven(fsm) = Driven(design)
<1> DEFINE D == Driven(design)
           n == Cardinality(D)
           G == Gates(design)
<1>1. /\ WellFormed(design) /\ VarsOf(design) \subseteq Nat /\ IsFiniteSet(D) /\ n \in Nat
      /\ G \subseteq D /\ D = 0 .. n - 1 /\ D \subseteq VarsOf(design) /\ Gates(given) = G
  <2>1. WellFormed(design) /\ Gates(given) = G
    BY GivenParts
  <2>2. /\ VarsOf(design) \subseteq Nat /\ IsFiniteSet(VarsOf(design)) /\ D \subseteq VarsOf(design)
        /\ G \subseteq D
    BY <2>1, KindsOf DEF Driven
  <2>3. IsFiniteSet(D) /\ n \in Nat
    BY <2>2, FS_Subset, FS_CardinalityType
  <2> QED
    BY <2>1, <2>2, <2>3 DEF Packed
<1>2. \A g \in G : moved[g] \in G
  <2> SUFFICES ASSUME NEW g \in G PROVE moved[g] \in G
    OBVIOUS
  <2> DEFINE f == FirstGate(design)
  <2>1. f \in G /\ f \in Nat /\ \A h \in G : f <= h
    BY <1>1, FirstGateIsLeast
  <2>2. G = f .. n - 1
    <3>1. \A h \in G : h \in f .. n - 1
      BY <1>1, <2>1
    <3>2. ASSUME NEW k \in f .. n - 1 PROVE k \in G
      <4>1. k \in D
        BY <1>1, <2>1
      <4>2. k \notin Inputs(design) \cup Latches(design)
        BY <1>1, <2>1 DEF Packed
      <4> QED
        BY <1>1, <4>1, <4>2, KindsOf
    <3> QED
      BY <3>1, <3>2
  <2>3. Cardinality(G) = n - f
    <3>1. f \in Int /\ n - 1 \in Int /\ ~(f > n - 1)
      BY <1>1, <2>1
    <3>2. Cardinality(f .. n - 1) = (n - 1) - f + 1
      BY <3>1, FS_Interval, Zenon
    <3> QED
      BY <1>1, <2>1, <2>2, <3>2
  <2>4. FirstGate(given) = f
    BY <1>1 DEF FirstGate
  <2>5. moved[g] \in FirstGate(given) .. FirstGate(given) + Cardinality(Gates(given)) - 1
    BY <1>1 DEF EInv, Simulating, Finished, Numbered
  <2>6. moved[g] \in f .. f + Cardinality(G) - 1
    BY <1>1, <2>4, <2>5, Zenon
  <2> HIDE DEF f, n
  <2>7. f + Cardinality(G) - 1 = n - 1
    BY <1>1, <2>1, <2>3
  <2> QED
    BY <2>2, <2>6, <2>7, Zenon
<1>3. \A i \in D : moved[i] \in D
  BY <1>1, <1>2, ResultOrigins
<1>4. Gates(fsm) \subseteq G
  <2> SUFFICES ASSUME NEW k \in Gates(fsm) PROVE k \in G
    OBVIOUS
  <2>1. k \in Driven(fsm) /\ fsm.driver[k].kind = "gate"
    BY DEF Gates, Driven, Kind
  <2>2. PICK i \in D : moved[i] = k /\ given.driver[i].kind = "gate"
    BY <2>1, ResultOrigins
  <2>3. i \in G
    BY <1>1, <2>2, GivenParts DEF Gates, Kind
  <2> QED
    BY <1>2, <2>2, <2>3
<1>5. Driven(fsm) \subseteq D
  BY <1>3, ResultOrigins
<1>6. ASSUME NEW k \in D PROVE k \in Driven(fsm)
  <2> DEFINE t == [i \in D |-> moved[i]]
  <2>1. t \in [D -> 0 .. Cardinality(D) - 1] /\ \A i, j \in D : t[i] = t[j] => i = j
    BY <1>1, <1>3, ResultOrigins
  <2> HIDE DEF t, D
  <2>2. \A j \in 0 .. Cardinality(D) - 1 : \E i \in D : t[i] = j
    BY <1>1, <2>1, PlacesFilled
  <2>3. PICK i \in D : t[i] = k
    BY <1>1, <2>2
  <2>4. moved[i] = k
    BY <2>3 DEF t
  <2>5. /\ k \in VarsOf(fsm) /\ fsm.driver[k].kind = given.driver[i].kind
        /\ given.driver[i].kind # "none"
    <3>1. i \in Driven(design) /\ Driven(given) = Driven(design)
      BY GivenParts DEF D
    <3>2. given.driver[i].kind # "none"
      BY <3>1 DEF Driven, Kind
    <3> QED
      BY <2>4, <3>1, <3>2, ResultOrigins
  <2> QED
    BY <2>5 DEF Driven, Kind
<1> QED
  BY <1>4, <1>5, <1>6

(* The writers name the parts of an FSM as we do.                          *)
LEMMA WrittenParts ==
  ASSUME NEW m
  PROVE  /\ A!VarsOf(m) = VarsOf(m) /\ A!Inputs(m) = Inputs(m) /\ A!Latches(m) = Latches(m)
         /\ A!Gates(m) = Gates(m) /\ A!Driven(m) = Driven(m)
BY DEF A!VarsOf, A!Inputs, A!Latches, A!Gates, A!Driven, A!Kind,
       VarsOf, Inputs, Latches, Gates, Driven, Kind

LEMMA WrittenCompact ==
  ASSUME NEW m
  PROVE  A!Compact(m) <=> /\ \A i \in Inputs(m), l \in Latches(m) : i < l
                          /\ \A i \in Inputs(m) \cup Latches(m), g \in Gates(m) : i < g
                          /\ Driven(m) = 0 .. Cardinality(Driven(m)) - 1
                          /\ \A l \in Latches(m) : m.driver[l].sign
<1>1. /\ A!Inputs(m) = Inputs(m) /\ A!Latches(m) = Latches(m)
      /\ A!Gates(m) = Gates(m) /\ A!Driven(m) = Driven(m)
  BY WrittenParts
<1>2. ASSUME NEW T PROVE A!Cardinality(T) = Cardinality(T)
  BY DEF A!Cardinality, Cardinality, A!IsFiniteSet, IsFiniteSet
<1>3. A!Cardinality(A!Driven(m)) = Cardinality(Driven(m))
  BY <1>1, <1>2, Zenon
<1>4. (A!Driven(m) = 0 .. A!Cardinality(A!Driven(m)) - 1)
        <=> (Driven(m) = 0 .. Cardinality(Driven(m)) - 1)
  BY <1>1, <1>3, Zenon
<1>5. (\A i \in A!Inputs(m), l \in A!Latches(m) : i < l)
        <=> (\A i \in Inputs(m), l \in Latches(m) : i < l)
  BY <1>1
<1>6. (\A i \in A!Inputs(m) \cup A!Latches(m), g \in A!Gates(m) : i < g)
        <=> (\A i \in Inputs(m) \cup Latches(m), g \in Gates(m) : i < g)
  BY <1>1
<1>7. (\A l \in A!Latches(m) : m.driver[l].sign) <=> (\A l \in Latches(m) : m.driver[l].sign)
  BY <1>1
<1> QED
  BY <1>4, <1>5, <1>6, <1>7, Zenon DEF A!Compact

(* The polarities of the result: what the exporters assert of every format. *)
LEMMA ResultPolarities ==
  ASSUME EInv, stage = "run"
  PROVE  /\ \A g \in Gates(fsm) : fsm.driver[g].sign = (fsm.driver[g].type = "And")
         /\ \A l \in Latches(fsm) : fsm.driver[l].sign = TRUE
<1>1. /\ WellFormed(given) /\ FullyDriven(given) /\ Driven(given) = Driven(design)
      /\ Gates(given) = Gates(design) /\ Latches(given) = Latches(design)
      /\ VarsOf(given) = VarsOf(design) /\ Normalised(design, options, given)
  BY GivenParts
<1>2. Places(given, fsm.size, moved) /\ fsm.size \in Nat
  BY <1>1, ResultOrigins DEF Places, VarsOf, WellFormed
<1>3. ASSUME NEW k \in Driven(fsm)
      PROVE  \E i \in Driven(given) : /\ fsm.driver[k] = RenamedDriver(given.driver[i], moved)
                                      /\ given.driver[i].kind = fsm.driver[k].kind
                                      /\ i \in VarsOf(given)
  <2>1. PICK i \in Driven(design) : moved[i] = k /\ fsm.driver[k].kind = given.driver[i].kind
    BY ResultOrigins
  <2>2. fsm.driver[moved[i]] = RenamedDriver(given.driver[i], moved)
    BY ResultOrigins
  <2>3. i \in VarsOf(given)
    BY <1>1 DEF Driven
  <2> QED
    BY <1>1, <2>1, <2>2, <2>3
<1>4. ASSUME NEW g \in Gates(fsm)
      PROVE  fsm.driver[g].sign = (fsm.driver[g].type = "And")
  <2>1. g \in Driven(fsm) /\ fsm.driver[g].kind = "gate"
    BY DEF Gates, Driven, Kind
  <2>2. PICK i \in Driven(given) : /\ fsm.driver[g] = RenamedDriver(given.driver[i], moved)
                                   /\ given.driver[i].kind = "gate" /\ i \in VarsOf(given)
    BY <1>3, <2>1
  <2> DEFINE d == given.driver[i]
  <2>3. i \in Gates(given) /\ i \in Gates(design)
    BY <1>1, <2>2 DEF Gates, Kind
  <2>4. fsm.driver[g] = GateDriver(d.sign, d.type, Renamed(d.a, moved), Renamed(d.b, moved))
    BY <2>2 DEF RenamedDriver
  <2>5. fsm.driver[g].sign = d.sign /\ fsm.driver[g].type = d.type
    BY <2>4 DEF GateDriver, SortInputs
  <2>6. d.sign \in BOOLEAN /\ (d.sign <=> d.type = "And")
    BY <1>1, <2>3 DEF Normalised
  <2> QED
    BY <2>5, <2>6
<1>5. ASSUME NEW l \in Latches(fsm) PROVE fsm.driver[l].sign = TRUE
  <2>1. l \in Driven(fsm) /\ fsm.driver[l].kind = "latch"
    BY DEF Latches, Driven, Kind
  <2>2. PICK i \in Driven(given) : /\ fsm.driver[l] = RenamedDriver(given.driver[i], moved)
                                   /\ given.driver[i].kind = "latch" /\ i \in VarsOf(given)
    BY <1>3, <2>1
  <2> DEFINE d == given.driver[i]
  <2>3. i \in Latches(given) /\ i \in Latches(design)
    BY <1>1, <2>2 DEF Latches, Kind
  <2>4. d \in LatchDrivers(given.size)
    BY <1>1, <2>2, <2>3, DriverShape
  <2>5. fsm.driver[l] = [d EXCEPT !.input = Renamed(d.input, moved)]
    BY <2>2 DEF RenamedDriver
  <2>6. fsm.driver[l].sign = d.sign
    BY <2>4, <2>5 DEF LatchDrivers
  <2> QED
    BY <1>1, <2>3, <2>6 DEF Normalised
<1> QED
  BY <1>4, <1>5

(* No writer panics on what prepare returns: the polarities are those the   *)
(* ASCII one asserts, no cover is left, and inputs, latches and gates that  *)
(* follow each other in the design still do, as the binary one asserts.    *)
THEOREM ExportIsWritable == ExportSpec => []PreparedIsWritable
<1>1. EInv => PreparedIsWritable
  <2> SUFFICES ASSUME EInv, stage = "run"
               PROVE  /\ A!Writable(fsm, "aag", "1.9")
                      /\ Layout(design) => A!Writable(fsm, "aig", "1.9")
    BY DEF PreparedIsWritable
  <2>1. fsm.refs["covers"] = <<>>
    <3>1. given.refs["covers"] = [k \in DOMAIN Selected(design, options, "covers") |->
                                    Flip(design, Selected(design, options, "covers")[k])]
      BY GivenParts DEF Normalised, Lists
    <3>2. Selected(design, options, "covers") = <<>>
      BY DEF Selected
    <3>3. given.refs["covers"] = <<>>
      BY <3>1, <3>2
    <3>4. Carried(given, fsm, moved)
      BY DEF EInv, Simulating, Finished
    <3>5. fsm.refs["covers"] = [k \in DOMAIN given.refs["covers"] |-> Renamed(given.refs["covers"][k], moved)]
      BY <3>4 DEF Carried, Lists
    <3> QED
      BY <3>3, <3>5
  <2>2. \A g \in A!Gates(fsm) : fsm.driver[g].sign = A!IsAnd(fsm.driver[g])
    BY ResultPolarities, WrittenParts DEF A!IsAnd
  <2>3. A!Writable(fsm, "aag", "1.9")
    BY <2>1, <2>2 DEF A!Writable
  <2>4. ASSUME Layout(design) PROVE A!Compact(fsm)
    <3>1. /\ \A i \in Inputs(design), l \in Latches(design) : i < l
          /\ \A i \in Inputs(design) \cup Latches(design), g \in Gates(design) : i < g
          /\ Driven(design) = 0 .. Cardinality(Driven(design)) - 1
      <4> DEFINE r == [i \in VarsOf(design) |->
                         IF i \in Latches(design) THEN [design.driver[i] EXCEPT !.sign = TRUE]
                         ELSE design.driver[i]]
                 m == [design EXCEPT !.driver = r]
      <4>1. A!Compact(m)
        BY <2>4, Zenon DEF Layout
      <4>2. WellFormed(design)
        BY GivenParts
      <4> HIDE DEF r
      <4>3. m.size = design.size /\ m.driver = r
        BY <4>2 DEF WellFormed, Machine
      <4>4. \A i \in VarsOf(design) : r[i].kind = design.driver[i].kind
        <5> TAKE i \in VarsOf(design)
        <5>1. CASE i \in Latches(design)
          <6>1. design.driver[i] \in LatchDrivers(design.size)
            BY <4>2, <5>1, DriverShape
          <6> QED
            BY <5>1, <6>1 DEF r, LatchDrivers
        <5>2. CASE i \notin Latches(design)
          BY <5>2 DEF r
        <5> QED
          BY <5>1, <5>2
      <4> HIDE DEF m
      <4>5. /\ Inputs(m) = Inputs(design) /\ Latches(m) = Latches(design)
            /\ Gates(m) = Gates(design) /\ Driven(m) = Driven(design)
        BY <4>3, <4>4, SameKinds
      <4> QED
        BY <4>1, <4>5, WrittenCompact
    <3>2. Packed(design)
      BY <3>1 DEF Packed
    <3>3. /\ Inputs(fsm) = Inputs(design) /\ Latches(fsm) = Latches(design)
          /\ Gates(fsm) \subseteq Gates(design) /\ Driven(fsm) = Driven(design)
      BY <3>2, GatesStayPacked, ResultOrigins
    <3>4. \A l \in Latches(fsm) : fsm.driver[l].sign
      BY ResultPolarities
    <3> QED
      BY <3>1, <3>3, <3>4, WrittenCompact
  <2>5. A!Compact(fsm) => A!Writable(fsm, "aig", "1.9")
    BY <2>1, <2>2 DEF A!Writable
  <2> QED
    BY <2>3, <2>4, <2>5
<1> QED
  BY <1>1, ExportInvariance, PTL

--------------------------------------------------------------------------------
(* Inverting twice is inverting by the difference of the two polarities.   *)
LEMMA FlipsCompose ==
  ASSUME NEW t \in Ternary, NEW b \in BOOLEAN, NEW c \in BOOLEAN
  PROVE  FlipTernary(FlipTernary(t, b), c) = FlipTernary(t, b # c)
BY DEF FlipTernary, Ternary

(* The image of a driven variable of the design: the variable its driver    *)
(* was carried to, inverted when its output was flipped.                   *)
LEMMA SeenVariable ==
  ASSUME EInv, stage = "run", NEW i \in Driven(design)
  PROVE  /\ i \in VarsOf(design) /\ moved[i] \in VarsOf(fsm) /\ moved[i] # NoVar
         /\ values[moved[i]] \in Ternary
         /\ Seen[i] = FlipTernary(values[moved[i]], i \in Flipped(design))
         /\ Seen[i] \in Ternary
<1>1. /\ i \in VarsOf(design) /\ moved[i] \in VarsOf(fsm) /\ moved[i] # NoVar
  BY ResultOrigins DEF Driven, VarsOf, NoVar
<1>2. values[moved[i]] \in Ternary
  BY <1>1 DEF EInv, Simulating, Settles
<1>3. Seen[i] = Signed(values, Lit(moved[i], i \notin Flipped(design)))
  BY <1>1 DEF Seen, EInv, Imaged
<1>4. Seen[i] = FlipTernary(values[moved[i]], i \in Flipped(design))
  BY <1>1, <1>3 DEF Signed, Lit, FlipTernary
<1> QED
  BY <1>1, <1>2, <1>4 DEF FlipTernary, Ternary

(* A value of the design, flipped and renamed as the passes did, says of    *)
(* the result what the value says of the design.                           *)
LEMMA SeenSigned ==
  ASSUME EInv, stage = "run", NEW v \in Values(design.size), IsDriven(design, v)
  PROVE  Signed(values, Renamed(Flip(design, v), moved)) = Signed(Seen, v)
<1> DEFINE w == Flip(design, v)
           b == v.index \in Flipped(design)
<1>1. /\ WellFormed(design) /\ v.sign \in BOOLEAN
      /\ w.index = v.index /\ w.sign = (v.sign # b)
      /\ v.index = NoVar => w = v
  BY GivenParts, FlipTyped DEF Values
<1>2. CASE v.index = NoVar
  BY <1>1, <1>2 DEF Renamed, Signed
<1>3. CASE v.index # NoVar
  <2> DEFINE x == values[moved[v.index]]
  <2>1. v.index \in Driven(design)
    BY <1>3 DEF IsDriven
  <2>2. moved[v.index] # NoVar /\ x \in Ternary /\ Seen[v.index] = FlipTernary(x, b)
    BY <2>1, SeenVariable
  <2> HIDE DEF w, b, x
  <2>3. Renamed(w, moved) = Lit(moved[v.index], v.sign # b)
    BY <1>1, <1>3 DEF Renamed
  <2>4. Signed(values, Renamed(w, moved)) = FlipTernary(x, ~(v.sign # b))
    <3> DEFINE c == v.sign # b
    <3>1. Renamed(w, moved) = Lit(moved[v.index], c)
      BY <2>3
    <3> HIDE DEF c
    <3>2. Renamed(w, moved).index = moved[v.index] /\ Renamed(w, moved).sign = c
      BY <3>1 DEF Lit
    <3>3. Signed(values, Renamed(w, moved)) = FlipTernary(values[moved[v.index]], ~c)
      BY <2>2, <3>2, Zenon DEF Signed
    <3> QED
      BY <3>3 DEF c, x
  <2>5. Signed(Seen, v) = FlipTernary(FlipTernary(x, b), ~v.sign)
    BY <1>3, <2>2 DEF Signed
  <2>6. b \in BOOLEAN
    BY DEF b
  <2>7. FlipTernary(FlipTernary(x, b), ~v.sign) = FlipTernary(x, ~(v.sign # b))
    BY <1>1, <2>2, <2>6 DEF FlipTernary, Ternary
  <2> QED
    BY <2>4, <2>5, <2>7 DEF w
<1> QED
  BY <1>2, <1>3

(* After eval each gate of the design is seen with the value its inputs,    *)
(* as they are seen, give it.                                              *)
LEMMA SeenGates ==
  ASSUME EInv, stage = "run", fresh, NEW g \in Gates(design)
  PROVE  Seen[g] = GateValue(design, Seen, g)
<1> DEFINE d == design.driver[g]
           n == given.driver[g]
           k == moved[g]
           e == fsm.driver[k]
           b == g \in Flipped(design)
<1>1. /\ WellFormed(design) /\ FullyDriven(design) /\ WellFormed(given) /\ FullyDriven(given)
      /\ g \in VarsOf(design) /\ VarsOf(given) = VarsOf(design) /\ Driven(given) = Driven(design)
      /\ Gates(given) = Gates(design) /\ Normalised(design, options, given)
      /\ g \in Driven(design) /\ g \in Gates(given)
  BY GivenParts DEF Gates, Driven, Kind
<1>2. /\ d \in GateDrivers(design.size) /\ d.type \in {"And", "Or"} /\ d.sign \in BOOLEAN
      /\ d.a \in Values(design.size) /\ IsDriven(design, d.a)
      /\ d.b \in Values(design.size) /\ IsDriven(design, d.b)
  BY <1>1, DriverShape, OperandsDriven DEF GateDrivers
<1>3. /\ n.sign \in BOOLEAN /\ (n.sign <=> d.type = "And") /\ n.type = d.type
      /\ GateInputs(n) = {Flip(design, d.a), Flip(design, d.b)}
  BY <1>1 DEF Normalised
<1>4. /\ k \in VarsOf(fsm) /\ e = RenamedDriver(n, moved) /\ e.kind = "gate"
      /\ fsm.size \in Nat /\ WellFormed(fsm)
  <2>1. n.kind = "gate"
    BY <1>1 DEF Gates, Kind
  <2> QED
    BY <1>1, <2>1, ResultOrigins DEF WellFormed
<1>5. k \in Gates(fsm)
  BY <1>4 DEF Gates, Kind
<1>6. Places(given, fsm.size, moved)
  BY <1>1, ResultOrigins DEF Places, VarsOf
<1>7. e.sign = n.sign /\ e.type = n.type
  <2>1. e = GateDriver(n.sign, n.type, Renamed(n.a, moved), Renamed(n.b, moved))
    BY <1>1, <1>4 DEF RenamedDriver, Gates, Kind
  <2> QED
    BY <2>1 DEF GateDriver, SortInputs
<1>8. GateInputs(e) = {Renamed(v, moved) : v \in GateInputs(n)}
  <2>1. WellFormed(given) /\ FullyDriven(given) /\ fsm.size \in Nat /\ e = RenamedDriver(given.driver[g], moved)
    BY <1>1, <1>4
  <2>2. g \in Gates(given)
    BY <1>1
  <2> HIDE DEF n, e
  <2>3. GateInputs(e) = {Renamed(given.driver[g].a, moved), Renamed(given.driver[g].b, moved)}
    BY <1>6, <2>1, <2>2, RenamedGate
  <2> QED
    BY <2>3 DEF n, GateInputs
<1>9. {Signed(values, v) : v \in GateInputs(e)} = {Signed(Seen, v) : v \in GateInputs(d)}
  <2>1. /\ Signed(values, Renamed(Flip(design, d.a), moved)) = Signed(Seen, d.a)
        /\ Signed(values, Renamed(Flip(design, d.b), moved)) = Signed(Seen, d.b)
    BY <1>2, SeenSigned
  <2>2. GateInputs(e) = {Renamed(Flip(design, d.a), moved), Renamed(Flip(design, d.b), moved)}
    BY <1>3, <1>8
  <2>3. GateInputs(d) = {d.a, d.b}
    BY DEF GateInputs
  <2> QED
    BY <2>1, <2>2, <2>3
<1>10. values[k] = GateValue(fsm, values, k)
  <2>1. fresh = TRUE
    BY DEF EInv, Simulating, Settles
  <2>2. OrderedGates(fsm) /\ Settles(fsm, values, cursor, fresh)
    BY DEF EInv, Simulating, IInv, DoneIsVerified, Verify
  <2>3. fresh = TRUE => \A h \in Gates(fsm) : values[h] = GateValue(fsm, values, h)
    BY <1>4, <2>2, SettlesCalls, Zenon
  <2> QED
    BY <1>5, <2>1, <2>3
<1> DEFINE x == EvalGate(d.type, {Signed(Seen, v) : v \in GateInputs(d)})
<1>11. values[k] = FlipTernary(x, ~n.sign)
  BY <1>3, <1>7, <1>9, <1>10 DEF GateValue
<1>12. GateValue(design, Seen, g) = FlipTernary(x, ~d.sign)
  BY DEF GateValue
<1>13. Seen[g] = FlipTernary(values[k], b)
  BY <1>1, SeenVariable
<1>14. x \in Ternary
  BY TernaryClosed
<1>15. b <=> (d.sign <=> d.type = "Or")
  BY <1>1, <1>2 DEF Flipped, Latches, Gates, Kind
<1> HIDE DEF x, b, n, d, k
<1>16. FlipTernary(FlipTernary(x, ~n.sign), b) = FlipTernary(x, ~d.sign)
  BY <1>2, <1>3, <1>14, <1>15 DEF FlipTernary, Ternary
<1> QED
  BY <1>11, <1>12, <1>13, <1>16 DEF k

(* The lists of the result say of the design what was selected.            *)
LEMMA SeenLists ==
  ASSUME EInv, stage = "run", NEW list \in Lists
  PROVE  [k \in DOMAIN fsm.refs[list] |-> Signed(values, fsm.refs[list][k])]
           = [k \in DOMAIN Selected(design, options, list) |->
                Signed(Seen, Selected(design, options, list)[k])]
<1> DEFINE s == Selected(design, options, list)
<1>1. given.refs[list] = [k \in DOMAIN s |-> Flip(design, s[k])]
  BY GivenParts DEF Normalised
<1>2. fsm.refs[list] = [k \in DOMAIN given.refs[list] |-> Renamed(given.refs[list][k], moved)]
  BY DEF EInv, Simulating, Finished, Carried
<1>3. \A k \in DOMAIN s : s[k] \in Values(design.size) /\ IsDriven(design, s[k])
  <2> DEFINE c == Chosen(design, options)
  <2>1. /\ WellFormed(design) /\ FullyDriven(design) /\ options \in ExportOptions
        /\ Selectable(design, options)
    BY GivenParts
  <2>2. /\ WellFormed(c) /\ FullyDriven(c) /\ c.size = design.size /\ c.driver = design.driver
        /\ c.refs[list] = s
    BY <2>1, ChosenKeeps
  <2> HIDE DEF c, s
  <2>3. \A k \in DOMAIN c.refs[list] : c.refs[list][k] \in Values(c.size) /\ IsDriven(c, c.refs[list][k])
    BY <2>2, ListDriven
  <2>4. Driven(c) = Driven(design)
    BY <2>2, SameKinds
  <2> QED
    BY <2>2, <2>3, <2>4 DEF IsDriven
<1> HIDE DEF s
<1>4. fsm.refs[list] = [k \in DOMAIN s |-> Renamed(Flip(design, s[k]), moved)]
  BY <1>1, <1>2
<1>5. \A k \in DOMAIN s : Signed(values, Renamed(Flip(design, s[k]), moved)) = Signed(Seen, s[k])
  BY <1>3, SeenSigned
<1>6. [k \in DOMAIN fsm.refs[list] |-> Signed(values, fsm.refs[list][k])]
        = [k \in DOMAIN s |-> Signed(Seen, s[k])]
  BY <1>4, <1>5
<1> QED
  BY <1>6 DEF s

(* The exported FSM means the design, for every design and every options:   *)
(* seen through the flips and the renumbering, its gates are those of the   *)
(* design, and its lists the outputs, the assumptions and what was selected *)
(* of the assertions and covers.                                           *)
THEOREM ExportMeansDesign == ExportSpec => []ExportedMeansDesign
<1>1. EInv => ExportedMeansDesign
  <2> SUFFICES ASSUME EInv, stage = "run", fresh
               PROVE  /\ \A g \in Gates(design) : Seen[g] = GateValue(design, Seen, g)
                      /\ \A list \in Lists \ {"covers"} :
                           [k \in DOMAIN fsm.refs[list] |-> Signed(values, fsm.refs[list][k])] = Wanted(list)
    BY DEF ExportedMeansDesign
  <2>1. ASSUME NEW list \in Lists \ {"covers"}
        PROVE  [k \in DOMAIN fsm.refs[list] |-> Signed(values, fsm.refs[list][k])] = Wanted(list)
    <3> DEFINE s == Selected(design, options, list)
    <3>1. [k \in DOMAIN fsm.refs[list] |-> Signed(values, fsm.refs[list][k])]
            = [k \in DOMAIN s |-> Signed(Seen, s[k])]
      BY SeenLists
    <3>2. /\ WellFormed(design) /\ FullyDriven(design) /\ options \in ExportOptions
          /\ Selectable(design, options)
      BY GivenParts
    <3>3. CASE list # "asserts" \/ (options.assertion = None /\ options.cover = None)
      <4>1. s = design.refs[list]
        BY <3>3 DEF Selected
      <4>2. Wanted(list) = Meaning(list)
        BY <3>3 DEF Wanted
      <4> QED
        BY <3>1, <4>1, <4>2 DEF Meaning
    <3>4. CASE list = "asserts" /\ options.assertion # None
      <4> DEFINE a == options.assertion
      <4>1. options.cover = None
        BY <3>2, <3>4 DEF Selectable
      <4>2. s = <<design.refs[list][a]>>
        BY <3>4, <4>1 DEF Selected
      <4>3. a \in DOMAIN design.refs[list]
        <5>1. DOMAIN design.refs[list] = 1 .. Len(design.refs[list]) /\ Len(design.refs[list]) \in Nat
          BY <3>2, ListDriven
        <5> QED
          BY <3>2, <3>4, <5>1 DEF Selectable, ExportOptions, None
      <4>4. Wanted(list) = <<Signed(Seen, design.refs[list][a])>>
        BY <3>4, <4>1, <4>3 DEF Wanted, Meaning
      <4> HIDE DEF s
      <4>5. [k \in DOMAIN s |-> Signed(Seen, s[k])] = <<Signed(Seen, design.refs[list][a])>>
        BY <4>2
      <4> QED
        BY <3>1, <4>4, <4>5
    <3>5. CASE list = "asserts" /\ options.assertion = None /\ options.cover # None
      <4> DEFINE v == design.refs["covers"][options.cover]
      <4>1. s = <<Xor(v, TRUE)>>
        BY <3>5 DEF Selected
      <4>2. options.cover \in DOMAIN design.refs["covers"] /\ v \in Values(design.size)
            /\ IsDriven(design, v)
        <5>1. /\ DOMAIN design.refs["covers"] = 1 .. Len(design.refs["covers"])
              /\ Len(design.refs["covers"]) \in Nat
              /\ \A k \in DOMAIN design.refs["covers"] : /\ design.refs["covers"][k] \in Values(design.size)
                                                         /\ IsDriven(design, design.refs["covers"][k])
          BY <3>2, ListDriven DEF Lists
        <5>2. options.cover \in DOMAIN design.refs["covers"]
          BY <3>2, <3>5, <5>1 DEF Selectable, ExportOptions, None
        <5> QED
          BY <5>1, <5>2
      <4>3. Wanted(list) = <<FlipTernary(Signed(Seen, v), TRUE)>>
        BY <3>5, <4>2 DEF Wanted, Meaning
      <4>4. Signed(Seen, Xor(v, TRUE)) = FlipTernary(Signed(Seen, v), TRUE)
        <5>1. Xor(v, TRUE).index = v.index /\ Xor(v, TRUE).sign = ~v.sign /\ v.sign \in BOOLEAN
          BY <3>2, <4>2, InverseTyped DEF WellFormed, Values
        <5>2. CASE v.index = NoVar
          BY <5>1, <5>2 DEF Signed, FlipTernary
        <5>3. CASE v.index # NoVar
          <6>1. Seen[v.index] \in Ternary
            BY <4>2, <5>3, SeenVariable DEF IsDriven
          <6>2. /\ Signed(Seen, Xor(v, TRUE)) = FlipTernary(Seen[v.index], v.sign)
                /\ Signed(Seen, v) = FlipTernary(Seen[v.index], ~v.sign)
            BY <5>1, <5>3 DEF Signed
          <6>3. FlipTernary(FlipTernary(Seen[v.index], ~v.sign), TRUE) = FlipTernary(Seen[v.index], v.sign)
            BY <5>1, <6>1 DEF FlipTernary, Ternary
          <6> QED
            BY <6>2, <6>3
        <5> QED
          BY <5>2, <5>3
      <4> DEFINE w == Xor(v, TRUE)
      <4>6. s = <<w>>
        BY <4>1
      <4> HIDE DEF s, v, w
      <4>5. [k \in DOMAIN s |-> Signed(Seen, s[k])] = <<Signed(Seen, w)>>
        BY <4>6
      <4> QED
        BY <3>1, <4>3, <4>4, <4>5 DEF w
    <3> QED
      BY <3>3, <3>4, <3>5
  <2> QED
    BY <2>1, SeenGates
<1> QED
  BY <1>1, ExportInvariance, PTL

--------------------------------------------------------------------------------
(* The circuit names the parts of the design, and their meaning, as we do.  *)
LEMMA CircuitParts ==
  ASSUME NEW m
  PROVE  /\ C!VarsOf(m) = VarsOf(m) /\ C!Inputs(m) = Inputs(m)
         /\ C!Latches(m) = Latches(m) /\ C!Gates(m) = Gates(m) /\ C!Ternary = Ternary
BY DEF C!VarsOf, C!Inputs, C!Latches, C!Gates, C!Kind, C!Ternary,
       VarsOf, Inputs, Latches, Gates, Kind, Ternary
LEMMA CircuitSigned ==
  ASSUME NEW vals, NEW v, NEW t, NEW b
  PROVE  C!FlipTernary(t, b) = FlipTernary(t, b) /\ C!Signed(vals, v) = Signed(vals, v)
BY DEF C!FlipTernary, C!Signed, C!NoVar, FlipTernary, Signed, NoVar
LEMMA CircuitValues ==
  ASSUME NEW m, NEW vals, NEW i
  PROVE  /\ C!LatchNext(m, vals, i) = LatchNext(m, vals, i)
         /\ C!LatchReset(m, i) = LatchReset(m, i)
         /\ C!GateValue(m, vals, i) = GateValue(m, vals, i)
<1> DEFINE d == m.driver[i]
<1>1. {C!Signed(vals, v) : v \in {d.a, d.b}} = {Signed(vals, v) : v \in {d.a, d.b}}
  BY CircuitSigned
<1>2. ASSUME NEW t, NEW T PROVE C!EvalGate(t, T) = EvalGate(t, T)
  BY CircuitSigned DEF C!EvalGate, EvalGate, C!Controlling, Controlling
<1>3. C!GateValue(m, vals, i) = GateValue(m, vals, i)
  BY <1>1, <1>2, CircuitSigned DEF C!GateValue, GateValue, C!GateInputs, GateInputs
<1> QED
  BY <1>3, CircuitSigned DEF C!LatchNext, LatchNext, C!LatchReset, LatchReset

(* What the circuit sees: inputs are seen as they are, and latches inverted *)
(* when the output of the design's latch was.                              *)
DesignInputs == [i \in Inputs(design) |-> IF stage = "run" THEN Seen[i] ELSE "X"]
DesignState == [l \in Latches(design) |-> IF stage = "run" THEN Seen[l] ELSE LatchReset(design, l)]
Outside(l) == FlipTernary(values[l], ~design.driver[l].sign)

LEMMA SourcesSeen ==
  /\ EInv /\ stage = "run" =>
       /\ DesignInputs = [i \in Inputs(design) |-> values[i]]
       /\ DesignState = [l \in Latches(design) |-> Outside(l)]
  /\ stage # "run" =>
       /\ DesignInputs = [i \in Inputs(design) |-> "X"]
       /\ DesignState = [l \in Latches(design) |-> LatchReset(design, l)]
<1>1. ASSUME EInv, stage = "run"
      PROVE  /\ DesignInputs = [i \in Inputs(design) |-> values[i]]
             /\ DesignState = [l \in Latches(design) |-> Outside(l)]
  <2>1. WellFormed(design)
    BY <1>1, GivenParts
  <2>2. ASSUME NEW i \in Inputs(design) PROVE Seen[i] = values[i]
    <3>1. i \in Driven(design) /\ i \in VarsOf(design) \ Gates(design) /\ i \notin Flipped(design)
      BY DEF Inputs, Driven, Gates, Latches, Kind, Flipped
    <3>2. moved[i] = i
      BY <1>1, <3>1, ResultOrigins
    <3>3. Seen[i] = FlipTernary(values[moved[i]], i \in Flipped(design))
      BY <1>1, <3>1, SeenVariable
    <3> QED
      BY <3>1, <3>2, <3>3 DEF FlipTernary
  <2>3. ASSUME NEW l \in Latches(design) PROVE Seen[l] = Outside(l)
    <3>1. /\ l \in Driven(design) /\ l \in VarsOf(design) \ Gates(design)
          /\ l \notin Gates(design)
      BY DEF Inputs, Driven, Gates, Latches, Kind
    <3>2. moved[l] = l
      BY <1>1, <3>1, ResultOrigins
    <3>3. Seen[l] = FlipTernary(values[l], l \in Flipped(design))
      BY <1>1, <3>1, <3>2, SeenVariable
    <3>4. design.driver[l].sign \in BOOLEAN
      <4>1. design.driver[l] \in LatchDrivers(design.size)
        BY <2>1, <3>1, DriverShape
      <4> QED
        BY <4>1 DEF LatchDrivers
    <3>5. (l \in Flipped(design)) <=> ~design.driver[l].sign
      BY <3>1 DEF Flipped
    <3> QED
      BY <3>3, <3>4, <3>5 DEF Outside, FlipTernary
  <2>4. DesignInputs = [i \in Inputs(design) |-> values[i]]
    BY <1>1, <2>2 DEF DesignInputs
  <2>5. DesignState = [l \in Latches(design) |-> Outside(l)]
    BY <1>1, <2>3 DEF DesignState
  <2> QED
    BY <2>4, <2>5
<1>2. ASSUME stage # "run"
      PROVE  /\ DesignInputs = [i \in Inputs(design) |-> "X"]
             /\ DesignState = [l \in Latches(design) |-> LatchReset(design, l)]
  BY <1>2 DEF DesignInputs, DesignState
<1> QED
  BY <1>1, <1>2

(* The latches of the result are those of the design, made positive.        *)
LEMMA LatchesCarried ==
  EInv /\ stage = "run" =>
    /\ WellFormed(fsm) /\ WellFormed(design)
    /\ Latches(fsm) = Latches(design) /\ Inputs(fsm) = Inputs(design)
    /\ VarsOf(fsm) = VarsOf(design)
    /\ \A l \in Latches(design) :
         /\ fsm.driver[l].sign = TRUE /\ fsm.driver[l].reset = design.driver[l].reset
         /\ fsm.driver[l].input = Renamed(Flip(design, design.driver[l].input), moved)
<1> SUFFICES ASSUME EInv, stage = "run", NEW l \in Latches(design)
             PROVE  /\ fsm.driver[l].sign = TRUE /\ fsm.driver[l].reset = design.driver[l].reset
                    /\ fsm.driver[l].input = Renamed(Flip(design, design.driver[l].input), moved)
  BY GivenParts, ResultOrigins
<1> DEFINE d == given.driver[l]
<1>1. /\ WellFormed(given) /\ l \in Latches(given) /\ d.sign = TRUE
      /\ d.reset = design.driver[l].reset /\ d.input = Flip(design, design.driver[l].input)
  BY GivenParts DEF Normalised
<1>2. /\ l \in Driven(design) /\ l \in VarsOf(design) \ Gates(design)
  BY DEF Driven, Gates, Latches, Kind
<1>3. fsm.driver[l] = RenamedDriver(d, moved)
  BY <1>2, ResultOrigins
<1>4. d \in LatchDrivers(given.size) /\ d.kind = "latch"
  BY <1>1, DriverShape DEF Latches, Kind
<1>5. fsm.driver[l] = [d EXCEPT !.input = Renamed(d.input, moved)]
  BY <1>3, <1>4 DEF RenamedDriver
<1> HIDE DEF d
<1>6. /\ fsm.driver[l].sign = d.sign /\ fsm.driver[l].reset = d.reset
      /\ fsm.driver[l].input = Renamed(d.input, moved)
  BY <1>4, <1>5 DEF LatchDrivers
<1> QED
  BY <1>1, <1>6 DEF d

(* Preparation starts in an initial state of the circuit of the design.     *)
LEMMA PreparationStartsCircuit == ExportInit => C!Init
<1> SUFFICES ASSUME ExportInit PROVE C!Init
  OBVIOUS
<1>1. fsm \in Machines /\ options \in Options /\ design = Asked(fsm, options) /\ stage = "prepare"
  BY DEF ExportInit, Init
<1>2. design \in {Asked(m, o) : m \in Machines, o \in Options}
  BY <1>1
<1>3. /\ DesignInputs = [i \in Inputs(design) |-> "X"]
      /\ DesignState = [l \in Latches(design) |-> LatchReset(design, l)]
  BY <1>1, SourcesSeen
<1> QED
  BY <1>2, <1>3, CircuitParts, CircuitValues DEF C!Init, C!ResetOf, DesignInputs, DesignState

(* What the result shows after eval is a valuation of the circuit.          *)
LEMMA SeenIsValuation ==
  ASSUME EInv, stage = "run", fresh PROVE Seen \in C!Valuations
<1>1. Seen \in [VarsOf(design) -> Ternary]
  <2>1. \A i \in VarsOf(design) :
          (IF i \in Driven(design) THEN Signed(values, image[i]) ELSE "X") \in Ternary
    <3> TAKE i \in VarsOf(design)
    <3>1. CASE i \in Driven(design)
      <4>1. Seen[i] \in Ternary
        BY <3>1, SeenVariable
      <4> QED
        BY <3>1, <4>1 DEF Seen
    <3> QED
      BY <3>1 DEF Ternary
  <2> QED
    BY <2>1 DEF Seen
<1>2. \A i \in Inputs(design) : Seen[i] = DesignInputs[i]
  BY DEF DesignInputs
<1>3. \A l \in Latches(design) : Seen[l] = DesignState[l]
  BY DEF DesignState
<1>4. \A g \in Gates(design) : Seen[g] = GateValue(design, Seen, g)
  BY SeenGates
<1> HIDE DEF Seen
<1> QED
  BY <1>1, <1>2, <1>3, <1>4, CircuitParts, CircuitValues DEF C!Valuations, DesignInputs, DesignState

(* A step that leaves the design's inputs and latches is no step of it.     *)
LEMMA NotOfTheCircuit ==
  ASSUME design' = design, DesignInputs' = DesignInputs, DesignState' = DesignState
  PROVE  UNCHANGED C!vars
BY DEF C!vars, DesignInputs, DesignState

LEMMA Unsimulated ==
  ASSUME stage # "run", stage' # "run", design' = design
  PROVE  UNCHANGED C!vars
<1>1. /\ DesignInputs = [i \in Inputs(design) |-> "X"]
      /\ DesignState = [l \in Latches(design) |-> LatchReset(design, l)]
  BY SourcesSeen
<1>2. /\ DesignInputs' = [i \in Inputs(design) |-> "X"]
      /\ DesignState' = [l \in Latches(design) |-> LatchReset(design, l)]
  BY DEF DesignInputs, DesignState
<1> QED
  BY <1>1, <1>2, NotOfTheCircuit

(* The simulator is built with the latches of the design reset.             *)
LEMMA StartIsReset == EInv /\ EInv' /\ Start => UNCHANGED C!vars
<1> SUFFICES ASSUME EInv, EInv', Start PROVE UNCHANGED C!vars
  OBVIOUS
<1>1. /\ stage # "run" /\ stage' = "run" /\ design' = design /\ fsm' = fsm /\ moved' = moved
      /\ values' = S!WithReset(fsm, S!Unknown(fsm))
  BY DEF Start, reorderVars
<1>2. (EInv /\ stage = "run" =>
         /\ DesignInputs = [i \in Inputs(design) |-> values[i]]
         /\ DesignState = [l \in Latches(design) |-> Outside(l)])'
  BY SourcesSeen, PTL
<1>3. (EInv /\ stage = "run" =>
         /\ WellFormed(fsm) /\ WellFormed(design)
         /\ Latches(fsm) = Latches(design) /\ Inputs(fsm) = Inputs(design)
         /\ VarsOf(fsm) = VarsOf(design)
         /\ \A l \in Latches(design) :
              /\ fsm.driver[l].sign = TRUE /\ fsm.driver[l].reset = design.driver[l].reset
              /\ fsm.driver[l].input = Renamed(Flip(design, design.driver[l].input), moved))'
  BY LatchesCarried, PTL
<1>4. /\ WellFormed(fsm) /\ WellFormed(design)
      /\ Latches(fsm) = Latches(design) /\ Inputs(fsm) = Inputs(design)
      /\ \A l \in Latches(design) :
           fsm.driver[l].sign = TRUE /\ fsm.driver[l].reset = design.driver[l].reset
  BY <1>1, <1>3
<1>5. \A i \in VarsOf(fsm) : values'[i] = IF i \in Latches(fsm) THEN LatchReset(fsm, i) ELSE "X"
  BY <1>1, <1>4, SimulatedStart
<1>6. \A i \in Inputs(design) : values'[i] = "X"
  BY <1>4, <1>5, KindsOf
<1>7. \A l \in Latches(design) : Outside(l)' = LatchReset(design, l)
  <2> TAKE l \in Latches(design)
  <2>1. values'[l] = LatchReset(fsm, l)
    BY <1>4, <1>5, KindsOf
  <2>2. LatchReset(fsm, l) = design.driver[l].reset
    BY <1>4 DEF LatchReset, FlipTernary
  <2>3. Outside(l)' = FlipTernary(values'[l], ~design.driver[l].sign)
    BY <1>1 DEF Outside
  <2> QED
    BY <2>1, <2>2, <2>3 DEF LatchReset
<1>8. /\ DesignInputs' = [i \in Inputs(design) |-> "X"]
      /\ DesignState' = [l \in Latches(design) |-> LatchReset(design, l)]
  BY <1>1, <1>2, <1>6, <1>7
<1>9. /\ DesignInputs = [i \in Inputs(design) |-> "X"]
      /\ DesignState = [l \in Latches(design) |-> LatchReset(design, l)]
  BY <1>1, SourcesSeen
<1> QED
  BY <1>1, <1>8, <1>9, NotOfTheCircuit

(* Each step of a simulation of the result, seen from the design.           *)
LEMMA RunRefines == EInv /\ EInv' /\ Run => C!Next \/ UNCHANGED C!vars
<1> SUFFICES ASSUME EInv, EInv', Run PROVE C!Next \/ UNCHANGED C!vars
  OBVIOUS
<1>1. stage = "run" /\ stage' = "run" /\ design' = design /\ moved' = moved
  BY DEF Run, reorderVars
<1>2. /\ DesignInputs = [i \in Inputs(design) |-> values[i]]
      /\ DesignState = [l \in Latches(design) |-> Outside(l)]
  BY <1>1, SourcesSeen
<1>3. (EInv /\ stage = "run" =>
         /\ DesignInputs = [i \in Inputs(design) |-> values[i]]
         /\ DesignState = [l \in Latches(design) |-> Outside(l)])'
  BY SourcesSeen, PTL
<1>4. /\ DesignInputs' = [i \in Inputs(design) |-> values'[i]]
      /\ DesignState' = [l \in Latches(design) |-> FlipTernary(values'[l], ~design.driver[l].sign)]
  BY <1>1, <1>3 DEF Outside
<1>5. /\ WellFormed(fsm) /\ WellFormed(design)
      /\ Latches(fsm) = Latches(design) /\ Inputs(fsm) = Inputs(design) /\ VarsOf(fsm) = VarsOf(design)
      /\ Latches(design) \subseteq VarsOf(design) /\ Inputs(design) \subseteq VarsOf(design)
      /\ Inputs(design) \cap Latches(design) = {}
  BY <1>1, LatchesCarried, KindsOf
<1>6. values \in [VarsOf(design) -> Ternary]
  BY <1>1, <1>5 DEF EInv, Simulating, Settles
<1>7. ASSUME \A i \in Inputs(design) \cup Latches(design) : values'[i] = values[i]
      PROVE  UNCHANGED C!vars
  <2>1. DesignInputs' = DesignInputs
    BY <1>2, <1>4, <1>7
  <2>2. DesignState' = DesignState
    BY <1>2, <1>4, <1>7 DEF Outside
  <2> QED
    BY <1>1, <2>1, <2>2, NotOfTheCircuit
<1>8. ASSUME NEW i \in VarsOf(fsm), NEW t \in Ternary, S!SetInput(i, t)
      PROVE  C!Next
  <2>1. i \in Inputs(design) /\ values' = [values EXCEPT ![i] = t]
    BY <1>5, <1>8, SimulatedCalls
  <2>2. DesignInputs' = [DesignInputs EXCEPT ![i] = t]
    BY <1>2, <1>4, <1>5, <1>6, <2>1
  <2>3. DesignState' = DesignState
    BY <1>2, <1>4, <1>5, <1>6, <2>1 DEF Outside
  <2>4. C!Drive(i, t)
    BY <1>1, <2>2, <2>3 DEF C!Drive, DesignInputs, DesignState
  <2> QED
    BY <2>1, <2>4, CircuitParts DEF C!Next
<1>9. CASE S!BeginEval
  <2>1. values' = values
    BY <1>9, SimulatedCalls
  <2> QED
    BY <1>7, <2>1
<1>10. CASE S!EvalNext
  <2>1. values' = Pass(fsm, values, cursor)
    BY <1>10, SimulatedCalls
  <2>2. \A i \in Inputs(design) \cup Latches(design) : i \notin Gates(fsm)
    BY <1>5, KindsOf
  <2>3. \A i \in Inputs(design) \cup Latches(design) : values'[i] = values[i]
    BY <1>5, <1>6, <2>1, <2>2 DEF Pass
  <2> QED
    BY <1>7, <2>3
<1>11. CASE fresh /\ S!ClockStep
  <2>1. values' = Edged(fsm, values)
    BY <1>11, SimulatedCalls
  <2>2. Seen \in C!Valuations
    BY <1>1, <1>11, SeenIsValuation
  <2>3. \A i \in Inputs(design) : values'[i] = values[i]
    BY <1>5, <2>1 DEF Edged
  <2>4. DesignInputs' = DesignInputs
    BY <1>2, <1>4, <2>3
  <2>5. ASSUME NEW l \in Latches(design)
        PROVE  FlipTernary(values'[l], ~design.driver[l].sign) = LatchNext(design, Seen, l)
    <3> DEFINE v == design.driver[l].input
    <3>1. values'[l] = LatchNext(fsm, values, l)
      BY <1>5, <2>1 DEF Edged
    <3>2. fsm.driver[l].sign = TRUE /\ fsm.driver[l].input = Renamed(Flip(design, v), moved)
      BY <1>1, LatchesCarried
    <3>3. v \in Values(design.size) /\ IsDriven(design, v)
      <4>1. WellFormed(design) /\ FullyDriven(design)
        BY <1>1, GivenParts
      <4> QED
        BY <1>5, <4>1, OperandsDriven
    <3>4. Signed(values, Renamed(Flip(design, v), moved)) = Signed(Seen, v)
      BY <1>1, <3>3, SeenSigned
    <3>5. LatchNext(fsm, values, l) = Signed(Seen, v)
      BY <3>2, <3>4 DEF LatchNext, FlipTernary
    <3> QED
      BY <3>1, <3>5 DEF LatchNext
  <2>6. DesignState' = [l \in Latches(design) |-> LatchNext(design, Seen, l)]
    BY <1>4, <2>5
  <2>7. DesignState' = [l \in Latches(design) |-> C!LatchNext(design, Seen, l)]
    BY <2>6, CircuitValues
  <2>8. C!Edge
    BY <1>1, <2>2, <2>4, <2>7, CircuitParts DEF C!Edge, DesignInputs, DesignState
  <2> QED
    BY <2>8 DEF C!Next
<1> QED
  BY <1>8, <1>9, <1>10, <1>11 DEF Run, S!Eval

(* Whatever is exported, the cycles of a simulation of it are cycles of the *)
(* design, from the design's reset on: preparation is no step of the        *)
(* circuit, and the simulation of its result drives and clocks the design's *)
(* own inputs and latches.                                                 *)
THEOREM ExportImplementsDesign == ExportSpec => ImplementsDesign
<1>1. EInv /\ EInv' /\ [ExportNext]_exportVars => [C!Next]_(C!vars)
  <2> SUFFICES ASSUME EInv, EInv', [ExportNext]_exportVars PROVE C!Next \/ UNCHANGED C!vars
    OBVIOUS
  <2>1. CASE Prepare \/ RefuseSelection \/ ReorderGates \/ Panic
    <3>1. stage # "run" /\ stage' # "run" /\ design' = design
      BY <2>1 DEF Prepare, RefuseSelection, ReorderGates, Panic
    <3> QED
      BY <3>1, Unsimulated
  <2>2. CASE Start
    BY <2>2, StartIsReset
  <2>3. CASE Run
    BY <2>3, RunRefines
  <2>4. CASE UNCHANGED exportVars
    <3>1. UNCHANGED <<stage, design, values, image>>
      BY <2>4 DEF exportVars, simVars
    <3>2. Seen' = Seen
      BY <3>1 DEF Seen
    <3>3. DesignInputs' = DesignInputs /\ DesignState' = DesignState
      BY <3>1, <3>2 DEF DesignInputs, DesignState
    <3> QED
      BY <3>1, <3>3, NotOfTheCircuit
  <2> QED
    BY <2>1, <2>2, <2>3, <2>4 DEF ExportNext, Returned
<1> QED
  BY <1>1, PreparationStartsCircuit, ExportInvariance, PTL DEF ExportSpec, ImplementsDesign, C!Spec
================================================================================
