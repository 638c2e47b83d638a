--------------------------- MODULE OperatorsProofs ---------------------------
(****************************************************************************)
(* Every word that verilator-formal, circt-formal and the callers of ops.rs *)
(* build means what the design gives it, for every number of inputs, every  *)
(* width and every sequence of nodes.  First the expressions and targets of *)
(* the Verilator path on top of OpsProofs, then the invariants of Operators *)
(* for the paths.                                                           *)
(****************************************************************************)
EXTENDS Operators, OpsProofs, TLAPS

--------------------------------------------------------------------------------
(****************************************************************************)
(* The expressions and assignment targets of verilator-formal, over words of*)
(* every width.                                                             *)
(****************************************************************************)

(* Wrapping once more, to fewer bits.                                       *)
LEMMA WrapWithin ==
  ASSUME NEW w \in Nat, NEW d \in 0 .. w, NEW a \in Int
  PROVE  Wrap(Wrap(a, w), d) = Wrap(a, d)
<1> DEFINE A == Wrap(a, w)
           P == Pow2[w]
           D == Pow2[d]
           Rt == Pow2[w - d]
<1>1. d \in Nat /\ w - d \in Nat /\ d <= w
  OBVIOUS
<1>2. P = D * Rt /\ D \in Nat /\ Rt \in Nat /\ A \in Int
  <2>1. P = D * Rt
    BY <1>1, PowersGrow
  <2>2. A \in Int
    BY WrapType
  <2>3. D \in Nat /\ Rt \in Nat
    BY <1>1, Powers
  <2> QED
    BY <2>1, <2>2, <2>3
<1>3. PICK q \in Int : a = A + (P * q)
  BY WrapAway
<1>4. \E p \in Int : a = A + (D * p)
  <2> HIDE DEF A, P, D, Rt
  <2>1. P * q = D * (Rt * q) /\ Rt * q \in Int
    BY <1>2
  <2> QED
    BY <1>3, <2>1
<1>5. Wrap(a, d) = Wrap(A, d)
  <2> HIDE DEF A
  <2> QED
    BY <1>1, <1>2, <1>4, WrapSame DEF D
<1> QED
  BY <1>5

(* The lowest bits of a word say its number, wrapped.                       *)
LEMMA LowCut ==
  ASSUME NEW val, NEW w \in Nat, NEW d \in 0 .. w, NEW x
  PROVE  Low(val, x, d) = Wrap(Low(val, x, w), d)
<1> DEFINE m == w - d
           X == Spoken(val, x)
           z == [k \in 1 .. m |-> X[d + k]]
<1>1. d \in Nat /\ m \in Nat /\ w = d + m
  OBVIOUS
<1>2. PartFrom(X, d, z, m)
  BY DEF PartFrom
<1> HIDE DEF m, z, X
<1>3. Parts(X, d, z, m, w)
  BY <1>1, <1>2, WorthParts
<1> QED
  BY <1>3 DEF Parts, Low, Wrap, X

(* Reading a number at another width.                                       *)
LEMMA ReadIs ==
  ASSUME NEW n, NEW w, NEW u
  PROVE  /\ ReadAs(n, w, u, FALSE) = Wrap(n, u)
         /\ ReadAs(n, w, u, TRUE) = Wrap(SignedOf(n, w), u)
BY DEF ReadAs

(* Reading a number as signed changes it by a multiple of its modulus.      *)
LEMMA SignedWraps ==
  ASSUME NEW w \in Nat, NEW d \in 0 .. w, NEW n \in 0 .. Pow2[w] - 1
  PROVE  Wrap(SignedOf(n, w), d) = Wrap(n, d)
<1> DEFINE S == SignedOf(n, w)
<1>0. n \in Int
  BY Powers
<1>1. S \in Int /\ \E q \in Int : n = S + (Pow2[w] * q)
  BY SignedParts
<1> HIDE DEF S
<1>2. Wrap(n, w) = Wrap(S, w)
  BY <1>0, <1>1, WrapSame
<1>3. Wrap(Wrap(n, w), d) = Wrap(n, d) /\ Wrap(Wrap(S, w), d) = Wrap(S, d)
  BY <1>0, <1>1, WrapWithin
<1> QED
  BY <1>2, <1>3 DEF S

(* A number that fits is not cut.                                           *)
LEMMA WrapFits ==
  ASSUME NEW w \in Nat, NEW u \in Nat, w <= u, NEW n \in 0 .. Pow2[w] - 1
  PROVE  n \in 0 .. Pow2[u] - 1 /\ Wrap(n, u) = n
<1>1. Pow2[w] <= Pow2[u] /\ Pow2[w] \in Nat /\ Pow2[u] \in Nat
  BY PowersGrow, Powers
<1>2. n \in 0 .. Pow2[u] - 1
  BY <1>1
<1> QED
  BY <1>2, WrapSmall

(* resize_values.                                                           *)
ResizedBits(x, u, w, y, fill) == \A k \in 1 .. u : y[k] = IF k <= w THEN x[k] ELSE fill

(* Narrowed: the number, cut.                                               *)
LEMMA ResizedDown ==
  ASSUME NEW val, NEW w \in Nat, NEW n \in Nat, NEW x \in Words(w, n), NEW u \in Nat, u <= w,
         NEW y \in Words(u, n), NEW fill, ResizedBits(x, u, w, y, fill)
  PROVE  Low(val, y, u) = Wrap(Low(val, x, w), u)
<1>1. \A k \in 1 .. u : Says(val, x[k]) <=> Says(val, y[k])
  BY DEF ResizedBits
<1>2. Alike(val, x, y, u)
  BY <1>1 DEF Alike
<1>3. Low(val, x, u) = Low(val, y, u)
  BY <1>2, LowAlike
<1>4. Low(val, x, u) = Wrap(Low(val, x, w), u)
  <2>1. u \in 0 .. w
    OBVIOUS
  <2> QED
    BY <2>1, LowCut
<1> QED
  BY <1>3, <1>4

(* Widened with zeroes: the same number.                                    *)
LEMMA ResizedUp ==
  ASSUME NEW val, NEW w \in Nat, NEW n \in Nat, NEW x \in Words(w, n), NEW u \in Nat, w <= u,
         NEW y \in Words(u, n), NEW fill, ResizedBits(x, u, w, y, fill), ~Says(val, fill)
  PROVE  Low(val, y, u) = Low(val, x, w)
<1>1. \A k \in 1 .. w : Says(val, x[k]) <=> Says(val, y[k])
  BY DEF ResizedBits
<1>2. w \in 0 .. w /\ w \in 0 .. u /\ w <= w
  OBVIOUS
<1>3. Low(val, x, w) = Low(val, y, w)
  BY <1>1, <1>2, LowAgrees
<1>4. SilentFrom(val, y, w, u)
  <2> SUFFICES ASSUME NEW k \in 1 .. u - w PROVE ~Says(val, y[w + k])
    BY <1>2 DEF SilentFrom
  <2>1. w + k \in 1 .. u /\ ~(w + k <= w)
    OBVIOUS
  <2>2. y[w + k] = fill
    BY <2>1 DEF ResizedBits
  <2> QED
    BY <2>2
<1> QED
  BY <1>3, <1>4, HighZeros

(* Widened with ones: the negative number, cut.                             *)
LEMMA ResizedUpSigned ==
  ASSUME NEW val \in [Nat -> BOOLEAN], NEW w \in Nat, NEW n \in Nat, NEW x \in Words(w, n), NEW u \in Nat, w <= u,
         NEW y \in Words(u, n), NEW fill \in Values(n), ResizedBits(x, u, w, y, fill), Says(val, fill)
  PROVE  Low(val, y, u) = Wrap(Low(val, x, w) - Pow2[w], u)
<1> DEFINE a == NotAll(x)
           b == NotAll(y)
           last == Not(fill)
           A == Low(val, x, w)
           Y == Low(val, y, u)
           W == Pow2[w]
           U == Pow2[u]
<1>1. a \in Words(w, n) /\ Low(val, a, w) = W - 1 - A
  BY NotAllLow
<1>2. b \in Words(u, n) /\ Low(val, b, u) = U - 1 - Y
  BY NotAllLow
<1>3. ~Says(val, last)
  BY SaysInverse
<1>4. ResizedBits(a, u, w, b, last)
  <2>1. DOMAIN x = 1 .. w /\ DOMAIN y = 1 .. u
    BY WordShape
  <2> SUFFICES ASSUME NEW k \in 1 .. u PROVE b[k] = IF k <= w THEN a[k] ELSE last
    BY DEF ResizedBits
  <2>2. b[k] = Not(y[k]) /\ y[k] = IF k <= w THEN x[k] ELSE fill
    BY <2>1 DEF NotAll, ResizedBits
  <2>3. k <= w => a[k] = Not(x[k])
    BY <2>1 DEF NotAll
  <2> QED
    BY <2>2, <2>3
<1> HIDE DEF a, b, last
<1>5. U - 1 - Y = W - 1 - A
  BY <1>1, <1>2, <1>3, <1>4, ResizedUp
<1>6. A \in 0 .. W - 1 /\ Y \in 0 .. U - 1 /\ W \in Nat /\ U \in Nat
  BY LowType, Powers
<1>7. Wrap(Y, u) = Y
  BY <1>6, WrapSmall
<1>8. A - W \in Int /\ Y \in Int /\ Y = (A - W) + (U * 1)
  <2> HIDE DEF A, Y, W, U
  <2> QED
    BY <1>5, <1>6
<1>9. Wrap(Y, u) = Wrap(A - W, u)
  <2>1. \E q \in Int : Y = (A - W) + (Pow2[u] * q)
    BY <1>8
  <2> HIDE DEF A, Y, W, U
  <2> QED
    BY <1>8, <2>1, WrapSame
<1> QED
  BY <1>7, <1>9

(* resize: the word means its operand read as the signedness says.          *)
LEMMA ResizeBuilds ==
  ASSUME NEW val \in [Nat -> BOOLEAN], NEW w \in Nat, w > 0, NEW n \in Nat, NEW x \in Words(w, n),
         NEW u \in Nat, NEW signed \in BOOLEAN
  PROVE  /\ ResizeValues(x, u, signed) \in Words(u, n)
         /\ Low(val, ResizeValues(x, u, signed), u) = ReadAs(Low(val, x, w), w, u, signed)
<1> DEFINE y == ResizeValues(x, u, signed)
           fill == IF signed THEN x[w] ELSE False
           A == Low(val, x, w)
<1>1. Len(x) = w /\ x # <<>> /\ Last(x) = x[w] /\ x[w] \in Values(n) /\ (Says(val, x[w]) <=> 2 * A >= Pow2[w])
  BY TopBit, WordShape
<1>2. y = [k \in 1 .. u |-> IF k <= w THEN x[k] ELSE fill]
  BY <1>1 DEF ResizeValues
<1>3. fill \in Values(n) /\ ~Says(val, False)
  BY <1>1, ValuesAre, SaysConst
<1> HIDE DEF y, fill
<1>4. y \in Words(u, n) /\ ResizedBits(x, u, w, y, fill)
  <2>1. \A k \in 1 .. u : k <= w => x[k] \in Values(n)
    BY WordShape
  <2> QED
    BY <1>2, <1>3, <2>1 DEF Words, ResizedBits
<1>5. A \in 0 .. Pow2[w] - 1
  BY LowType
<1>6. Low(val, y, u) = ReadAs(A, w, u, signed)
  <2>1. CASE u <= w
    <3>1. u \in 0 .. w
      BY <2>1
    <3>2. Low(val, y, u) = Wrap(A, u)
      BY <1>4, <2>1, ResizedDown
    <3>3. Wrap(SignedOf(A, w), u) = Wrap(A, u)
      BY <1>5, <3>1, SignedWraps
    <3> QED
      BY <3>2, <3>3 DEF ReadAs
  <2>2. CASE w <= u /\ ~(signed /\ 2 * A >= Pow2[w])
    <3>1. ~Says(val, fill)
      BY <1>1, <1>3, <2>2 DEF fill
    <3>2. Low(val, y, u) = A
      BY <1>4, <2>2, <3>1, ResizedUp
    <3>3. Wrap(A, u) = A
      BY <1>5, <2>2, WrapFits
    <3> HIDE DEF A
    <3> QED
      BY <2>2, <3>2, <3>3 DEF ReadAs, SignedOf
  <2>3. CASE w <= u /\ signed /\ 2 * A >= Pow2[w]
    <3>1. Says(val, fill)
      BY <1>1, <2>3 DEF fill
    <3>2. Low(val, y, u) = Wrap(A - Pow2[w], u)
      BY <1>3, <1>4, <2>3, <3>1, ResizedUpSigned
    <3> HIDE DEF A
    <3> QED
      BY <2>3, <3>2 DEF ReadAs, SignedOf
  <2> QED
    BY <2>1, <2>2, <2>3
<1> QED
  BY <1>4, <1>6 DEF y

(* truthy_value.                                                            *)
LEMMA TruthyBuilds ==
  ASSUME NEW val \in [Nat -> BOOLEAN], NEW drivers \in Vectors, NEW w \in Nat, w > 0,
         NEW x \in Words(w, Len(drivers))
  PROVE  BuildsBit(val, drivers, TruthyGate(drivers, x), Low(val, x, w) # 0)
<1> DEFINE g == TruthyGate(drivers, x)
           n == Len(drivers)
           b == Low(val, x, w) # 0
           type == "Or"
<1>1. n \in Nat /\ Len(x) = w /\ \A k \in 1 .. w : x[k] \in Values(n) /\ Says(val, x[k]) \in BOOLEAN
  BY VectorLength, WordShape, SaysInverse
<1>2. b <=> \E k \in 1 .. w : Says(val, x[k])
  BY <1>1, ZeroIs
<1> HIDE DEF b
<1>3. CASE w = 1
  <2>1. g = Built(drivers, x[1])
    BY <1>1, <1>3 DEF TruthyGate
  <2>2. x[1] \in Values(n) /\ (Says(val, x[1]) <=> b)
    BY <1>1, <1>2, <1>3
  <2> HIDE DEF g
  <2> QED
    BY <2>1, <2>2, BuiltBit DEF g, b
<1>4. CASE w # 1
  <2>1. g = GateChain(drivers, type, x)
    BY <1>1, <1>4 DEF TruthyGate
  <2>2. BuildsBit(val, drivers, GateChain(drivers, type, x), Chains(val, type, w, x))
    BY ChainBuilds
  <2>3. Chains(val, type, w, x) <=> b
    BY <1>2 DEF Chains
  <2>4. Follows(val, drivers, drivers)
    BY FollowsItself
  <2> HIDE DEF g, type
  <2> QED
    BY <2>1, <2>2, <2>3, <2>4, BitAfter DEF g, b
<1> QED
  BY <1>3, <1>4

(* A bit made of two: the gate for each kind.                               *)
LEMMA BitSame ==
  ASSUME NEW val, NEW drivers, NEW g, NEW b, BuildsBit(val, drivers, g, b), NEW c, b <=> c
  PROVE  BuildsBit(val, drivers, g, c)
BY DEF BuildsBit

(* The gates of a mux with three AND gates.                                 *)
LEMMA MuxWithoutOrBuildsBit ==
  ASSUME NEW val \in [Nat -> BOOLEAN], NEW drivers \in Vectors, NEW l \in Values(Len(drivers)),
         NEW r \in Values(Len(drivers)), NEW select \in Values(Len(drivers))
  PROVE  BuildsBit(val, drivers, MuxValueWithoutOr(drivers, l, r, select),
           IF Says(val, select) THEN Says(val, r) ELSE Says(val, l))
<1> DEFINE type == "And"
           n0 == Len(drivers)
           s == Not(select)
           left == Gate(drivers, type, l, s)
           right == Gate(left.ds, type, r, select)
           p == Not(left.out)
           q == Not(right.out)
           last == Gate(right.ds, type, p, q)
           L == Says(val, l)
           Rt == Says(val, r)
           S == Says(val, select)
<1>0. type \in {"And", "Or"} /\ \A a, b : Joins(type, a, b) <=> (a /\ b)
  BY DEF Joins
<1>1. n0 \in Nat /\ s \in Values(n0) /\ L \in BOOLEAN /\ Rt \in BOOLEAN /\ S \in BOOLEAN /\ (Says(val, s) <=> ~S)
  BY VectorLength, ValuesAre, SaysInverse
<1> HIDE DEF type, s
<1>2. BuildsBit(val, drivers, left, Joins(type, L, Says(val, s)))
  BY <1>0, <1>1, GateBuilds
<1> DEFINE e == left.ds
           lo == left.out
<1>3. /\ e \in Vectors /\ Len(e) \in Nat /\ lo \in Values(Len(e)) /\ Follows(val, drivers, e) /\ Values(n0) \subseteq Values(Len(e))
      /\ Respects(val, e) => (Says(val, lo) <=> (L /\ ~S))
  <2> HIDE DEF left
  <2>1. /\ e \in Vectors /\ Len(e) \in Nat /\ lo \in Values(Len(e)) /\ Follows(val, drivers, e) /\ Values(n0) \subseteq Values(Len(e))
        /\ Respects(val, e) => (Says(val, lo) <=> Joins(type, L, Says(val, s)))
    BY <1>2, BitBuilt
  <2> QED
    BY <1>0, <1>1, <2>1
<1>4. right = Gate(e, type, r, select) /\ p = Not(lo)
  OBVIOUS
<1> HIDE DEF left, right, e, lo, p
<1>5. BuildsBit(val, e, right, Joins(type, Rt, S))
  BY <1>0, <1>3, <1>4, GateBuilds
<1> DEFINE f == right.ds
           ro == right.out
<1>6. /\ f \in Vectors /\ Len(f) \in Nat /\ ro \in Values(Len(f)) /\ Follows(val, e, f) /\ Values(Len(e)) \subseteq Values(Len(f))
      /\ Respects(val, f) => Respects(val, e) /\ (Says(val, ro) <=> (Rt /\ S))
  <2>1. /\ f \in Vectors /\ Len(f) \in Nat /\ ro \in Values(Len(f)) /\ Follows(val, e, f) /\ Values(Len(e)) \subseteq Values(Len(f))
        /\ Respects(val, f) => Respects(val, e) /\ (Says(val, ro) <=> Joins(type, Rt, S))
    BY <1>5, BitBuilt
  <2> QED
    BY <1>0, <2>1
<1>7. last = Gate(f, type, p, q) /\ q = Not(ro)
  OBVIOUS
<1> HIDE DEF f, ro, q, last
<1>8. p \in Values(Len(f)) /\ q \in Values(Len(f)) /\ (Says(val, p) <=> ~Says(val, lo)) /\ (Says(val, q) <=> ~Says(val, ro))
  <2>1. lo \in Values(Len(f))
    BY <1>3, <1>6
  <2> QED
    BY <1>4, <1>6, <1>7, <2>1, ValuesAre, SaysInverse
<1>9. BuildsBit(val, f, last, Joins(type, Says(val, p), Says(val, q)))
  BY <1>0, <1>6, <1>7, <1>8, GateBuilds
<1> DEFINE d == last.ds
           o == last.out
           m == Not(o)
<1>10. /\ d \in Vectors /\ Len(d) \in Nat /\ o \in Values(Len(d)) /\ Follows(val, f, d)
       /\ Respects(val, d) => Respects(val, f) /\ (Says(val, o) <=> (Says(val, p) /\ Says(val, q)))
  <2>1. /\ d \in Vectors /\ Len(d) \in Nat /\ o \in Values(Len(d)) /\ Follows(val, f, d)
        /\ Respects(val, d) => Respects(val, f) /\ (Says(val, o) <=> Joins(type, Says(val, p), Says(val, q)))
    BY <1>9, BitBuilt
  <2> QED
    BY <1>0, <2>1
<1> HIDE DEF d, o
<1>11. m \in Values(Len(d)) /\ m \in Signals /\ (Says(val, m) <=> ~Says(val, o))
  BY <1>10, ValuesAre, SaysInverse
<1>12. Follows(val, drivers, d)
  BY <1>3, <1>6, <1>10, FollowsOn
<1> DEFINE c == IF S THEN Rt ELSE L
<1>13. Respects(val, d) => (Says(val, m) <=> c)
  <2> HIDE DEF S, Rt, L, m
  <2> QED
    BY <1>1, <1>3, <1>6, <1>8, <1>10, <1>11
<1>14. MuxValueWithoutOr(drivers, l, r, select) = [ds |-> d, out |-> m]
  BY DEF MuxValueWithoutOr, Then, Negated, Built, last, right, left, p, q, ro, lo, f, e, s, d, o, type
<1> HIDE DEF c, m
<1>15. BuildsBit(val, drivers, [ds |-> d, out |-> m], c)
  BY <1>10, <1>11, <1>12, <1>13 DEF BuildsBit
<1> QED
  BY <1>14, <1>15 DEF c

(* mux_without_or chooses like the operand of one bit.                      *)
LEMMA MuxWithoutOrBuilds ==
  ASSUME NEW val \in [Nat -> BOOLEAN], NEW drivers \in Vectors, NEW w \in Nat,
         NEW a \in Words(w, Len(drivers)), NEW b \in Words(w, Len(drivers)), NEW select \in Values(Len(drivers))
  PROVE  BuildsNumber(val, drivers, MuxWithoutOr(drivers, a, b, select), w,
           IF Says(val, select) THEN Low(val, b, w) ELSE Low(val, a, w))
<1> DEFINE x == [k \in 1 .. w |-> IF Says(val, select) THEN Says(val, b[k]) ELSE Says(val, a[k])]
           bit(s, k) == MuxValueWithoutOr(s.ds, a[k], b[k], select)
           step(s, k) == [ds |-> bit(s, k).ds, out |-> Append(s.out, bit(s, k).out)]
           base == [ds |-> drivers, out |-> <<>>]
           V == [k \in 0 .. w |-> {s \in Builds : BuildsBits(val, drivers, s, k, x)}]
<1>1. base \in V[0]
  <2>1. Len(drivers) \in Nat /\ Follows(val, drivers, drivers)
    BY VectorLength, FollowsItself
  <2>2. <<>> \in Words(0, Len(drivers)) /\ <<>> \in Seq(Signals)
    BY <2>1, EmptyWord
  <2> QED
    BY <2>1, <2>2 DEF Builds, BuildsBits
<1>2. ASSUME NEW k \in 1 .. w, NEW s \in V[k - 1] PROVE step(s, k) \in V[k]
  <2>1. k - 1 \in 0 .. w /\ k - 1 \in Nat /\ (k - 1) + 1 = k /\ k \in 0 .. w
    OBVIOUS
  <2>2. s \in Builds /\ BuildsBits(val, drivers, s, k - 1, x)
    BY <2>1
  <2>3. s.ds \in Vectors /\ a[k] \in Values(Len(s.ds)) /\ b[k] \in Values(Len(s.ds)) /\ select \in Values(Len(s.ds))
    BY <2>2 DEF BuildsBits, Follows, Words
  <2>4. BuildsBit(val, s.ds, bit(s, k), IF Says(val, select) THEN Says(val, b[k]) ELSE Says(val, a[k]))
    BY <2>3, MuxWithoutOrBuildsBit
  <2>5. (IF Says(val, select) THEN Says(val, b[k]) ELSE Says(val, a[k])) <=> x[k]
    OBVIOUS
  <2> HIDE DEF bit, x
  <2>6. step(s, k) \in Builds /\ BuildsBits(val, drivers, step(s, k), (k - 1) + 1, x)
    BY <2>1, <2>2, <2>4, <2>5, BitAdded
  <2> HIDE DEF step
  <2> QED
    BY <2>1, <2>6
<1> DEFINE Rec(f) == [k \in 0 .. w |-> IF k = 0 THEN base ELSE step(f[k - 1], k)]
       F == [y \in Builds \X (1 .. w) |-> step(y[1], y[2])]
       after == CHOOSE f : f = Rec(f)
<1>a1. \A k \in 1 .. w : \A s \in V[k - 1] : F[<<s, k>>] = step(s, k) /\ F[<<s, k>>] \in V[k]
  <2> SUFFICES ASSUME NEW k \in 1 .. w, NEW s \in V[k - 1] PROVE F[<<s, k>>] = step(s, k)
    <3> HIDE DEF V, step, F
    <3> QED
      BY <1>2
  <2>1. k - 1 \in 0 .. w
    OBVIOUS
  <2>2. s \in Builds
    BY <2>1
  <2> HIDE DEF V, step
  <2> QED
    BY <2>2
<1>a2. PICK run : Runs(w, V, base, F, run)
  <2> HIDE DEF V, step, F, base
  <2> QED
    BY <1>1, <1>a1, LoopRuns
<1>a3. run = Rec(run)
  <2> SUFFICES ASSUME NEW k \in 0 .. w PROVE run[k] = IF k = 0 THEN base ELSE step(run[k - 1], k)
    <3> HIDE DEF V, step, F, base
    <3> QED
      BY <1>a2 DEF Runs
  <2>1. CASE k = 0
    <3> HIDE DEF V, step, F, base
    <3> QED
      BY <2>1, <1>a2 DEF Runs
  <2>2. CASE k # 0
    <3>1. k \in 1 .. w /\ k - 1 \in 0 .. w
      BY <2>2
    <3> HIDE DEF V, step, F, base
    <3> QED
      BY <2>2, <3>1, <1>a1, <1>a2 DEF Runs
  <2> QED
    BY <2>1, <2>2
<1>a4. after = Rec(after)
  <2> HIDE DEF Rec
  <2> QED
    BY <1>a3
<1>a5. after[0] = base /\ \A k \in 1 .. w : after[k] = step(after[k - 1], k)
  <2> HIDE DEF step, base, after, V, F
  <2>1. \A k \in 0 .. w : after[k] = IF k = 0 THEN base ELSE step(after[k - 1], k)
    BY <1>a4
  <2>2. 0 \in 0 .. w /\ \A k \in 1 .. w : k \in 0 .. w /\ k # 0
    OBVIOUS
  <2> HIDE DEF Rec
  <2> QED
    BY <2>1, <2>2
<1>a6. \A k \in 0 .. w : after[k] \in V[k]
  <2> HIDE DEF V, step, F, base, after, Rec
  <2> QED
    BY <1>1, <1>a1, <1>a5, LoopKeeps, ZenonT(60)
<1>3. MuxWithoutOr(drivers, a, b, select) = after[w]
  <2>1. Len(a) = w
    BY VectorLength, WordShape
  <2> QED
    BY <2>1 DEF MuxWithoutOr, BuildWord, EachBit, Then, Built
<1>4. after[w] \in Builds /\ BuildsBits(val, drivers, after[w], w, x)
  <2> HIDE DEF after, x
  <2> QED
    BY <1>a6
<1> HIDE DEF after
<1> DEFINE g == after[w]
           e == g.ds
           o == g.out
<1>5. g \in Builds /\ e \in Vectors /\ Len(e) \in Nat /\ o \in Words(w, Len(e)) /\ Follows(val, drivers, e)
  BY <1>4, VectorLength DEF BuildsBits, Builds
<1>6. a \in Words(w, Len(e)) /\ b \in Words(w, Len(e))
  BY <1>5, WordsGrow
<1>7. ASSUME Respects(val, e), Says(val, select) PROVE Low(val, o, w) = Low(val, b, w)
  <2>1. \A k \in 1 .. w : Says(val, o[k]) <=> Says(val, b[k])
    BY <1>4, <1>7 DEF BuildsBits
  <2> HIDE DEF e, o
  <2> QED
    BY <1>5, <1>6, <2>1, LowEqual
<1>8. ASSUME Respects(val, e), ~Says(val, select) PROVE Low(val, o, w) = Low(val, a, w)
  <2>1. \A k \in 1 .. w : Says(val, o[k]) <=> Says(val, a[k])
    BY <1>4, <1>8 DEF BuildsBits
  <2> HIDE DEF e, o
  <2> QED
    BY <1>5, <1>6, <2>1, LowEqual
<1> HIDE DEF g
<1> QED
  BY <1>3, <1>5, <1>7, <1>8 DEF BuildsNumber, g

(* Words say the same number when their bits say the same.                  *)
LEMMA LowSame ==
  ASSUME NEW val \in [Nat -> BOOLEAN], NEW w \in Nat, NEW n \in Nat, NEW x \in Words(w, n),
         NEW m \in Nat, NEW y \in Words(w, m)
  PROVE  Low(val, x, w) = Low(val, y, w) <=> \A k \in 1 .. w : Says(val, x[k]) <=> Says(val, y[k])
<1>1. ASSUME \A k \in 1 .. w : Says(val, x[k]) <=> Says(val, y[k]) PROVE Low(val, x, w) = Low(val, y, w)
  BY <1>1, LowEqual
<1>2. ASSUME Low(val, x, w) = Low(val, y, w), NEW k \in 1 .. w PROVE Says(val, x[k]) <=> Says(val, y[k])
  <2> DEFINE X == Spoken(val, x)
             Y == Spoken(val, y)
  <2>1. X[k] = Says(val, x[k]) /\ Y[k] = Says(val, y[k])
    BY WordShape DEF Spoken
  <2>2. Worth(X)[w] = Worth(Y)[w]
    BY <1>2 DEF Low
  <2> HIDE DEF X, Y
  <2>3. BitOf(Worth(X)[w], k - 1) <=> X[k]
    BY BitOfWorth
  <2>4. BitOf(Worth(Y)[w], k - 1) <=> Y[k]
    BY BitOfWorth
  <2> QED
    BY <2>1, <2>2, <2>3, <2>4
<1> QED
  BY <1>1, <1>2

(* All bits hold in the greatest number.                                    *)
LEMMA AllHold ==
  ASSUME NEW val \in [Nat -> BOOLEAN], NEW w \in Nat, NEW n \in Nat, NEW x \in Words(w, n)
  PROVE  Low(val, x, w) = Pow2[w] - 1 <=> \A k \in 1 .. w : Says(val, x[k])
<1> DEFINE y == NotAll(x)
           A == Low(val, x, w)
           B == Low(val, y, w)
           P == Pow2[w]
<1>1. y \in Words(w, n) /\ B = P - 1 - A
  BY NotAllLow
<1>2. \A k \in 1 .. w : Says(val, y[k]) <=> ~Says(val, x[k])
  <2> SUFFICES ASSUME NEW k \in 1 .. w PROVE Says(val, y[k]) <=> ~Says(val, x[k])
    OBVIOUS
  <2>1. y[k] = Not(x[k]) /\ x[k] \in Values(n)
    BY WordShape DEF NotAll
  <2> HIDE DEF y
  <2> QED
    BY <2>1, SaysInverse
<1> HIDE DEF y
<1>3. B = 0 <=> \A k \in 1 .. w : ~Says(val, y[k])
  BY <1>1, ZeroIs
<1>4. A \in Nat /\ P \in Nat
  BY LowType, Powers
<1>5. A = P - 1 <=> B = 0
  <2> HIDE DEF A, B, P
  <2> QED
    BY <1>1, <1>4
<1>6. \A k \in 1 .. w : Says(val, x[k]) \in BOOLEAN
  BY SaysInverse, WordShape
<1> QED
  BY <1>2, <1>3, <1>5, <1>6

(* equals_constant without OR gates.                                        *)
LEMMA EqualsConstantBuilds ==
  ASSUME NEW val \in [Nat -> BOOLEAN], NEW drivers \in Vectors, NEW u \in Nat, u > 0,
         NEW x \in Words(u, Len(drivers)), NEW i \in 0 .. Pow2[u] - 1
  PROVE  BuildsBit(val, drivers, EqualsConstantWithoutOr(drivers, x, i), Low(val, x, u) = i)
<1> DEFINE n == Len(drivers)
           c == WordOf(i, u)
           y == [k \in 1 .. u |-> IF c[k] = True THEN x[k] ELSE Not(x[k])]
           type == "And"
           b == Low(val, x, u) = i
<1>1. n \in Nat /\ Len(x) = u /\ DOMAIN x = 1 .. u /\ \A k \in 1 .. u : x[k] \in Values(n)
  BY VectorLength, WordShape
<1>2. c \in Words(u, n) /\ Low(val, c, u) = i
  BY <1>1, NumberWord
<1>3. EqualsConstantWithoutOr(drivers, x, i) = GateChain(drivers, type, y)
  BY <1>1 DEF EqualsConstantWithoutOr
<1>4. \A k \in 1 .. u : y[k] \in Values(n) /\ (Says(val, y[k]) <=> (Says(val, x[k]) <=> Says(val, c[k])))
  <2> SUFFICES ASSUME NEW k \in 1 .. u
               PROVE  y[k] \in Values(n) /\ (Says(val, y[k]) <=> (Says(val, x[k]) <=> Says(val, c[k])))
    OBVIOUS
  <2>1. PICK bit \in BOOLEAN : c[k] = Const(bit)
    BY DEF WordOf, BitOf
  <2>2. (c[k] = True) <=> bit
    <3>1. Const(bit).sign = bit /\ True.sign = TRUE
      BY DEF True, Const, Lit
    <3>2. bit => Const(bit) = True
      BY DEF True
    <3> QED
      BY <2>1, <3>1, <3>2
  <2>3. Says(val, c[k]) = bit
    BY <2>1, SaysConst
  <2>4. y[k] = IF bit THEN x[k] ELSE Not(x[k])
    BY <2>2
  <2>5. x[k] \in Values(n) /\ Not(x[k]) \in Values(n) /\ Says(val, x[k]) \in BOOLEAN
        /\ (Says(val, Not(x[k])) <=> ~Says(val, x[k]))
    BY <1>1, ValuesAre, SaysInverse
  <2> HIDE DEF y, c
  <2> QED
    BY <2>3, <2>4, <2>5
<1>5. y \in Words(u, n)
  BY <1>4 DEF Words
<1> HIDE DEF c, y, type
<1>6. b <=> \A k \in 1 .. u : Says(val, x[k]) <=> Says(val, c[k])
  <2>1. Low(val, x, u) = Low(val, c, u) <=> \A k \in 1 .. u : Says(val, x[k]) <=> Says(val, c[k])
    BY <1>1, <1>2, LowSame
  <2> QED
    BY <1>2, <2>1
<1> HIDE DEF b
<1>7. type \in {"And", "Or"} /\ (Chains(val, type, u, y) <=> b)
  BY <1>4, <1>6 DEF Chains, type
<1>8. BuildsBit(val, drivers, GateChain(drivers, type, y), Chains(val, type, u, y))
  BY <1>5, <1>7, ChainBuilds
<1>9. BuildsBit(val, drivers, GateChain(drivers, type, y), b)
  BY <1>7, <1>8, BitSame
<1> QED
  BY <1>3, <1>9 DEF b

(* The bitwise operators of binary_expression.                              *)
GateWord(drivers, type, a, b, w) == BuildWord(drivers, LAMBDA d, k : Gate(d, type, a[k], b[k]), w)

(* A gate for each bit joins the words bit by bit.                          *)
LEMMA GateWordBuilds ==
  ASSUME NEW val \in [Nat -> BOOLEAN], NEW drivers \in Vectors, NEW w \in Nat,
         NEW a \in Words(w, Len(drivers)), NEW b \in Words(w, Len(drivers)), NEW type \in {"And", "Or"}
  PROVE  BuildsJoin(val, drivers, GateWord(drivers, type, a, b, w), a, b, type, w)
<1> DEFINE x == JoinSays(val, a, b, type, w)
           bit(s, k) == Gate(s.ds, type, a[k], b[k])
           step(s, k) == [ds |-> bit(s, k).ds, out |-> Append(s.out, bit(s, k).out)]
           base == [ds |-> drivers, out |-> <<>>]
           V == [k \in 0 .. w |-> {s \in Builds : BuildsBits(val, drivers, s, k, x)}]
<1>1. base \in V[0]
  <2>1. Len(drivers) \in Nat /\ Follows(val, drivers, drivers)
    BY VectorLength, FollowsItself
  <2>2. <<>> \in Words(0, Len(drivers)) /\ <<>> \in Seq(Signals)
    BY <2>1, EmptyWord
  <2> QED
    BY <2>1, <2>2 DEF Builds, BuildsBits
<1>2. ASSUME NEW k \in 1 .. w, NEW s \in V[k - 1] PROVE step(s, k) \in V[k]
  <2> DEFINE p == a[k]
             q == b[k]
             e == s.ds
             c == JoinOf(type, Says(val, p), Says(val, q))
             g == Gate(e, type, p, q)
  <2>1. k - 1 \in 0 .. w /\ k - 1 \in Nat /\ (k - 1) + 1 = k /\ k \in 0 .. w
    OBVIOUS
  <2>2. s \in Builds /\ BuildsBits(val, drivers, s, k - 1, x)
    BY <2>1
  <2>3. e \in Vectors /\ p \in Values(Len(e)) /\ q \in Values(Len(e))
    BY <2>2 DEF BuildsBits, Follows, Words
  <2>4. c <=> x[k]
    BY DEF JoinSays
  <2>5. g = bit(s, k)
    OBVIOUS
  <2>6. BuildsBit(val, e, g, c)
    <3> HIDE DEF e, p, q, x
    <3>1. BuildsBit(val, e, g, Joins(type, Says(val, p), Says(val, q)))
      BY <2>3, GateBuilds
    <3>2. Joins(type, Says(val, p), Says(val, q)) <=> c
      BY DEF Joins, JoinOf
    <3> HIDE DEF g, c
    <3> QED
      BY <3>1, <3>2, BitSame
  <2> HIDE DEF bit, c, g, x, p, q
  <2> DEFINE t == [ds |-> g.ds, out |-> Append(s.out, g.out)]
  <2>7. t \in Builds /\ BuildsBits(val, drivers, t, (k - 1) + 1, x)
    BY <2>1, <2>2, <2>4, <2>6, BitAdded
  <2>8. t = step(s, k)
    BY <2>5
  <2> HIDE DEF step, t
  <2> QED
    BY <2>1, <2>7, <2>8
<1> DEFINE Rec(f) == [k \in 0 .. w |-> IF k = 0 THEN base ELSE step(f[k - 1], k)]
       F == [y \in Builds \X (1 .. w) |-> step(y[1], y[2])]
       after == CHOOSE f : f = Rec(f)
<1>a1. \A k \in 1 .. w : \A s \in V[k - 1] : F[<<s, k>>] = step(s, k) /\ F[<<s, k>>] \in V[k]
  <2> SUFFICES ASSUME NEW k \in 1 .. w, NEW s \in V[k - 1] PROVE F[<<s, k>>] = step(s, k)
    <3> HIDE DEF V, step, F
    <3> QED
      BY <1>2
  <2>1. k - 1 \in 0 .. w
    OBVIOUS
  <2>2. s \in Builds
    BY <2>1
  <2> HIDE DEF V, step
  <2> QED
    BY <2>2
<1>a2. PICK run : Runs(w, V, base, F, run)
  <2> HIDE DEF V, step, F, base
  <2> QED
    BY <1>1, <1>a1, LoopRuns
<1>a3. run = Rec(run)
  <2> SUFFICES ASSUME NEW k \in 0 .. w PROVE run[k] = IF k = 0 THEN base ELSE step(run[k - 1], k)
    <3> HIDE DEF V, step, F, base
    <3> QED
      BY <1>a2 DEF Runs
  <2>1. CASE k = 0
    <3> HIDE DEF V, step, F, base
    <3> QED
      BY <2>1, <1>a2 DEF Runs
  <2>2. CASE k # 0
    <3>1. k \in 1 .. w /\ k - 1 \in 0 .. w
      BY <2>2
    <3> HIDE DEF V, step, F, base
    <3> QED
      BY <2>2, <3>1, <1>a1, <1>a2 DEF Runs
  <2> QED
    BY <2>1, <2>2
<1>a4. after = Rec(after)
  <2> HIDE DEF Rec
  <2> QED
    BY <1>a3
<1>a5. after[0] = base /\ \A k \in 1 .. w : after[k] = step(after[k - 1], k)
  <2> HIDE DEF step, base, after, V, F
  <2>1. \A k \in 0 .. w : after[k] = IF k = 0 THEN base ELSE step(after[k - 1], k)
    BY <1>a4
  <2>2. 0 \in 0 .. w /\ \A k \in 1 .. w : k \in 0 .. w /\ k # 0
    OBVIOUS
  <2> HIDE DEF Rec
  <2> QED
    BY <2>1, <2>2
<1>a6. \A k \in 0 .. w : after[k] \in V[k]
  <2> HIDE DEF V, step, F, base, after, Rec
  <2> QED
    BY <1>1, <1>a1, <1>a5, LoopKeeps, ZenonT(60)
<1>3. GateWord(drivers, type, a, b, w) = after[w]
  BY DEF GateWord, BuildWord, EachBit, Then, Built
<1>4. after[w] \in Builds /\ BuildsBits(val, drivers, after[w], w, x)
  <2> HIDE DEF after, x
  <2> QED
    BY <1>a6
<1> HIDE DEF after
<1> QED
  BY <1>3, <1>4 DEF BuildsJoin

--------------------------------------------------------------------------------
(* Ones counts the bits that hold.                                          *)
LEMMA OnesCounts ==
  Ones \in [Nat -> Nat] /\ Ones[0] = 0 /\ \A n \in Nat : Ones[n] = (n % 2) + Ones[n \div 2]
<1> DEFINE p == [k \in Nat |-> k \div 2]
           stop == {0}
           first == [k \in Nat |-> 0]
           ext == [y \in Nat \X Nat |-> (y[1] % 2) + y[2]]
<1>1. PICK h : Recurs(Nat, p, stop, first, ext, h)
  <2>1. \A k \in Nat \ stop : p[k] \in Nat /\ p[k] < k
    OBVIOUS
  <2>2. \A k \in Nat \cap stop : first[k] \in Nat
    OBVIOUS
  <2>3. \A k \in Nat \ stop : \A x \in Nat : ext[<<k, x>>] \in Nat
    OBVIOUS
  <2> HIDE DEF p, stop, first, ext
  <2> QED
    BY <2>1, <2>2, <2>3, RecursionDefines DEF Descends
<1>2. h \in [Nat -> Nat] /\ \A k \in Nat : h[k] = IF k = 0 THEN 0 ELSE (k % 2) + h[k \div 2]
  <2>1. \A k \in Nat : h[k] = IF k \in stop THEN first[k] ELSE ext[<<k, h[p[k]]>>]
    <3> HIDE DEF p, stop, first, ext
    <3> QED
      BY <1>1 DEF Recurs
  <2>2. h \in [Nat -> Nat]
    BY <1>1 DEF Recurs
  <2> SUFFICES ASSUME NEW k \in Nat PROVE h[k] = IF k = 0 THEN 0 ELSE (k % 2) + h[k \div 2]
    BY <2>2
  <2>3. CASE k = 0
    BY <2>1, <2>3
  <2>4. CASE k # 0
    <3>1. k \notin stop /\ p[k] = k \div 2 /\ k \div 2 \in Nat
      BY <2>4
    <3>2. h[k \div 2] \in Nat
      BY <2>2, <3>1
    <3>3. ext[<<k, h[k \div 2]>>] = (k % 2) + h[k \div 2]
      BY <3>2
    <3> HIDE DEF p, stop, first, ext
    <3> QED
      BY <2>1, <2>4, <3>1, <3>3
  <2> QED
    BY <2>3, <2>4
<1> DEFINE Rec(f) == [k \in Nat |-> IF k = 0 THEN 0 ELSE (k % 2) + f[k \div 2]]
<1>3. h = Rec(h)
  BY <1>2
<1>4. Ones = CHOOSE f : f = Rec(f)
  BY DEF Ones
<1>5. Ones = Rec(Ones)
  <2> HIDE DEF Rec
  <2> QED
    BY <1>3, <1>4
<1>6. \A k \in Nat : Ones[k] = IF k = 0 THEN 0 ELSE (k % 2) + Ones[k \div 2]
  BY <1>5
<1>7. Ones[0] = 0 /\ 0 % 2 = 0 /\ 0 \div 2 = 0
  BY <1>6
<1>8. \A k \in Nat : Ones[k] = (k % 2) + Ones[k \div 2]
  <2> SUFFICES ASSUME NEW k \in Nat PROVE Ones[k] = (k % 2) + Ones[k \div 2]
    OBVIOUS
  <2> HIDE DEF Rec
  <2> QED
    BY <1>6, <1>7
<1> DEFINE S == {k \in Nat : \A n \in 0 .. k : Ones[n] \in Nat}
<1>9. \A k \in Nat : k \in S
  <2>1. 0 \in S
    BY <1>7
  <2>2. ASSUME NEW k \in Nat, k \in S PROVE k + 1 \in S
    <3>1. (k + 1) \div 2 \in 0 .. k /\ (k + 1) % 2 \in Nat
      OBVIOUS
    <3>2. Ones[k + 1] = ((k + 1) % 2) + Ones[(k + 1) \div 2]
      BY <1>8
    <3>3. Ones[(k + 1) \div 2] \in Nat
      BY <2>2, <3>1
    <3>4. Ones[k + 1] \in Nat
      BY <3>1, <3>2, <3>3
    <3>5. \A n \in 0 .. k + 1 : n \in 0 .. k \/ n = k + 1
      OBVIOUS
    <3> QED
      BY <2>2, <3>4, <3>5
  <2> HIDE DEF S
  <2> QED
    BY <2>1, <2>2, ClimbsOn
<1>10. Ones \in [Nat -> Nat]
  <2>1. Ones = [k \in Nat |-> Ones[k]]
    BY <1>5
  <2>2. \A k \in Nat : Ones[k] \in Nat
    BY <1>9
  <2> HIDE DEF Rec, S
  <2> QED
    BY <2>1, <2>2
<1> QED
  BY <1>7, <1>8, <1>10

(* One more bit above a number.                                             *)
LEMMA OnesTop ==
  \A k \in Nat : \A n \in 0 .. Pow2[k] - 1 : Ones[n + Pow2[k]] = Ones[n] + 1
<1> DEFINE S == {k \in Nat : \A n \in 0 .. Pow2[k] - 1 : Ones[n + Pow2[k]] = Ones[n] + 1}
<1>1. 0 \in S
  <2>1. Pow2[0] = 1 /\ \A n \in 0 .. 1 - 1 : n = 0 /\ n + 1 = 1
    BY Powers
  <2>2. Ones[1] = (1 % 2) + Ones[1 \div 2] /\ 1 % 2 = 1 /\ 1 \div 2 = 0 /\ Ones[0] = 0
    BY OnesCounts
  <2>3. Ones[1] = Ones[0] + 1
    BY <2>2
  <2> QED
    BY <2>1, <2>3
<1>2. ASSUME NEW k \in Nat, k \in S PROVE k + 1 \in S
  <2> DEFINE P == Pow2[k]
             Q == Pow2[k + 1]
  <2>1. P \in Nat /\ P >= 1 /\ Q = 2 * P
    BY Powers
  <2>2. \A n \in 0 .. P - 1 : Ones[n + P] = Ones[n] + 1
    BY <1>2
  <2> HIDE DEF P, Q
  <2> SUFFICES ASSUME NEW n \in 0 .. Q - 1 PROVE Ones[n + Q] = Ones[n] + 1
    BY DEF Q
  <2> DEFINE m == n \div 2
             r == n % 2
             a == n + Q
  <2>3. n \in Nat /\ m \in Nat /\ r \in 0 .. 1 /\ n = (2 * m) + r
    BY <2>1
  <2>4. a \in Nat /\ a = (2 * (m + P)) + r
    <3> HIDE DEF m, r
    <3> QED
      BY <2>1, <2>3
  <2>5. m \in 0 .. P - 1
    <3> HIDE DEF m, r
    <3> QED
      BY <2>1, <2>3
  <2>6. a % 2 = r /\ a \div 2 = m + P
    <3> HIDE DEF m, r, a
    <3> QED
      BY <2>1, <2>3, <2>4
  <2>7. Ones[a] = r + Ones[m + P] /\ Ones[n] = r + Ones[m] /\ Ones[m] \in Nat
    <3>1. Ones[a] = (a % 2) + Ones[a \div 2]
      BY <2>4, OnesCounts
    <3>2. Ones[n] = (n % 2) + Ones[n \div 2] /\ Ones[m] \in Nat
      BY <2>3, OnesCounts
    <3> QED
      BY <2>6, <3>1, <3>2
  <2>8. Ones[m + P] = Ones[m] + 1
    BY <2>2, <2>5
  <2> HIDE DEF m, r
  <2> QED
    BY <2>3, <2>7, <2>8
<1>3. \A k \in Nat : k \in S
  <2> HIDE DEF S
  <2> QED
    BY <1>1, <1>2, ClimbsOn
<1> QED
  BY <1>3

(* The parity of the lowest bits of a word.                                 *)
Odd(n) == Ones[n] % 2 = 1

(* The parity of a number, one bit further.                                 *)
LEMMA OddGrows ==
  ASSUME NEW val \in [Nat -> BOOLEAN], NEW w \in Nat, NEW n \in Nat, NEW x \in Words(w, n), NEW k \in 1 .. w, NEW j, j = k - 1
  PROVE  Odd(Low(val, x, k)) <=> (Odd(Low(val, x, j)) # Says(val, x[k]))
<1> DEFINE A == Low(val, x, j)
           B == Low(val, x, k)
           P == Pow2[j]
           b == Says(val, x[k])
<1>1. j \in Nat /\ b \in BOOLEAN
  BY WordShape, SaysInverse
<1>2. A \in 0 .. P - 1 /\ P \in Nat
  BY <1>1, LowType, Powers
<1>3. B = A + (Truth(b) * P)
  BY LowGrows
<1>4. Ones[A] \in Nat /\ Ones[A + P] = Ones[A] + 1
  <2> HIDE DEF A
  <2>1. Ones[A + Pow2[j]] = Ones[A] + 1
    BY <1>1, <1>2, OnesTop
  <2>2. A \in Nat
    BY <1>2
  <2> QED
    BY <2>1, <2>2, OnesCounts
<1> HIDE DEF A, B, P, b
<1>5. CASE b
  <2>1. B = A + P
    BY <1>2, <1>3, <1>5 DEF Truth
  <2>2. Ones[B] = Ones[A] + 1
    BY <1>4, <2>1
  <2>3. Odd(B) <=> ~Odd(A)
    <3> DEFINE m == Ones[A]
    <3>1. m \in Nat /\ Ones[B] = m + 1
      BY <1>4, <2>2
    <3> HIDE DEF m
    <3>2. (m + 1) % 2 = 1 <=> ~(m % 2 = 1)
      BY <3>1
    <3> QED
      BY <3>1, <3>2 DEF Odd, m
  <2>4. Odd(A) \in BOOLEAN /\ Odd(B) \in BOOLEAN
    BY DEF Odd
  <2> QED
    BY <1>5, <2>3, <2>4 DEF A, B, b
<1>6. CASE ~b
  <2>1. B = A
    BY <1>2, <1>3, <1>6 DEF Truth
  <2>2. Odd(A) \in BOOLEAN
    BY DEF Odd
  <2> QED
    BY <1>1, <1>6, <2>1, <2>2 DEF A, B, b
<1> QED
  BY <1>5, <1>6

(* ReduceXor: one gate after another.                                       *)
XorFold(drivers, x) == EachBit(LAMBDA s, k : XorGate(s.ds, s.out, x[k]), Built(drivers, False), Len(x))

(* The chain of exclusive ors is the parity.                                *)
LEMMA XorFoldBuilds ==
  ASSUME NEW val \in [Nat -> BOOLEAN], NEW drivers \in Vectors, NEW w \in Nat, NEW x \in Words(w, Len(drivers))
  PROVE  BuildsBit(val, drivers, XorFold(drivers, x), Odd(Low(val, x, w)))
<1> DEFINE odd(k) == Odd(Low(val, x, k))
           step(s, k) == XorGate(s.ds, s.out, x[k])
           base == [ds |-> drivers, out |-> False]
           V == [k \in 0 .. w |-> {s \in Bits : BuildsBit(val, drivers, s, odd(k))}]
<1>0. Len(drivers) \in Nat /\ Len(x) = w
  BY VectorLength, WordShape
<1>1. base \in V[0]
  <2>1. odd(0) = FALSE
    <3>1. Low(val, x, 0) = 0
      BY LowNone
    <3>2. Ones[0] = 0 /\ ~(0 % 2 = 1)
      BY OnesCounts
    <3> QED
      BY <3>1, <3>2 DEF Odd
  <2>2. False \in Values(Len(drivers)) /\ Says(val, False) = FALSE
    BY <1>0, ValuesAre, SaysConst
  <2> DEFINE b == odd(0)
  <2>3. Says(val, False) <=> b
    BY <2>1, <2>2
  <2> HIDE DEF b
  <2>4. BuildsBit(val, drivers, Built(drivers, False), b)
    BY <2>2, <2>3, BuiltBit
  <2>5. Built(drivers, False) = base
    BY DEF Built
  <2> HIDE DEF base
  <2> QED
    BY <2>4, <2>5 DEF BuildsBit, Bits, b
<1>2. ASSUME NEW k \in 1 .. w, NEW s \in V[k - 1] PROVE step(s, k) \in V[k]
  <2> DEFINE j == k - 1
             p == x[k]
             e == s.ds
             o == s.out
             b == odd(j)
             c == odd(k)
             g == XorGate(e, o, p)
  <2>1. j \in 0 .. w /\ j \in Nat /\ k \in 0 .. w
    OBVIOUS
  <2>2. s \in Bits /\ BuildsBit(val, drivers, s, b)
    BY <2>1
  <2>3. c <=> (b # Says(val, p))
    BY <1>0, OddGrows
  <2>4. step(s, k) = g
    OBVIOUS
  <2>9. b \in BOOLEAN /\ c \in BOOLEAN
    BY DEF Odd
  <2>5. p \in Values(Len(drivers))
    BY <1>0, WordShape
  <2> HIDE DEF b, c, p, odd
  <2>6. /\ e \in Vectors /\ Len(e) \in Nat /\ o \in Values(Len(e)) /\ Follows(val, drivers, e)
        /\ Values(Len(drivers)) \subseteq Values(Len(e))
        /\ Respects(val, e) => (Says(val, o) <=> b)
    BY <2>2, BitBuilt
  <2> HIDE DEF e, o
  <2>7. BuildsBit(val, e, g, Says(val, o) # Says(val, p))
    BY <2>5, <2>6, XorBuilds
  <2>8. Says(val, o) \in BOOLEAN /\ Says(val, p) \in BOOLEAN
    BY <2>5, <2>6, SaysInverse
  <2> DEFINE heard == Says(val, o)
             added == Says(val, p)
             d == heard # added
  <2>10. Respects(val, e) => (d <=> c)
    <3>1. heard \in BOOLEAN /\ added \in BOOLEAN
      BY <2>8
    <3>2. c <=> (b # added)
      BY <2>3
    <3>3. Respects(val, e) => (heard <=> b)
      BY <2>6
    <3> HIDE DEF heard, added
    <3> QED
      BY <2>9, <3>1, <3>2, <3>3
  <2> HIDE DEF g, d, heard, added
  <2>11. BuildsBit(val, drivers, g, c)
    BY <2>6, <2>7, <2>10, BitAfter DEF d, heard, added
  <2> HIDE DEF step
  <2> QED
    BY <2>1, <2>4, <2>11 DEF BuildsBit, Bits, c, odd
<1> DEFINE Rec(f) == [k \in 0 .. w |-> IF k = 0 THEN base ELSE step(f[k - 1], k)]
       F == [y \in Bits \X (1 .. w) |-> step(y[1], y[2])]
       after == CHOOSE f : f = Rec(f)
<1>a1. \A k \in 1 .. w : \A s \in V[k - 1] : F[<<s, k>>] = step(s, k) /\ F[<<s, k>>] \in V[k]
  <2> SUFFICES ASSUME NEW k \in 1 .. w, NEW s \in V[k - 1] PROVE F[<<s, k>>] = step(s, k)
    <3> HIDE DEF V, step, F
    <3> QED
      BY <1>2
  <2>1. k - 1 \in 0 .. w
    OBVIOUS
  <2>2. s \in Bits
    BY <2>1
  <2> HIDE DEF V, step
  <2> QED
    BY <2>2
<1>a2. PICK run : Runs(w, V, base, F, run)
  <2> HIDE DEF V, step, F, base
  <2> QED
    BY <1>1, <1>a1, LoopRuns
<1>a3. run = Rec(run)
  <2> SUFFICES ASSUME NEW k \in 0 .. w PROVE run[k] = IF k = 0 THEN base ELSE step(run[k - 1], k)
    <3> HIDE DEF V, step, F, base
    <3> QED
      BY <1>a2 DEF Runs
  <2>1. CASE k = 0
    <3> HIDE DEF V, step, F, base
    <3> QED
      BY <2>1, <1>a2 DEF Runs
  <2>2. CASE k # 0
    <3>1. k \in 1 .. w /\ k - 1 \in 0 .. w
      BY <2>2
    <3> HIDE DEF V, step, F, base
    <3> QED
      BY <2>2, <3>1, <1>a1, <1>a2 DEF Runs
  <2> QED
    BY <2>1, <2>2
<1>a4. after = Rec(after)
  <2> HIDE DEF Rec
  <2> QED
    BY <1>a3
<1>a5. after[0] = base /\ \A k \in 1 .. w : after[k] = step(after[k - 1], k)
  <2> HIDE DEF step, base, after, V, F
  <2>1. \A k \in 0 .. w : after[k] = IF k = 0 THEN base ELSE step(after[k - 1], k)
    BY <1>a4
  <2>2. 0 \in 0 .. w /\ \A k \in 1 .. w : k \in 0 .. w /\ k # 0
    OBVIOUS
  <2> HIDE DEF Rec
  <2> QED
    BY <2>1, <2>2
<1>a6. \A k \in 0 .. w : after[k] \in V[k]
  <2> HIDE DEF V, step, F, base, after, Rec
  <2> QED
    BY <1>1, <1>a1, <1>a5, LoopKeeps, ZenonT(60)
<1>3. XorFold(drivers, x) = after[w]
  BY <1>0 DEF XorFold, EachBit, Built
<1>4. BuildsBit(val, drivers, after[w], odd(w))
  <2> HIDE DEF after, odd
  <2> QED
    BY <1>a6
<1> HIDE DEF after
<1> QED
  BY <1>3, <1>4

(* A word that needs no gate.                                               *)
LEMMA WordBuilt ==
  ASSUME NEW val, NEW drivers \in Vectors, NEW w \in Nat, NEW x \in Words(w, Len(drivers)), NEW n, Low(val, x, w) = n
  PROVE  BuildsNumber(val, drivers, Built(drivers, x), w, n)
<1>1. Len(drivers) \in Nat
  BY VectorLength
<1>2. x \in Seq(Signals)
  BY <1>1, WordShape
<1>3. Follows(val, drivers, drivers)
  BY FollowsItself
<1> QED
  BY <1>2, <1>3 DEF BuildsNumber, Built, Builds

(* An inverter turns one bit.                                               *)
LEMMA NegatedBuilds ==
  ASSUME NEW val \in [Nat -> BOOLEAN], NEW drivers, NEW g, NEW b, BuildsBit(val, drivers, g, b), NEW c, c <=> ~b
  PROVE  BuildsBit(val, drivers, Negated(g), c)
<1> DEFINE d == g.ds
           o == g.out
           p == Not(o)
<1>1. /\ d \in Vectors /\ Len(d) \in Nat /\ o \in Values(Len(d)) /\ Follows(val, drivers, d)
      /\ Respects(val, d) => (Says(val, o) <=> b)
  BY BitBuilt
<1>2. Negated(g) = [ds |-> d, out |-> p]
  BY DEF Negated, Built
<1> HIDE DEF d, o
<1>3. p \in Values(Len(d)) /\ p \in Signals /\ (Says(val, p) <=> ~Says(val, o))
  BY <1>1, ValuesAre, SaysInverse
<1> HIDE DEF p
<1>4. BuildsBit(val, drivers, [ds |-> d, out |-> p], c)
  BY <1>1, <1>3 DEF BuildsBit
<1> QED
  BY <1>2, <1>4

(* A word of one bit.                                                       *)
OneBit(g) == Built(g.ds, <<g.out>>)

(* One bit as a word.                                                       *)
LEMMA OneBitBuilds ==
  ASSUME NEW val, NEW drivers, NEW g, NEW b, BuildsBit(val, drivers, g, b), NEW n, n = Truth(b), NEW l, l = 1
  PROVE  BuildsNumber(val, drivers, OneBit(g), l, n)
BY BitAsWord, Zenon DEF OneBit

--------------------------------------------------------------------------------
(* unary_expression.                                                        *)
Extensions == {"ZeroExtend", "SignExtend"}
UnaryWidth(operator, w, u) ==
  IF operator \in {"BitwiseNot", "Negate"} THEN w ELSE IF operator \in Extensions THEN u ELSE 1

(* The width of each unary operation.                                       *)
LEMMA UnaryWidthIs ==
  ASSUME NEW w, NEW u
  PROVE  /\ UnaryWidth("BitwiseNot", w, u) = w /\ UnaryWidth("Negate", w, u) = w
         /\ UnaryWidth("ZeroExtend", w, u) = u /\ UnaryWidth("SignExtend", w, u) = u
         /\ UnaryWidth("ReduceAnd", w, u) = 1 /\ UnaryWidth("ReduceOr", w, u) = 1
         /\ UnaryWidth("ReduceXor", w, u) = 1 /\ UnaryWidth("LogicalNot", w, u) = 1
BY DEF UnaryWidth, Extensions

(* The three reductions and the test for zero.                              *)
LEMMA ReductionBuilds ==
  ASSUME NEW val \in [Nat -> BOOLEAN], NEW drivers \in Vectors, NEW w \in Nat, w > 0, NEW x \in Words(w, Len(drivers)),
         NEW n, n = Low(val, x, w)
  PROVE  /\ BuildsBit(val, drivers, GateChain(drivers, "And", x), n = Pow2[w] - 1)
         /\ BuildsBit(val, drivers, GateChain(drivers, "Or", x), n # 0)
         /\ BuildsBit(val, drivers, XorFold(drivers, x), Odd(n))
<1> DEFINE all == n = Pow2[w] - 1
           some == n # 0
           and == "And"
           or == "Or"
<1>0. Len(drivers) \in Nat
  BY VectorLength
<1>1. BuildsBit(val, drivers, GateChain(drivers, "And", x), all)
  <2>1. Chains(val, and, w, x) <=> all
    <3>1. Low(val, x, w) = Pow2[w] - 1 <=> \A k \in 1 .. w : Says(val, x[k])
      BY <1>0, AllHold
    <3> QED
      BY <3>1 DEF Chains
  <2> HIDE DEF all, and
  <2>2. BuildsBit(val, drivers, GateChain(drivers, and, x), Chains(val, and, w, x))
    BY ChainBuilds DEF and
  <2>3. BuildsBit(val, drivers, GateChain(drivers, and, x), all)
    BY <2>1, <2>2, BitSame
  <2> QED
    BY <2>3 DEF and
<1>2. BuildsBit(val, drivers, GateChain(drivers, "Or", x), some)
  <2>1. Chains(val, or, w, x) <=> some
    <3>1. Low(val, x, w) = 0 <=> \A k \in 1 .. w : ~Says(val, x[k])
      BY <1>0, ZeroIs
    <3> QED
      BY <3>1 DEF Chains
  <2> HIDE DEF some, or
  <2>2. BuildsBit(val, drivers, GateChain(drivers, or, x), Chains(val, or, w, x))
    BY ChainBuilds DEF or
  <2>3. BuildsBit(val, drivers, GateChain(drivers, or, x), some)
    BY <2>1, <2>2, BitSame
  <2> QED
    BY <2>3 DEF or
<1>3. BuildsBit(val, drivers, XorFold(drivers, x), Odd(n))
  BY XorFoldBuilds
<1> QED
  BY <1>1, <1>2, <1>3 DEF all, some

(* unary_expression and the extensions, for words of every width.  A result *)
(* of an extension is at least as wide as its operand.                      *)
THEOREM UnaryBuilds ==
  ASSUME NEW val \in [Nat -> BOOLEAN], NEW drivers \in Vectors, NEW w \in Nat, w > 0, NEW x \in Words(w, Len(drivers)),
         NEW u \in Nat, NEW operator \in UnaryOperators \cup Extensions, operator \in Extensions => w <= u
  PROVE  BuildsNumber(val, drivers, UnaryGates(drivers, operator, x, u), UnaryWidth(operator, w, u),
                      UnaryMeans(operator, Low(val, x, w), w, u))
<1> DEFINE A == Low(val, x, w)
           n == Len(drivers)
<1>0. n \in Nat /\ Len(x) = w /\ A \in 0 .. Pow2[w] - 1
  BY VectorLength, WordShape, LowType
<1>1. CASE operator = "BitwiseNot"
  <2> DEFINE y == NotAll(x)
  <2>1. y \in Words(w, n) /\ Low(val, y, w) = Pow2[w] - 1 - A
    BY <1>0, NotAllLow
  <2>2. /\ UnaryGates(drivers, operator, x, u) = Built(drivers, y)
        /\ UnaryMeans(operator, A, w, u) = Pow2[w] - 1 - A
        /\ UnaryWidth(operator, w, u) = w
    BY <1>1, UnaryWidthIs DEF UnaryGates, UnaryMeans
  <2> HIDE DEF y
  <2> QED
    BY <2>1, <2>2, WordBuilt
<1>2. CASE operator = "Negate"
  <2>1. /\ UnaryGates(drivers, operator, x, u) = Negation(drivers, x)
        /\ UnaryMeans(operator, A, w, u) = Wrap(-A, w)
        /\ UnaryWidth(operator, w, u) = w
    BY <1>2, UnaryWidthIs DEF UnaryGates, UnaryMeans
  <2> QED
    BY <2>1, NegationBuilds
<1>3. CASE operator = "ReduceAnd"
  <2> DEFINE g == GateChain(drivers, "And", x)
             b == A = Pow2[w] - 1
  <2>1. BuildsBit(val, drivers, g, b)
    BY ReductionBuilds
  <2>2. /\ UnaryGates(drivers, operator, x, u) = OneBit(g)
        /\ UnaryMeans(operator, A, w, u) = Truth(b)
        /\ UnaryWidth(operator, w, u) = 1
    BY <1>3, UnaryWidthIs DEF UnaryGates, UnaryMeans, OneBit
  <2> HIDE DEF g, b
  <2>3. BuildsNumber(val, drivers, OneBit(g), 1, Truth(b))
    BY <2>1, OneBitBuilds
  <2> QED
    BY <2>2, <2>3
<1>4. CASE operator = "ReduceOr"
  <2> DEFINE g == GateChain(drivers, "Or", x)
             b == A # 0
  <2>1. BuildsBit(val, drivers, g, b)
    BY ReductionBuilds
  <2>2. /\ UnaryGates(drivers, operator, x, u) = OneBit(g)
        /\ UnaryMeans(operator, A, w, u) = Truth(b)
        /\ UnaryWidth(operator, w, u) = 1
    BY <1>4, UnaryWidthIs DEF UnaryGates, UnaryMeans, OneBit
  <2> HIDE DEF g, b
  <2>3. BuildsNumber(val, drivers, OneBit(g), 1, Truth(b))
    BY <2>1, OneBitBuilds
  <2> QED
    BY <2>2, <2>3
<1>5. CASE operator = "ReduceXor"
  <2> DEFINE g == XorFold(drivers, x)
  <2>1. BuildsBit(val, drivers, g, Odd(A))
    BY ReductionBuilds
  <2>2. Ones[A] % 2 = Truth(Odd(A))
    <3> DEFINE m == Ones[A]
    <3>1. m \in Nat
      BY <1>0, OnesCounts, LowType
    <3> HIDE DEF m
    <3>2. m % 2 = IF m % 2 = 1 THEN 1 ELSE 0
      BY <3>1
    <3> QED
      BY <3>2 DEF Truth, Odd, m
  <2>3. /\ UnaryGates(drivers, operator, x, u) = OneBit(g)
        /\ UnaryMeans(operator, A, w, u) = Ones[A] % 2
        /\ UnaryWidth(operator, w, u) = 1
    BY <1>5, UnaryWidthIs DEF UnaryGates, UnaryMeans, OneBit, XorFold
  <2> HIDE DEF g
  <2> QED
    BY <2>1, <2>2, <2>3, OneBitBuilds, Zenon
<1>6. CASE operator = "LogicalNot"
  <2> DEFINE t == TruthyGate(drivers, x)
             g == Negated(t)
             b == A # 0
             c == A = 0
  <2>1. BuildsBit(val, drivers, t, b)
    BY TruthyBuilds
  <2>2. /\ UnaryGates(drivers, operator, x, u) = OneBit(g)
        /\ UnaryMeans(operator, A, w, u) = Truth(c)
        /\ UnaryWidth(operator, w, u) = 1
    BY <1>6, UnaryWidthIs DEF UnaryGates, UnaryMeans, OneBit
  <2>3. c <=> ~b
    OBVIOUS
  <2> HIDE DEF t, b, c
  <2>4. BuildsBit(val, drivers, g, c)
    BY <2>1, <2>3, NegatedBuilds
  <2> HIDE DEF g
  <2> QED
    BY <2>2, <2>4, OneBitBuilds, Zenon
<1>7. CASE operator = "ZeroExtend"
  <2>0. w <= u
    BY <1>7 DEF Extensions
  <2> DEFINE y == ResizeValues(x, u, FALSE)
  <2>1. y \in Words(u, n) /\ Low(val, y, u) = ReadAs(A, w, u, FALSE)
    BY <1>0, ResizeBuilds, ZenonT(60)
  <2>2. ReadAs(A, w, u, FALSE) = A
    <3> HIDE DEF A
    <3>1. Wrap(A, u) = A
      BY <1>0, <2>0, WrapFits
    <3> QED
      BY <3>1, ReadIs
  <2>3. /\ UnaryGates(drivers, operator, x, u) = Built(drivers, y)
        /\ UnaryMeans(operator, A, w, u) = A
        /\ UnaryWidth(operator, w, u) = u
    BY <1>7, UnaryWidthIs DEF UnaryGates, UnaryMeans
  <2> HIDE DEF y
  <2> QED
    BY <2>1, <2>2, <2>3, WordBuilt
<1>8. CASE operator = "SignExtend"
  <2> DEFINE y == ResizeValues(x, u, TRUE)
  <2>1. y \in Words(u, n) /\ Low(val, y, u) = ReadAs(A, w, u, TRUE)
    BY <1>0, ResizeBuilds, ZenonT(60)
  <2>2. /\ UnaryGates(drivers, operator, x, u) = Built(drivers, y)
        /\ UnaryMeans(operator, A, w, u) = ReadAs(A, w, u, TRUE)
        /\ UnaryWidth(operator, w, u) = u
    BY <1>8, UnaryWidthIs DEF UnaryGates, UnaryMeans
  <2> HIDE DEF y
  <2> QED
    BY <2>1, <2>2, WordBuilt
<1> QED
  BY <1>1, <1>2, <1>3, <1>4, <1>5, <1>6, <1>7, <1>8 DEF UnaryOperators, Extensions

(* Both operands at the width of the wider one.                             *)
Wider(p, q) == IF p >= q THEN p ELSE q
LEMMA WiderIs ==
  ASSUME NEW p \in Nat, NEW q \in Nat
  PROVE  Max({p, q}) = Wider(p, q) /\ Wider(p, q) \in Nat /\ p <= Wider(p, q) /\ q <= Wider(p, q)
<1> DEFINE m == Wider(p, q)
<1>1. m \in {p, q} /\ \A y \in {p, q} : m >= y
  BY DEF Wider
<1>2. \A z \in {p, q} : (\A y \in {p, q} : z >= y) => z = m
  BY DEF Wider
<1>3. Max({p, q}) = CHOOSE x \in {p, q} : \A y \in {p, q} : x >= y
  BY DEF Max
<1> HIDE DEF m
<1>4. Max({p, q}) = m
  BY <1>1, <1>2, <1>3
<1> QED
  BY <1>4 DEF m, Wider

(* A number keeps its sign at a greater width.                              *)
LEMMA SignKept ==
  ASSUME NEW w \in Nat, w > 0, NEW u \in Nat, w <= u, NEW n \in 0 .. Pow2[w] - 1
  PROVE  SignedOf(ReadAs(n, w, u, TRUE), u) = SignedOf(n, w)
<1> DEFINE S == SignedOf(n, w)
           p == Pow2[w - 1]
           q == Pow2[u - 1]
<1>1. InSigned(S, p)
  BY SignedBounds
<1>2. p \in Nat /\ q \in Nat /\ p <= q
  <2>1. w - 1 \in Nat /\ u - 1 \in Nat /\ w - 1 <= u - 1
    OBVIOUS
  <2> QED
    BY <2>1, Powers, PowersGrow
<1> HIDE DEF S, p
<1>3. InSigned(S, q)
  BY <1>1, <1>2 DEF InSigned
<1> HIDE DEF q
<1>4. SignedOf(Wrap(S, u), u) = S
  BY <1>3, SignedOfWrap DEF q
<1> QED
  BY <1>4 DEF S, ReadAs

(* A resized operand fits the new width.                                    *)
LEMMA ReadType ==
  ASSUME NEW w \in Nat, NEW u \in Nat, NEW n \in 0 .. Pow2[w] - 1, NEW signed \in BOOLEAN
  PROVE  ReadAs(n, w, u, signed) \in 0 .. Pow2[u] - 1
<1>1. n \in Int /\ SignedOf(n, w) \in Int
  BY SignedParts, Powers
<1> QED
  BY <1>1, WrapType DEF ReadAs

LEMMA PredicateIs ==
  ASSUME NEW operator \in Comparisons PROVE Predicate(operator) \in Predicates
BY DEF Comparisons, SignedComparisons, Predicate, Predicates

(* A comparison of two words, each read at its own width.                   *)
LEMMA CompareBuilds ==
  ASSUME NEW val \in [Nat -> BOOLEAN], NEW drivers \in Vectors, NEW p \in Nat, p > 0, NEW a \in Words(p, Len(drivers)),
         NEW q \in Nat, q > 0, NEW b \in Words(q, Len(drivers)), NEW operator \in Comparisons,
         NEW signed \in BOOLEAN, signed <=> operator \in SignedComparisons
  PROVE  BuildsNumber(val, drivers, CompareGates(drivers, operator, a, b), 1,
           Truth(Compares(Predicate(operator), Reads(signed, Low(val, a, p), p), Reads(signed, Low(val, b, q), q))))
<1> DEFINE w == Wider(p, q)
           n == Len(drivers)
           x == ResizeValues(a, w, signed)
           y == ResizeValues(b, w, signed)
           A == Low(val, a, p)
           B == Low(val, b, q)
           X == Low(val, x, w)
           Y == Low(val, y, w)
           predicate == Predicate(operator)
<1>1. n \in Nat /\ Len(a) = p /\ Len(b) = q /\ A \in 0 .. Pow2[p] - 1 /\ B \in 0 .. Pow2[q] - 1 /\ signed \in BOOLEAN
  BY VectorLength, WordShape, LowType
<1>2. Max({p, q}) = w /\ w \in Nat /\ p <= w /\ q <= w /\ w > 0
  <2>1. Max({p, q}) = w /\ w \in Nat /\ p <= w /\ q <= w
    BY WiderIs
  <2> HIDE DEF w
  <2> QED
    BY <2>1
<1>3. CompareGates(drivers, operator, a, b) = ICmpGate(drivers, predicate, signed, x, y)
  <2>1. \A word : FlipSign(word) = FlipSignOf(word)
    BY DEF FlipSign, FlipSignOf
  <2>2. Max({Len(a), Len(b)}) = w
    BY <1>1, <1>2
  <2> HIDE DEF w
  <2>3. CASE signed
    BY <1>1, <2>1, <2>2, <2>3 DEF CompareGates, ICmpGate, Then
  <2>4. CASE ~signed
    BY <1>1, <2>1, <2>2, <2>4 DEF CompareGates, ICmpGate, Then
  <2> QED
    BY <1>1, <2>3, <2>4
<1> HIDE DEF w
<1>10. a \in Words(p, n) /\ b \in Words(q, n)
  OBVIOUS
<1> HIDE DEF n
<1>4. x \in Words(w, n) /\ X = ReadAs(A, p, w, signed)
  <2>1. n \in Nat /\ w \in Nat /\ signed \in BOOLEAN /\ a \in Words(p, n)
    BY <1>1, <1>2, <1>10
  <2>2. x \in Words(w, n) /\ Low(val, x, w) = ReadAs(Low(val, a, p), p, w, signed)
    BY <2>1, ResizeBuilds
  <2> QED
    BY <2>2
<1>5. y \in Words(w, n) /\ Y = ReadAs(B, q, w, signed)
  <2>1. n \in Nat /\ w \in Nat /\ signed \in BOOLEAN /\ b \in Words(q, n)
    BY <1>1, <1>2, <1>10
  <2>2. y \in Words(w, n) /\ Low(val, y, w) = ReadAs(Low(val, b, q), q, w, signed)
    BY <2>1, ResizeBuilds
  <2> QED
    BY <2>2
<1>6. Reads(signed, X, w) = Reads(signed, A, p)
  <2> HIDE DEF A, X
  <2>1. CASE signed
    BY <1>1, <1>2, <1>4, <2>1, SignKept DEF Reads
  <2>2. CASE ~signed
    <3>1. Wrap(A, w) = A
      BY <1>1, <1>2, WrapFits
    <3> QED
      BY <1>4, <2>2, <3>1 DEF Reads, ReadAs
  <2> QED
    BY <1>1, <2>1, <2>2
<1>7. Reads(signed, Y, w) = Reads(signed, B, q)
  <2> HIDE DEF B, Y
  <2>1. CASE signed
    BY <1>1, <1>2, <1>5, <2>1, SignKept DEF Reads
  <2>2. CASE ~signed
    <3>1. Wrap(B, w) = B
      BY <1>1, <1>2, WrapFits
    <3> QED
      BY <1>5, <2>2, <3>1 DEF Reads, ReadAs
  <2> QED
    BY <1>1, <2>1, <2>2
<1>8. predicate \in Predicates
  BY PredicateIs
<1> HIDE DEF x, y, predicate
<1>9. BuildsNumber(val, drivers, ICmpGate(drivers, predicate, signed, x, y), 1,
           Truth(Compares(predicate, Reads(signed, X, w), Reads(signed, Y, w))))
  <2>1. x \in Words(w, Len(drivers)) /\ y \in Words(w, Len(drivers))
    BY <1>4, <1>5 DEF n
  <2> QED
    BY <1>1, <1>2, <1>8, <2>1, ICmpBuilds, ZenonT(60)
<1> HIDE DEF A, B, X, Y
<1>11. BuildsNumber(val, drivers, ICmpGate(drivers, predicate, signed, x, y), 1,
           Truth(Compares(predicate, Reads(signed, A, p), Reads(signed, B, q))))
  BY <1>6, <1>7, <1>9
<1> QED
  BY <1>3, <1>11 DEF A, B, predicate

(* By zero, an unsigned division gives all ones.                            *)
LEMMA UnsignedQuotient ==
  ASSUME NEW w \in Nat, NEW a \in 0 .. Pow2[w] - 1, NEW b \in 0 .. Pow2[w] - 1
  PROVE  Divide(a, b, w) = Quotient(a, b, w, FALSE)
<1>1. Pow2[w] \in Nat /\ a \in Nat /\ b \in Nat
  BY Powers
<1>2. CASE b = 0
  BY <1>1, <1>2 DEF Divide, Quotient
<1>3. CASE b # 0
  <2> DEFINE d == a \div b
  <2>1. ~(a < 0) /\ ~(b < 0) /\ Magnitude(a) = a /\ Magnitude(b) = b
    BY <1>1 DEF Magnitude
  <2>2. d \in Nat /\ d <= a
    <3>1. a \in Nat /\ b \in Nat /\ b > 0
      BY <1>1, <1>3
    <3> QED
      BY <3>1, SMTT(30)
  <2>3. TowardZero(a, b) = d
    BY <2>1 DEF TowardZero
  <2> HIDE DEF d
  <2>4. Wrap(d, w) = d
    <3>1. d \in 0 .. Pow2[w] - 1
      BY <1>1, <2>2
    <3> QED
      BY <3>1, WrapSmall
  <2>5. Quotient(a, b, w, FALSE) = Wrap(TowardZero(a, b), w)
    BY <1>3 DEF Quotient
  <2>6. Divide(a, b, w) = d
    BY <1>3 DEF Divide, d
  <2> QED
    BY <2>3, <2>4, <2>5, <2>6
<1> QED
  BY <1>2, <1>3

(* A product of cut numbers is the product, cut.                            *)
LEMMA SignedProduct ==
  ASSUME NEW w \in Nat, NEW x \in Int, NEW y \in Int
  PROVE  Wrap(Wrap(x, w) * Wrap(y, w), w) = Wrap(x * y, w)
<1> DEFINE Y == Wrap(y, w)
<1>1. Y \in Int
  BY WrapType
<1> HIDE DEF Y
<1>2. Wrap(Wrap(x, w) * Y, w) = Wrap(x * Y, w)
  BY <1>1, WrapProduct
<1>3. x * Y = Y * x /\ y * x = x * y
  BY <1>1
<1>4. Wrap(Y * x, w) = Wrap(y * x, w)
  BY WrapProduct DEF Y
<1> QED
  BY <1>2, <1>3, <1>4 DEF Y

(* As many bits as a word of that many bits needs for its offsets.          *)
LEMMA PowerCovers ==
  \A w \in Nat : /\ PowerAtLeast[w] \in Nat
                 /\ w <= Pow2[PowerAtLeast[w]]
                 /\ w > 1 => PowerAtLeast[w] > 0
                 /\ w <= 1 => PowerAtLeast[w] = 0
<1> DEFINE p == [k \in Nat |-> (k + 1) \div 2]
           stop == {0, 1}
           first == [k \in Nat |-> 0]
           ext == [y \in Nat \X Nat |-> 1 + y[2]]
<1>1. PICK h : Recurs(Nat, p, stop, first, ext, h)
  <2>1. \A k \in Nat \ stop : p[k] \in Nat /\ p[k] < k
    OBVIOUS
  <2>2. \A k \in Nat \cap stop : first[k] \in Nat
    OBVIOUS
  <2>3. \A k \in Nat \ stop : \A x \in Nat : ext[<<k, x>>] \in Nat
    OBVIOUS
  <2> HIDE DEF p, stop, first, ext
  <2> QED
    BY <2>1, <2>2, <2>3, RecursionDefines DEF Descends
<1>2. h \in [Nat -> Nat] /\ \A k \in Nat : h[k] = IF k <= 1 THEN 0 ELSE 1 + h[(k + 1) \div 2]
  <2>1. \A k \in Nat : h[k] = IF k \in stop THEN first[k] ELSE ext[<<k, h[p[k]]>>]
    <3> HIDE DEF p, stop, first, ext
    <3> QED
      BY <1>1 DEF Recurs
  <2>2. h \in [Nat -> Nat]
    BY <1>1 DEF Recurs
  <2> SUFFICES ASSUME NEW k \in Nat PROVE h[k] = IF k <= 1 THEN 0 ELSE 1 + h[(k + 1) \div 2]
    BY <2>2
  <2>3. CASE k <= 1
    <3>1. k \in stop /\ first[k] = 0
      BY <2>3
    <3> HIDE DEF p, stop, first, ext
    <3> QED
      BY <2>1, <2>3, <3>1
  <2>4. CASE ~(k <= 1)
    <3>1. k \notin stop /\ p[k] = (k + 1) \div 2 /\ (k + 1) \div 2 \in Nat
      BY <2>4
    <3>2. h[(k + 1) \div 2] \in Nat
      BY <2>2, <3>1
    <3>3. ext[<<k, h[(k + 1) \div 2]>>] = 1 + h[(k + 1) \div 2]
      BY <3>2
    <3> HIDE DEF p, stop, first, ext
    <3> QED
      BY <2>1, <2>4, <3>1, <3>3
  <2> QED
    BY <2>3, <2>4
<1> DEFINE Rec(f) == [k \in Nat |-> IF k <= 1 THEN 0 ELSE 1 + f[(k + 1) \div 2]]
<1>3. h = Rec(h)
  BY <1>2
<1>4. PowerAtLeast = CHOOSE f : f = Rec(f)
  BY DEF PowerAtLeast
<1>5. PowerAtLeast = Rec(PowerAtLeast)
  <2> HIDE DEF Rec
  <2> QED
    BY <1>3, <1>4
<1>6. \A k \in Nat : PowerAtLeast[k] = IF k <= 1 THEN 0 ELSE 1 + PowerAtLeast[(k + 1) \div 2]
  BY <1>5
<1> HIDE DEF Rec, p, stop, first, ext
<1> DEFINE Good(k) == /\ PowerAtLeast[k] \in Nat
                      /\ k <= Pow2[PowerAtLeast[k]]
                      /\ k > 1 => PowerAtLeast[k] > 0
                      /\ k <= 1 => PowerAtLeast[k] = 0
           S == {k \in Nat : \A n \in 0 .. k : Good(n)}
<1>7. \A k \in Nat : k \in S
  <2>0. Pow2[0] = 1
    BY Powers
  <2>1. 0 \in S
    <3>1. PowerAtLeast[0] = 0
      BY <1>6
    <3>2. Good(0)
      BY <2>0, <3>1
    <3>3. \A n \in 0 .. 0 : n = 0
      OBVIOUS
    <3> HIDE DEF Good
    <3> QED
      BY <3>2, <3>3
  <2>2. ASSUME NEW k \in Nat, k \in S PROVE k + 1 \in S
    <3> DEFINE m == k + 1
               j == (m + 1) \div 2
    <3>1. Good(m)
      <4>1. CASE m <= 1
        <5>1. m = 1
          BY <4>1
        <5>2. PowerAtLeast[1] = 0
          BY <1>6
        <5> QED
          BY <2>0, <5>1, <5>2
      <4>2. CASE m > 1
        <5>1. j \in 0 .. k /\ j \in Nat /\ m <= 2 * j
          BY <4>2
        <5>2. Good(j)
          <6> HIDE DEF j, Good
          <6> QED
            BY <2>2, <5>1
        <5>3. PowerAtLeast[m] = 1 + PowerAtLeast[j]
          BY <1>6, <4>2
        <5> DEFINE q == PowerAtLeast[j]
        <5>4. q \in Nat /\ j <= Pow2[q] /\ Pow2[q + 1] = 2 * Pow2[q] /\ Pow2[q] \in Nat
          BY <5>2, Powers
        <5>5. PowerAtLeast[m] = q + 1
          BY <5>3, <5>4
        <5> HIDE DEF q, j, m
        <5>6. m <= Pow2[q + 1]
          <6> DEFINE P == Pow2[q]
          <6>1. P \in Nat /\ j <= P /\ Pow2[q + 1] = 2 * P
            BY <5>4
          <6>2. m \in Nat
            BY DEF m
          <6> HIDE DEF P
          <6> QED
            BY <5>1, <6>1, <6>2
        <5>7. PowerAtLeast[m] \in Nat /\ PowerAtLeast[m] > 0 /\ m <= Pow2[PowerAtLeast[m]]
          BY <5>4, <5>5, <5>6
        <5>8. ~(m <= 1)
          BY <4>2 DEF m
        <5> QED
          BY <5>7, <5>8
      <4> QED
        BY <4>1, <4>2
    <3>2. \A n \in 0 .. k + 1 : n \in 0 .. k \/ n = m
      OBVIOUS
    <3> HIDE DEF Good
    <3> QED
      BY <2>2, <3>1, <3>2
  <2> HIDE DEF S
  <2> QED
    BY <2>1, <2>2, ClimbsOn
<1>8. \A k \in Nat : Good(k)
  <2> HIDE DEF Good
  <2> QED
    BY <1>7
<1> QED
  BY <1>8

(* The lowest bits of a word that is built.                                 *)
LEMMA LowestBits ==
  ASSUME NEW val, NEW m \in Nat, NEW n \in Nat, NEW x \in Words(m, n), NEW w \in Nat, w <= m
  PROVE  SubSeq(x, 1, w) \in Words(w, n) /\ Low(val, SubSeq(x, 1, w), w) = Wrap(Low(val, x, m), w)
<1> DEFINE y == SubSeq(x, 1, w)
<1>1. x \in Seq(Values(n)) /\ Len(x) = m
  BY WordShape
<1>2. y = [k \in 1 .. w |-> x[k]]
  BY <1>1
<1>3. \A k \in 1 .. w : x[k] \in Values(n)
  BY WordShape
<1>4. y \in Words(w, n) /\ \A k \in 1 .. w : y[k] = x[k]
  BY <1>2, <1>3 DEF Words
<1> HIDE DEF y
<1>5. Alike(val, y, x, w)
  BY <1>4 DEF Alike
<1>6. Low(val, y, w) = Low(val, x, w)
  BY <1>5, LowAlike
<1>7. w \in 0 .. m
  OBVIOUS
<1>8. Low(val, x, w) = Wrap(Low(val, x, m), w)
  BY <1>7, LowCut
<1> QED
  BY <1>4, <1>6, <1>8 DEF y

(* A built word, cut.                                                       *)
LEMMA CutBuilds ==
  ASSUME NEW val, NEW drivers, NEW g, NEW m \in Nat, NEW n, BuildsNumber(val, drivers, g, m, n), NEW w \in Nat, w <= m
  PROVE  BuildsNumber(val, drivers, Built(g.ds, SubSeq(g.out, 1, w)), w, Wrap(n, w))
<1> DEFINE e == g.ds
           x == g.out
           l == Len(e)
           y == SubSeq(x, 1, w)
<1>1. /\ e \in Vectors /\ l \in Nat /\ x \in Words(m, l) /\ Follows(val, drivers, e)
      /\ Respects(val, e) => Low(val, x, m) = n
  BY NumberBuilt
<1> HIDE DEF e, x
<1>2. y \in Words(w, l) /\ Low(val, y, w) = Wrap(Low(val, x, m), w)
  <2> HIDE DEF l
  <2> QED
    BY <1>1, LowestBits
<1>3. y \in Seq(Signals)
  <2> HIDE DEF l, y
  <2> QED
    BY <1>1, <1>2, WordShape
<1> HIDE DEF y
<1>4. BuildsNumber(val, drivers, Built(e, y), w, Wrap(n, w))
  BY <1>1, <1>2, <1>3 DEF BuildsNumber, Built, Builds
<1> QED
  BY <1>4 DEF e, x, y

(* A word that another takes the place of, when a bit that is built after   *)
(* it holds.                                                                *)
LEMMA OverriddenBuilds ==
  ASSUME NEW val \in [Nat -> BOOLEAN], NEW drivers, NEW w \in Nat, NEW g, NEW n, BuildsNumber(val, drivers, g, w, n),
         NEW s, NEW b, BuildsBit(val, g.ds, s, b), NEW x, x \in Words(w, Len(drivers)), NEW m, m = Low(val, x, w)
  PROVE  BuildsNumber(val, drivers, Mux(s.ds, g.out, x, s.out), w, IF b THEN m ELSE n)
<1> DEFINE e == g.ds
           a == g.out
           f == s.ds
           c == s.out
           A == Low(val, a, w)
           h == Mux(f, a, x, c)
           o == IF Says(val, c) THEN m ELSE A
           q == IF b THEN m ELSE n
<1>1. /\ e \in Vectors /\ Len(e) \in Nat /\ a \in Words(w, Len(e)) /\ x \in Words(w, Len(e)) /\ Follows(val, drivers, e)
      /\ Respects(val, e) => A = n
  BY NumberBuilt
<1>2. /\ f \in Vectors /\ Len(f) \in Nat /\ c \in Values(Len(f)) /\ Follows(val, e, f)
      /\ Respects(val, f) => Respects(val, e) /\ (Says(val, c) <=> b)
  BY BitBuilt
<1> HIDE DEF e, a, f, c
<1>3. a \in Words(w, Len(f)) /\ x \in Words(w, Len(f)) /\ Follows(val, drivers, f)
  BY <1>1, <1>2, WordsGrow, FollowsOn
<1>4. BuildsNumber(val, f, h, w, IF Says(val, c) THEN Low(val, x, w) ELSE Low(val, a, w))
  BY <1>2, <1>3, MuxBuildsNumber
<1> DEFINE r == Says(val, c)
<1>5. Respects(val, f) => o = q
  <2> HIDE DEF A, r
  <2>1. o = IF r THEN m ELSE A
    BY DEF r
  <2>2. Respects(val, f) => A = n /\ (r <=> b)
    BY <1>1, <1>2 DEF r
  <2> HIDE DEF o
  <2> QED
    BY <2>1, <2>2
<1>6. BuildsNumber(val, f, h, w, o)
  BY <1>4
<1> HIDE DEF h, o, q, r, A
<1>7. BuildsNumber(val, drivers, h, w, q)
  BY <1>3, <1>5, <1>6, NumberAfter
<1> QED
  BY <1>7 DEF h, q, f, c, a

Arithmetical(operation) == operation = "ShiftRightArithmetic"
(* A shift of the value padded to more bits, cut to its own.                *)
LEMMA MovedPadded ==
  ASSUME NEW w \in Nat, w > 0, NEW p \in Nat, w <= p, NEW n \in 0 .. Pow2[w] - 1, NEW d \in Nat, NEW operation \in Shifts
  PROVE  Wrap(Moved(operation, ReadAs(n, w, p, Arithmetical(operation)), d, p), w) = Moved(operation, n, d, w)
<1> DEFINE S == SignedOf(n, w)
           T == ReadAs(n, w, p, TRUE)
           D == Pow2[d]
<1>1. n \in Int /\ S \in Int /\ D \in Nat /\ w \in 0 .. p
  <2>1. S \in Int
    BY SignedParts
  <2>2. D \in Nat
    BY Powers
  <2> HIDE DEF S, D
  <2> QED
    BY <2>1, <2>2
<1>2. ReadAs(n, w, p, FALSE) = n
  <2>1. Wrap(n, p) = n
    BY WrapFits
  <2> QED
    BY <2>1 DEF ReadAs
<1>3. SignedOf(T, p) = S
  BY SignKept
<1>4. Halves(n, d) \in Int /\ Halves(S, d) \in Int
  <2> HIDE DEF S
  <2> QED
    BY <1>1, HalvesIs
<1> HIDE DEF S, T
<1>5. CASE operation = "ShiftLeft"
  <2> DEFINE m == n * D
  <2>1. m \in Int
    BY <1>1
  <2> HIDE DEF m
  <2>2. Wrap(Wrap(m, p), w) = Wrap(m, w)
    BY <1>1, <2>1, WrapWithin
  <2>3. Arithmetical(operation) = FALSE
    BY <1>5 DEF Arithmetical
  <2>4. ReadAs(n, w, p, Arithmetical(operation)) = n
    BY <1>2, <2>3
  <2>5. Moved(operation, n, d, p) = Wrap(m, p) /\ Moved(operation, n, d, w) = Wrap(m, w)
    BY <1>5, MovedIs DEF m
  <2> QED
    BY <2>2, <2>4, <2>5
<1>6. CASE operation = "ShiftRight"
  <2> DEFINE m == Halves(n, d)
  <2>2. Wrap(Wrap(m, p), w) = Wrap(m, w)
    <3> HIDE DEF m
    <3> QED
      BY <1>1, <1>4, WrapWithin DEF m
  <2>3. Arithmetical(operation) = FALSE
    BY <1>6 DEF Arithmetical
  <2>4. ReadAs(n, w, p, Arithmetical(operation)) = n
    BY <1>2, <2>3
  <2>5. Moved(operation, n, d, p) = Wrap(m, p) /\ Moved(operation, n, d, w) = Wrap(m, w)
    BY <1>6, MovedIs
  <2> QED
    BY <2>2, <2>4, <2>5
<1>7. CASE operation = "ShiftRightArithmetic"
  <2> DEFINE m == Halves(S, d)
  <2>2. Wrap(Wrap(m, p), w) = Wrap(m, w)
    <3> HIDE DEF m
    <3> QED
      BY <1>1, <1>4, WrapWithin DEF m
  <2>3. Arithmetical(operation) = TRUE
    BY <1>7 DEF Arithmetical
  <2>4. ReadAs(n, w, p, Arithmetical(operation)) = T
    BY <2>3 DEF T
  <2>5. Moved(operation, T, d, p) = Wrap(m, p)
    BY <1>3, <1>7, MovedIs
  <2>6. Moved(operation, n, d, w) = Wrap(m, w)
    BY <1>7, MovedIs DEF S
  <2> QED
    BY <2>2, <2>4, <2>5, <2>6
<1> QED
  BY <1>5, <1>6, <1>7 DEF Shifts

(* What is left of a word that is shifted by its width or further.          *)
Emptied(operation, n, w) == IF Arithmetical(operation) /\ 2 * n >= Pow2[w] THEN Pow2[w] - 1 ELSE 0

(* A shift by the width or more leaves only the filling.                    *)
LEMMA MovedAway ==
  ASSUME NEW w \in Nat, w > 0, NEW n \in 0 .. Pow2[w] - 1, NEW d \in Nat, w <= d, NEW operation \in Shifts
  PROVE  Moved(operation, n, d, w) = Emptied(operation, n, w)
<1> DEFINE S == SignedOf(n, w)
           D == Pow2[d]
           P == Pow2[w]
           E == Pow2[d - w]
<1>1. n \in Nat /\ S \in Int /\ D \in Nat /\ P \in Nat /\ E \in Nat /\ P >= 1 /\ P <= D /\ D = P * E
  <2>1. d - w \in Nat
    OBVIOUS
  <2>2. P <= D /\ D = P * E
    BY PowersGrow
  <2>3. D \in Nat /\ P \in Nat /\ E \in Nat /\ P >= 1
    BY <2>1, Powers
  <2>4. S \in Int
    BY SignedParts
  <2>5. n \in Nat
    BY <2>3
  <2> HIDE DEF S, D, P, E
  <2> QED
    BY <2>2, <2>3, <2>4, <2>5
<1>2. Wrap(0, w) = 0
  <2>1. 0 \in 0 .. Pow2[w] - 1
    BY <1>1
  <2> QED
    BY <2>1, WrapSmall
<1>3. Halves(n, d) = 0
  <2>1. HalvesTo(n, d, 0)
    <3>1. n \in 0 .. D - 1 /\ n = (D * 0) + n
      <4> HIDE DEF D, P, S, E
      <4>1. n \in 0 .. P - 1
        BY DEF P
      <4> QED
        BY <1>1, <4>1
    <3>2. 0 \in Int
      OBVIOUS
    <3> QED
      BY <3>1, <3>2 DEF HalvesTo
  <2>2. n \in Int
    BY <1>1
  <2> QED
    BY <2>1, <2>2, HalvesIsOnly
<1>4. S < 0 => Halves(S, d) = -1
  <2> SUFFICES ASSUME S < 0 PROVE Halves(S, d) = -1
    OBVIOUS
  <2>1. S = n - P \/ S = n
    BY DEF SignedOf
  <2>2. S + D \in 0 .. D - 1 /\ S = (D * (-1)) + (S + D)
    <3> HIDE DEF S, D, P, E
    <3>1. n \in 0 .. P - 1
      BY DEF P
    <3> QED
      BY <1>1, <2>1, <3>1
  <2>3. HalvesTo(S, d, -1)
    <3> HIDE DEF S
    <3>1. -1 \in Int
      OBVIOUS
    <3> QED
      BY <2>2, <3>1 DEF HalvesTo
  <2> HIDE DEF S
  <2> QED
    BY <1>1, <2>3, HalvesIsOnly
<1>5. S < 0 <=> 2 * n >= P
  BY SignedParts
<1>6. ~(S < 0) => S = n
  BY <1>1 DEF SignedOf
<1>7. Wrap(-1, w) = P - 1
  <2>1. \E q \in Int : -1 = (P - 1) + (P * q)
    <3> HIDE DEF P, S, D, E
    <3>1. -1 = (P - 1) + (P * (-1)) /\ -1 \in Int
      BY <1>1
    <3> QED
      BY <3>1
  <2>2. P - 1 \in 0 .. P - 1 /\ P - 1 \in Int /\ -1 \in Int
    <3> HIDE DEF P, S, D, E
    <3> QED
      BY <1>1
  <2>3. Wrap(-1, w) = Wrap(P - 1, w)
    <3> DEFINE minus == -1
               top == P - 1
    <3>1. minus \in Int /\ top \in Int /\ \E q \in Int : minus = top + (Pow2[w] * q)
      BY <2>1, <2>2
    <3> HIDE DEF minus, top
    <3>2. Wrap(minus, w) = Wrap(top, w)
      BY <3>1, WrapSame
    <3> QED
      BY <3>2 DEF minus, top
  <2>4. Wrap(P - 1, w) = P - 1
    BY <2>2, WrapSmall
  <2> QED
    BY <2>3, <2>4
<1>8. CASE operation = "ShiftLeft"
  <2>1. n * D = P * (n * E) /\ n * E \in Int /\ n * D \in Int
    <3> HIDE DEF P, S, D, E
    <3>1. n * (P * E) = P * (n * E)
      BY <1>1
    <3> QED
      BY <1>1, <3>1
  <2>2. Wrap(n * D, w) = Wrap(0, w)
    <3> DEFINE m == n * D
               o == n * E
               z == 0
    <3>1. m \in Int /\ z \in Int /\ o \in Int /\ m = z + (Pow2[w] * o)
      <4>1. Pow2[w] * o \in Int /\ m = Pow2[w] * o
        BY <1>1, <2>1
      <4> HIDE DEF m, o
      <4> QED
        BY <2>1, <4>1 DEF m, o
    <3> HIDE DEF m, o, z
    <3>2. Wrap(m, w) = Wrap(z, w)
      BY <3>1, WrapSame
    <3> QED
      BY <3>2 DEF m, z
  <2>3. ~Arithmetical(operation)
    BY <1>8 DEF Arithmetical
  <2> QED
    BY <1>2, <1>8, <2>2, <2>3, MovedIs DEF Emptied
<1>9. CASE operation = "ShiftRight"
  <2>1. ~Arithmetical(operation)
    BY <1>9 DEF Arithmetical
  <2> QED
    BY <1>2, <1>3, <1>9, <2>1, MovedIs DEF Emptied
<1>10. CASE operation = "ShiftRightArithmetic"
  <2>1. Arithmetical(operation)
    BY <1>10 DEF Arithmetical
  <2>2. Moved(operation, n, d, w) = Wrap(Halves(S, d), w)
    BY <1>10, MovedIs
  <2> DEFINE top == 2 * n >= Pow2[w]
  <2>3. Halves(S, d) = IF top THEN -1 ELSE 0
    <3> HIDE DEF S
    <3> QED
      BY <1>1, <1>3, <1>4, <1>5, <1>6
  <2> HIDE DEF S, top
  <2>4. Emptied(operation, n, w) = IF top THEN P - 1 ELSE 0
    BY <2>1 DEF Emptied, top
  <2> QED
    BY <1>2, <1>7, <2>2, <2>3, <2>4
<1> QED
  BY <1>8, <1>9, <1>10 DEF Shifts

(* The bits that are shifted in.                                            *)
Filling(operation, x) == IF Arithmetical(operation) THEN Last(x) ELSE False

(* The filling as a word.                                                   *)
LEMMA FillLow ==
  ASSUME NEW val \in [Nat -> BOOLEAN], NEW w \in Nat, w > 0, NEW n \in Nat, NEW x \in Words(w, n), NEW operation \in Shifts
  PROVE  /\ Filling(operation, x) \in Values(n)
         /\ [k \in 1 .. w |-> Filling(operation, x)] \in Words(w, n)
         /\ Low(val, [k \in 1 .. w |-> Filling(operation, x)], w) = Emptied(operation, Low(val, x, w), w)
<1> DEFINE f == Filling(operation, x)
           y == [k \in 1 .. w |-> f]
           A == Low(val, x, w)
           signed == Arithmetical(operation)
<1>1. Last(x) = x[w] /\ x[w] \in Values(n) /\ (Says(val, x[w]) <=> 2 * A >= Pow2[w])
  BY TopBit
<1>2. f \in Values(n) /\ (Says(val, f) <=> (signed /\ 2 * A >= Pow2[w]))
  <2>1. CASE signed
    BY <1>1, <2>1 DEF Filling
  <2>2. CASE ~signed
    BY <2>2, ValuesAre, SaysConst DEF Filling
  <2> QED
    BY <2>1, <2>2 DEF Arithmetical
<1> HIDE DEF f
<1>3. y \in Words(w, n) /\ \A k \in 1 .. w : y[k] = f
  BY <1>2 DEF Words
<1> HIDE DEF y, A, signed
<1>4. Low(val, y, w) = IF Says(val, f) THEN Pow2[w] - 1 ELSE 0
  <2>1. CASE Says(val, f)
    <3>1. \A k \in 1 .. w : Says(val, y[k])
      BY <1>3, <2>1
    <3> QED
      BY <1>3, <2>1, <3>1, AllHold
  <2>2. CASE ~Says(val, f)
    <3>1. \A k \in 1 .. w : ~Says(val, y[k])
      BY <1>3, <2>2
    <3> QED
      BY <1>3, <2>2, <3>1, ZeroIs
  <2> QED
    BY <2>1, <2>2
<1>5. Low(val, y, w) = Emptied(operation, A, w)
  BY <1>2, <1>4 DEF Emptied, signed
<1> QED
  BY <1>2, <1>3, <1>5 DEF f, y, A

(* The bits of an offset or amount above those that are of use.             *)
BeyondIs(n, u, h) == (h # 0 => n >= Pow2[u]) /\ (~(h # 0) => Wrap(n, u) = n)

(* The bits of an amount above those the stages read say it is too large.   *)
LEMMA HighBits ==
  ASSUME NEW val, NEW q \in Nat, NEW n \in Nat, NEW x \in Words(q, n), NEW u \in Nat, u < q, NEW r, r = q - u
  PROVE  /\ SubSeq(x, u + 1, q) \in Words(r, n) /\ r \in Nat /\ r > 0
         /\ BeyondIs(Low(val, x, q), u, Low(val, SubSeq(x, u + 1, q), r))
<1> DEFINE y == SubSeq(x, u + 1, q)
           B == Low(val, x, q)
           L == Low(val, x, u)
           H == Low(val, y, r)
           P == Pow2[u]
<1>1. x \in Seq(Values(n)) /\ Len(x) = q /\ r \in Nat /\ r > 0
  BY WordShape
<1>2. y = [k \in 1 .. r |-> x[u + k]]
  <2>1. y = [k \in 1 .. q - (u + 1) + 1 |-> x[(u + 1) + k - 1]]
    BY <1>1
  <2>2. q - (u + 1) + 1 = r /\ \A k \in 1 .. r : (u + 1) + k - 1 = u + k
    OBVIOUS
  <2> QED
    BY <2>1, <2>2
<1>3. y \in Words(r, n) /\ \A k \in 1 .. r : y[k] = x[u + k]
  <2>1. \A k \in 1 .. r : x[u + k] \in Values(n)
    BY <1>1, WordShape
  <2> QED
    BY <1>2, <2>1 DEF Words
<1> HIDE DEF y
<1>4. PartOfWord(val, x, u, y, r, q)
  BY <1>1, <1>3 DEF PartOfWord
<1>5. B = L + (P * H)
  BY <1>4, LowSplits DEF SplitsAt
<1>6. L = Wrap(B, u)
  BY LowCut
<1>7. L \in Nat /\ H \in Nat /\ P \in Nat
  BY <1>1, LowType, Powers
<1>8. BeyondIs(B, u, H)
  <2> HIDE DEF B, L, H
  <2>1. H # 0 => B >= P
    <3> SUFFICES ASSUME H # 0 PROVE B >= P
      OBVIOUS
    <3>1. H >= 1 /\ P * H >= P
      BY <1>7
    <3> QED
      BY <1>5, <1>7, <3>1
  <2>2. H = 0 => B = L
    BY <1>5, <1>7
  <2> QED
    BY <1>6, <2>1, <2>2 DEF BeyondIs
<1> QED
  BY <1>1, <1>3, <1>8 DEF y

(* resize_values, unsigned.                                                 *)
Unsigned(x, u) == ResizeValues(x, u, FALSE)

(* Widened or cut without a sign.                                           *)
LEMMA UnsignedResize ==
  ASSUME NEW val \in [Nat -> BOOLEAN], NEW w \in Nat, w > 0, NEW n \in Nat, NEW x \in Words(w, n), NEW u \in Nat
  PROVE  Unsigned(x, u) \in Words(u, n) /\ Low(val, Unsigned(x, u), u) = Wrap(Low(val, x, w), u)
<1> DEFINE no == FALSE
           A == Low(val, x, w)
<1>1. no \in BOOLEAN
  OBVIOUS
<1>2. ReadAs(A, w, u, FALSE) = Wrap(A, u)
  BY ReadIs
<1> HIDE DEF no
<1>3. /\ ResizeValues(x, u, no) \in Words(u, n)
      /\ Low(val, ResizeValues(x, u, no), u) = ReadAs(A, w, u, no)
  BY <1>1, ResizeBuilds
<1> QED
  BY <1>2, <1>3 DEF no, Unsigned

(* The padding of the shifted operand is a resize.                          *)
LEMMA PaddedIs ==
  ASSUME NEW w \in Nat, w > 0, NEW x, Len(x) = w, x # <<>>, NEW p \in Nat, NEW operation \in Shifts
  PROVE  [k \in 1 .. p |-> IF k <= w THEN x[k] ELSE Filling(operation, x)] = ResizeValues(x, p, Arithmetical(operation))
BY DEF ResizeValues, Filling

LEMMA ShiftsAre == Shifts = ShiftOperators
BY DEF Shifts, ShiftOperators

(* Shifts of words of two bits or more, by amounts of any width.            *)
LEMMA ShiftBuilds ==
  ASSUME NEW val \in [Nat -> BOOLEAN], NEW drivers \in Vectors, NEW p \in Nat, p > 0, NEW a \in Words(p, Len(drivers)),
         NEW q \in Nat, q > 0, NEW b \in Words(q, Len(drivers)), NEW w \in Nat, w > 1, NEW operation \in Shifts
  PROVE  BuildsNumber(val, drivers, ShiftGates(drivers, operation, a, b, w), w,
                      Moved(operation, Wrap(Low(val, a, p), w), Low(val, b, q), w))
<1> DEFINE n == Len(drivers)
           signed == Arithmetical(operation)
           A == Wrap(Low(val, a, p), w)
           B == Low(val, b, q)
           u == PowerAtLeast[w]
           P == Pow2[u]
           wide == Unsigned(a, w)
           padded == ResizeValues(wide, P, signed)
           low == Unsigned(b, u)
           T == Wrap(B, u)
           shifted == Shifter(drivers, padded, low, operation)
           e == shifted.ds
           y == SubSeq(shifted.out, 1, w)
           fill == Filling(operation, wide)
           full == [k \in 1 .. w |-> fill]
           N == Moved(operation, A, B, w)
<1>1. n \in Nat /\ w > 0 /\ signed \in BOOLEAN /\ Len(a) = p /\ Len(b) = q /\ a \in Words(p, n) /\ b \in Words(q, n)
  BY VectorLength, WordShape DEF Arithmetical
<1>2. u \in Nat /\ u > 0 /\ w <= P /\ P \in Nat
  BY PowerCovers, Powers
<1> HIDE DEF n
<1>3. wide \in Words(w, n) /\ Low(val, wide, w) = A
  BY <1>1, UnsignedResize
<1> HIDE DEF signed
<1>4. A \in 0 .. Pow2[w] - 1 /\ B \in Nat /\ B \in 0 .. Pow2[q] - 1
  <2>1. A \in 0 .. Pow2[w] - 1
    BY <1>3, LowType
  <2> QED
    BY <2>1, LowType
<1> HIDE DEF wide
<1>5. padded \in Words(P, n) /\ Low(val, padded, P) = ReadAs(A, w, P, signed)
  <2> HIDE DEF A, P
  <2>1. padded \in Words(P, n) /\ Low(val, padded, P) = ReadAs(Low(val, wide, w), w, P, signed)
    BY <1>1, <1>2, <1>3, ResizeBuilds
  <2> QED
    BY <1>3, <2>1
<1>6. low \in Words(u, n) /\ Low(val, low, u) = T
  <2> HIDE DEF u
  <2> QED
    BY <1>1, <1>2, UnsignedResize
<1>7. T \in Nat
  <2> HIDE DEF B, u
  <2>1. B \in Int
    BY <1>4
  <2> QED
    BY <1>2, <2>1, WrapType
<1>8. [k \in 1 .. P |-> IF k <= w THEN wide[k] ELSE fill] = padded
  <2>1. Len(wide) = w /\ wide # <<>>
    BY <1>1, <1>3, WordShape
  <2>2. w \in Nat /\ w > 0 /\ P \in Nat
    BY <1>1, <1>2
  <2> HIDE DEF P
  <2>3. [k \in 1 .. P |-> IF k <= w THEN wide[k] ELSE Filling(operation, wide)]
          = ResizeValues(wide, P, Arithmetical(operation))
    BY <2>1, <2>2, PaddedIs
  <2> QED
    BY <2>3 DEF signed, padded, fill
<1>9. fill \in Values(n) /\ full \in Words(w, n) /\ Low(val, full, w) = Emptied(operation, A, w)
  <2> HIDE DEF A
  <2>1. fill \in Values(n) /\ full \in Words(w, n) /\ Low(val, full, w) = Emptied(operation, Low(val, wide, w), w)
    BY <1>1, <1>3, FillLow
  <2> QED
    BY <1>3, <2>1
<1>10. ShiftGates(drivers, operation, a, b, w) =
         IF q <= u THEN Built(e, y)
         ELSE Mux(TruthyGate(e, SubSeq(b, u + 1, q)).ds, y, full, TruthyGate(e, SubSeq(b, u + 1, q)).out)
  <2>1. ~(u = 0) /\ Len(b) = q
    BY <1>1, <1>2
  <2> DEFINE other == [k \in 1 .. P |-> IF k <= w THEN wide[k] ELSE fill]
             first == Shifter(drivers, other, low, operation)
  <2>2. ShiftGates(drivers, operation, a, b, w) =
          IF q <= u THEN Built(first.ds, SubSeq(first.out, 1, w))
          ELSE Mux(TruthyGate(first.ds, SubSeq(b, u + 1, q)).ds, SubSeq(first.out, 1, w), full,
                   TruthyGate(first.ds, SubSeq(b, u + 1, q)).out)
    BY <2>1 DEF ShiftGates, Then, wide, Unsigned, Filling, Arithmetical
  <2>3. first = shifted
    BY <1>8
  <2> HIDE DEF first, shifted, full
  <2> QED
    BY <2>2, <2>3
<1> HIDE DEF padded, low, fill, full
<1>11. BuildsNumber(val, drivers, shifted, P, Moved(operation, ReadAs(A, w, P, signed), T, P))
  <2>1. BuildsNumber(val, drivers, shifted, P, Moved(operation, Low(val, padded, P), Low(val, low, u), P))
    <3> HIDE DEF P, u
    <3>1. padded \in Words(P, Len(drivers)) /\ low \in Words(u, Len(drivers)) /\ P > 0
      BY <1>1, <1>2, <1>5, <1>6 DEF n
    <3> QED
      BY <1>2, <3>1, ShifterBuilds
  <2> QED
    BY <1>5, <1>6, <2>1
<1> HIDE DEF shifted, A, B
<1>12. BuildsNumber(val, drivers, Built(e, y), w, Moved(operation, A, T, w))
  <2> DEFINE Z == Moved(operation, ReadAs(A, w, P, signed), T, P)
  <2>1. Wrap(Z, w) = Moved(operation, A, T, w)
    <3> HIDE DEF P, T
    <3> QED
      BY <1>1, <1>2, <1>4, <1>7, MovedPadded DEF signed
  <2>2. BuildsNumber(val, drivers, shifted, P, Z)
    BY <1>11
  <2> HIDE DEF Z, P, T
  <2>3. BuildsNumber(val, drivers, Built(e, y), w, Wrap(Z, w))
    BY <1>2, <2>2, CutBuilds
  <2> QED
    BY <2>1, <2>3
<1>13. CASE q <= u
  <2>1. T = B
    <3> HIDE DEF u
    <3>1. B \in 0 .. Pow2[u] - 1 /\ Wrap(B, u) = B
      BY <1>2, <1>4, <1>13, WrapFits
    <3> QED
      BY <3>1
  <2> HIDE DEF e, y, T
  <2> QED
    BY <1>10, <1>12, <1>13, <2>1 DEF A, B
<1>14. CASE ~(q <= u)
  <2> DEFINE r == q - u
             high == SubSeq(b, u + 1, q)
             H == Low(val, high, r)
             s == TruthyGate(e, high)
             big == H # 0
             M0 == Moved(operation, A, T, w)
             E0 == Emptied(operation, A, w)
  <2>1. high \in Words(r, n) /\ r \in Nat /\ r > 0 /\ BeyondIs(B, u, H)
    <3> HIDE DEF u, B
    <3>1. u < q
      BY <1>2, <1>14
    <3>2. high \in Words(r, n) /\ r \in Nat /\ r > 0 /\ BeyondIs(Low(val, b, q), u, H)
      BY <1>1, <1>2, <3>1, HighBits
    <3> QED
      BY <3>2 DEF B
  <2> DEFINE g == Built(e, y)
  <2>2. g.ds = e /\ g.out = y
    BY DEF Built
  <2>3. g.ds \in Vectors /\ high \in Words(r, Len(g.ds))
    <3> HIDE DEF g, r, high
    <3> QED
      BY <1>12, <2>1, NumberBuilt DEF n, g
  <2>4. BuildsBit(val, g.ds, s, big)
    <3> HIDE DEF high, r, y
    <3>1. BuildsBit(val, g.ds, TruthyGate(g.ds, high), Low(val, high, r) # 0)
      BY <2>1, <2>3, TruthyBuilds
    <3> QED
      BY <2>2, <3>1
  <2>5. full \in Words(w, Len(drivers)) /\ E0 = Low(val, full, w)
    BY <1>9 DEF n
  <2>6. BuildsNumber(val, drivers, g, w, M0)
    BY <1>12
  <2> HIDE DEF g, s, big, M0, E0
  <2>7. BuildsNumber(val, drivers, Mux(s.ds, g.out, full, s.out), w, IF big THEN E0 ELSE M0)
    BY <2>4, <2>5, <2>6, OverriddenBuilds
  <2>8. (IF big THEN E0 ELSE M0) = N
    <3>1. CASE big
      <4>1. B >= P
        BY <2>1, <3>1 DEF BeyondIs, big
      <4>2. w <= B
        <5> HIDE DEF P, u
        <5> QED
          BY <1>2, <1>4, <4>1
      <4>3. N = E0
        BY <1>1, <1>4, <4>2, MovedAway DEF E0
      <4> QED
        BY <3>1, <4>3
    <3>2. CASE ~big
      <4>1. T = B
        BY <2>1, <3>2 DEF BeyondIs, big
      <4> HIDE DEF T
      <4>2. M0 = N
        BY <4>1 DEF M0
      <4> QED
        BY <3>2, <4>2
    <3> QED
      BY <3>1, <3>2
  <2>9. ShiftGates(drivers, operation, a, b, w) = Mux(s.ds, g.out, full, s.out)
    BY <1>10, <1>14, <2>2 DEF s
  <2> HIDE DEF N, full
  <2> QED
    BY <2>7, <2>8, <2>9 DEF N, A, B
<1> QED
  BY <1>13, <1>14

SignExtended(x, u) == ResizeValues(x, u, TRUE)

(* Widened or cut with its sign.                                            *)
LEMMA SignedResize ==
  ASSUME NEW val \in [Nat -> BOOLEAN], NEW w \in Nat, w > 0, NEW n \in Nat, NEW x \in Words(w, n), NEW u \in Nat
  PROVE  /\ SignExtended(x, u) \in Words(u, n)
         /\ Low(val, SignExtended(x, u), u) = Wrap(SignedOf(Low(val, x, w), w), u)
<1> DEFINE yes == TRUE
           A == Low(val, x, w)
<1>1. yes \in BOOLEAN
  OBVIOUS
<1>2. ReadAs(A, w, u, TRUE) = Wrap(SignedOf(A, w), u)
  BY DEF ReadAs
<1> HIDE DEF yes
<1>3. /\ ResizeValues(x, u, yes) \in Words(u, n)
      /\ Low(val, ResizeValues(x, u, yes), u) = ReadAs(A, w, u, yes)
  BY <1>1, ResizeBuilds
<1> QED
  BY <1>2, <1>3 DEF yes, SignExtended

--------------------------------------------------------------------------------
(* binary_expression, one operator after another.                           *)
LEMMA BitwiseBuilds ==
  ASSUME NEW val \in [Nat -> BOOLEAN], NEW drivers \in Vectors, NEW w \in Nat,
         NEW a \in Words(w, Len(drivers)), NEW b \in Words(w, Len(drivers)),
         NEW A, NEW B, A = Low(val, a, w), B = Low(val, b, w)
  PROVE  /\ BuildsNumber(val, drivers, GateWord(drivers, "And", a, b, w), w, AndOf(A, B, w))
         /\ BuildsNumber(val, drivers, GateWord(drivers, "Or", a, b, w), w, OrOf(A, B, w))
         /\ BuildsNumber(val, drivers, XorWord(drivers, a, b, w), w, XorOf(A, B, w))
<1> DEFINE type == "And"
           other == "Or"
           last == "Xor"
<1>1. type \in {"And", "Or"} /\ other \in {"And", "Or"} /\ {type, other, last} \subseteq {"And", "Or", "Xor"}
  OBVIOUS
<1>2. /\ CombinedOf(type, A, B, w) = AndOf(A, B, w) /\ CombinedOf(other, A, B, w) = OrOf(A, B, w)
      /\ CombinedOf(last, A, B, w) = XorOf(A, B, w)
  BY DEF CombinedOf
<1>3. BuildsJoin(val, drivers, XorWord(drivers, a, b, w), a, b, last, w)
  BY XorWordBuilds
<1> HIDE DEF type, other, last
<1>4. BuildsJoin(val, drivers, GateWord(drivers, type, a, b, w), a, b, type, w)
  BY <1>1, GateWordBuilds
<1>5. BuildsJoin(val, drivers, GateWord(drivers, other, a, b, w), a, b, other, w)
  BY <1>1, GateWordBuilds
<1>6. BuildsNumber(val, drivers, GateWord(drivers, type, a, b, w), w, CombinedOf(type, Low(val, a, w), Low(val, b, w), w))
  BY <1>1, <1>4, JoinMeans
<1>7. BuildsNumber(val, drivers, GateWord(drivers, other, a, b, w), w, CombinedOf(other, Low(val, a, w), Low(val, b, w), w))
  BY <1>1, <1>5, JoinMeans
<1>8. BuildsNumber(val, drivers, XorWord(drivers, a, b, w), w, CombinedOf(last, Low(val, a, w), Low(val, b, w), w))
  BY <1>1, <1>3, JoinMeans
<1> QED
  BY <1>2, <1>6, <1>7, <1>8 DEF type, other, last

LogicalGates(drivers, type, a, b) ==
  Then(TruthyGate(drivers, a), LAMBDA left :
  Then(TruthyGate(left.ds, b), LAMBDA right :
  Then(Gate(right.ds, type, left.out, right.out), LAMBDA g :
  Built(g.ds, <<g.out>>))))

(* The logical operations join two tests for zero.                          *)
LEMMA LogicalBuilds ==
  ASSUME NEW val \in [Nat -> BOOLEAN], NEW drivers \in Vectors, NEW p \in Nat, p > 0, NEW a \in Words(p, Len(drivers)),
         NEW q \in Nat, q > 0, NEW b \in Words(q, Len(drivers)), NEW type \in {"And", "Or"}
  PROVE  BuildsNumber(val, drivers, LogicalGates(drivers, type, a, b), 1,
                      Truth(Joins(type, Low(val, a, p) # 0, Low(val, b, q) # 0)))
<1> DEFINE A == Low(val, a, p) # 0
           B == Low(val, b, q) # 0
           left == TruthyGate(drivers, a)
           e == left.ds
           l == left.out
           right == TruthyGate(e, b)
           f == right.ds
           r == right.out
           g == Gate(f, type, l, r)
           c == Joins(type, A, B)
           d == Joins(type, Says(val, l), Says(val, r))
<1>1. LogicalGates(drivers, type, a, b) = OneBit(g)
  BY DEF LogicalGates, Then, OneBit
<1>2. BuildsBit(val, drivers, left, A)
  BY TruthyBuilds
<1> HIDE DEF left, A
<1>3. /\ e \in Vectors /\ Len(e) \in Nat /\ l \in Values(Len(e)) /\ Follows(val, drivers, e)
      /\ Respects(val, e) => (Says(val, l) <=> A)
  BY <1>2, BitBuilt
<1>4. b \in Words(q, Len(e))
  BY <1>3, WordsGrow
<1> HIDE DEF e, l
<1>5. BuildsBit(val, e, right, B)
  BY <1>3, <1>4, TruthyBuilds
<1> HIDE DEF right, B
<1>6. /\ f \in Vectors /\ Len(f) \in Nat /\ r \in Values(Len(f)) /\ Follows(val, e, f) /\ Values(Len(e)) \subseteq Values(Len(f))
      /\ Respects(val, f) => Respects(val, e) /\ (Says(val, r) <=> B)
  BY <1>5, BitBuilt
<1> HIDE DEF f, r
<1>7. BuildsBit(val, f, g, d)
  BY <1>3, <1>6, GateBuilds
<1>8. Follows(val, drivers, f)
  BY <1>3, <1>6, FollowsOn
<1>9. Respects(val, f) => (d <=> c)
  BY <1>3, <1>6 DEF Joins
<1> HIDE DEF g, c, d
<1>10. BuildsBit(val, drivers, g, c)
  BY <1>7, <1>8, <1>9, BitAfter
<1>11. BuildsNumber(val, drivers, OneBit(g), 1, Truth(c))
  BY <1>10, OneBitBuilds
<1> QED
  BY <1>1, <1>11 DEF c, A, B

(* Concatenation: the first operand is the higher part.                     *)
LEMMA JoinedBuilds ==
  ASSUME NEW val, NEW drivers \in Vectors, NEW u \in Nat, NEW w \in Nat, NEW e \in Nat, Adds(w, u, e),
         NEW a \in Words(u, Len(drivers)), NEW b \in Words(w, Len(drivers))
  PROVE  BuildsNumber(val, drivers, Built(drivers, b \o a), e, (Low(val, a, u) * Pow2[w]) + Low(val, b, w))
<1> DEFINE n == Len(drivers)
           z == b \o a
           A == Low(val, a, u)
           B == Low(val, b, w)
           W == Pow2[w]
<1>1. n \in Nat /\ Follow(b, a, z) /\ a \in Words(u, n) /\ b \in Words(w, n)
  BY VectorLength DEF Follow
<1>2. A \in Nat /\ B \in Nat /\ W \in Nat
  BY LowType, Powers
<1> HIDE DEF n, z
<1>3. z \in Words(e, n) /\ LowJoined(val, b, w, a, u, z, e)
  BY <1>1, WordsJoined
<1>4. Low(val, z, e) = B + (W * A)
  BY <1>3 DEF LowJoined
<1> HIDE DEF A, B, W
<1>5. B + (W * A) = (A * W) + B
  BY <1>2
<1>6. Low(val, z, e) = (A * W) + B
  BY <1>4, <1>5
<1>7. BuildsNumber(val, drivers, Built(drivers, z), e, (A * W) + B)
  <2> DEFINE m == (A * W) + B
  <2>1. Low(val, z, e) = m /\ z \in Words(e, Len(drivers))
    BY <1>3, <1>6 DEF n
  <2> HIDE DEF m
  <2> QED
    BY <2>1, WordBuilt DEF m
<1> QED
  BY <1>7 DEF z, A, B, W

(* Each of the operators that builds on two words of the same width.        *)
EvenOperators == {"BitwiseAnd", "BitwiseOr", "BitwiseXor", "MultiplyUnsigned", "DivideUnsigned"}
EvenGates(drivers, operator, a, b, w) ==
  CASE operator = "BitwiseAnd" -> GateWord(drivers, "And", a, b, w)
    [] operator = "BitwiseOr" -> GateWord(drivers, "Or", a, b, w)
    [] operator = "BitwiseXor" -> XorWord(drivers, a, b, w)
    [] operator = "MultiplyUnsigned" -> Multiplication(drivers, a, b)
    [] operator = "DivideUnsigned" -> UnsignedDivision(drivers, a, b)
EvenMeans(operator, A, B, w) ==
  CASE operator = "BitwiseAnd" -> AndOf(A, B, w)
    [] operator = "BitwiseOr" -> OrOf(A, B, w)
    [] operator = "BitwiseXor" -> XorOf(A, B, w)
    [] operator = "MultiplyUnsigned" -> Wrap(A * B, w)
    [] operator = "DivideUnsigned" -> Quotient(A, B, w, FALSE)

(* The operations whose operands are first given the width of the result.   *)
LEMMA EvenBuilds ==
  ASSUME NEW val \in [Nat -> BOOLEAN], NEW drivers \in Vectors, NEW w \in Nat,
         NEW a \in Words(w, Len(drivers)), NEW b \in Words(w, Len(drivers)), NEW operator \in EvenOperators
  PROVE  BuildsNumber(val, drivers, EvenGates(drivers, operator, a, b, w), w, EvenMeans(operator, Low(val, a, w), Low(val, b, w), w))
<1> DEFINE A == Low(val, a, w)
           B == Low(val, b, w)
<1>1. /\ BuildsNumber(val, drivers, GateWord(drivers, "And", a, b, w), w, AndOf(A, B, w))
      /\ BuildsNumber(val, drivers, GateWord(drivers, "Or", a, b, w), w, OrOf(A, B, w))
      /\ BuildsNumber(val, drivers, XorWord(drivers, a, b, w), w, XorOf(A, B, w))
  <2> HIDE DEF A, B
  <2>1. A = Low(val, a, w) /\ B = Low(val, b, w)
    BY DEF A, B
  <2> QED
    BY <2>1, BitwiseBuilds
<1>2. BuildsNumber(val, drivers, Multiplication(drivers, a, b), w, Wrap(A * B, w))
  BY MultiplicationBuilds
<1>3. BuildsNumber(val, drivers, UnsignedDivision(drivers, a, b), w, Quotient(A, B, w, FALSE))
  <2>1. BuildsNumber(val, drivers, UnsignedDivision(drivers, a, b), w, Divide(A, B, w))
    BY UnsignedDivisionBuilds
  <2>2. Divide(A, B, w) = Quotient(A, B, w, FALSE)
    BY LowType, UnsignedQuotient
  <2> HIDE DEF A, B
  <2> QED
    BY <2>1, <2>2
<1> HIDE DEF A, B
<1> DEFINE G == EvenGates(drivers, operator, a, b, w)
           N == EvenMeans(operator, A, B, w)
<1>4. CASE operator = "BitwiseAnd"
  BY <1>1, <1>4 DEF EvenGates, EvenMeans, A, B
<1>5. CASE operator = "BitwiseOr"
  BY <1>1, <1>5 DEF EvenGates, EvenMeans, A, B
<1>6. CASE operator = "BitwiseXor"
  BY <1>1, <1>6 DEF EvenGates, EvenMeans, A, B
<1>7. CASE operator = "MultiplyUnsigned"
  BY <1>2, <1>7 DEF EvenGates, EvenMeans, A, B
<1>8. CASE operator = "DivideUnsigned"
  BY <1>3, <1>8 DEF EvenGates, EvenMeans, A, B
<1> QED
  BY <1>4, <1>5, <1>6, <1>7, <1>8 DEF EvenOperators

(* binary_expression: every operator, for operands of all widths.  A shift  *)
(* of a single bit is the exception that FormalMeans excuses.               *)
BinaryOperators == SignlessOperators \cup {"Add", "Subtract"} \cup Comparisons \cup LogicalOperators \cup Shifts \cup {"Concat"}
BinaryWidth(operator, p, q, w) ==
  IF operator \in Comparisons \cup LogicalOperators THEN 1 ELSE IF operator = "Concat" THEN p + q ELSE w

(* The width of each binary operation.                                      *)
LEMMA BinaryWidthIs ==
  ASSUME NEW p, NEW q, NEW w
  PROVE  /\ \A operator \in Comparisons \cup LogicalOperators : BinaryWidth(operator, p, q, w) = 1
         /\ \A operator \in SignlessOperators \cup {"Add", "Subtract"} \cup Shifts : BinaryWidth(operator, p, q, w) = w
         /\ BinaryWidth("Concat", p, q, w) = p + q
<1>1. \A operator \in SignlessOperators \cup {"Add", "Subtract"} \cup Shifts : operator \notin Comparisons \cup LogicalOperators \cup {"Concat"}
  BY DEF SignlessOperators, BitwiseOperators, Shifts, Comparisons, SignedComparisons, LogicalOperators
<1>2. "Concat" \notin Comparisons \cup LogicalOperators
  BY DEF Comparisons, SignedComparisons, LogicalOperators
<1> QED
  BY <1>1, <1>2 DEF BinaryWidth

(* The arms of binary_expression exclude each other.                        *)
NamedOperators == SignlessOperators \cup {"Add", "Subtract"} \cup LogicalOperators \cup {"Concat"}

(* Every operator has one arm of its own.                                   *)
LEMMA ArmsExclude ==
  /\ \A operator \in NamedOperators : operator \notin Comparisons /\ operator \notin Shifts
  /\ \A operator \in Shifts : operator \notin Comparisons
<1>1. \A operator \in NamedOperators : operator \notin Shifts
  BY DEF NamedOperators, SignlessOperators, BitwiseOperators, LogicalOperators, Shifts
<1>2. \A operator \in Shifts : operator \notin Comparisons
  BY DEF Shifts, Comparisons, SignedComparisons
<1>3. \A operator \in NamedOperators : operator \notin Comparisons
  BY DEF NamedOperators, SignlessOperators, BitwiseOperators, LogicalOperators, Comparisons, SignedComparisons
<1> QED
  BY <1>1, <1>2, <1>3

(* The gates of each operator.                                              *)
LEMMA GatesAre ==
  ASSUME NEW drivers, NEW a, NEW b, NEW w, NEW signed
  PROVE  /\ BinaryGates(drivers, "Add", a, b, w, signed) = Addition(drivers, ResizeValues(a, w, signed), ResizeValues(b, w, signed))
         /\ BinaryGates(drivers, "Subtract", a, b, w, signed) = Subtraction(drivers, ResizeValues(a, w, signed), ResizeValues(b, w, signed))
         /\ BinaryGates(drivers, "BitwiseAnd", a, b, w, signed) = GateWord(drivers, "And", Unsigned(a, w), Unsigned(b, w), w)
         /\ BinaryGates(drivers, "BitwiseOr", a, b, w, signed) = GateWord(drivers, "Or", Unsigned(a, w), Unsigned(b, w), w)
         /\ BinaryGates(drivers, "BitwiseXor", a, b, w, signed) = XorWord(drivers, Unsigned(a, w), Unsigned(b, w), w)
         /\ BinaryGates(drivers, "MultiplyUnsigned", a, b, w, signed) = Multiplication(drivers, Unsigned(a, w), Unsigned(b, w))
         /\ BinaryGates(drivers, "MultiplySigned", a, b, w, signed) = Multiplication(drivers, SignExtended(a, w), SignExtended(b, w))
         /\ BinaryGates(drivers, "DivideUnsigned", a, b, w, signed) = UnsignedDivision(drivers, Unsigned(a, w), Unsigned(b, w))
         /\ BinaryGates(drivers, "DivideSigned", a, b, w, signed) = SignedDivision(drivers, SignExtended(a, w), SignExtended(b, w))
         /\ BinaryGates(drivers, "LogicalAnd", a, b, w, signed) = LogicalGates(drivers, "And", a, b)
         /\ BinaryGates(drivers, "LogicalOr", a, b, w, signed) = LogicalGates(drivers, "Or", a, b)
         /\ BinaryGates(drivers, "Concat", a, b, w, signed) = Built(drivers, b \o a)
<1>1. \A operator \in NamedOperators : operator \notin Comparisons /\ operator \notin {"ShiftLeft", "ShiftRight", "ShiftRightArithmetic"}
  BY ArmsExclude DEF Shifts
<1>2. \A operator \in Shifts : operator \notin Comparisons
  BY ArmsExclude
<1>3. BinaryGates(drivers, "Add", a, b, w, signed) = Addition(drivers, ResizeValues(a, w, signed), ResizeValues(b, w, signed))
  <2>1. "Add" \in NamedOperators
    BY DEF NamedOperators, SignlessOperators, BitwiseOperators, LogicalOperators
  <2>2. "Add" \notin Comparisons /\ "Add" \notin {"ShiftLeft", "ShiftRight", "ShiftRightArithmetic"}
    BY <1>1, <2>1
  <2> QED
    BY <2>2, ZenonT(60) DEF BinaryGates
<1>4. BinaryGates(drivers, "Subtract", a, b, w, signed) = Subtraction(drivers, ResizeValues(a, w, signed), ResizeValues(b, w, signed))
  <2>1. "Subtract" \in NamedOperators
    BY DEF NamedOperators, SignlessOperators, BitwiseOperators, LogicalOperators
  <2>2. "Subtract" \notin Comparisons /\ "Subtract" \notin {"ShiftLeft", "ShiftRight", "ShiftRightArithmetic"}
    BY <1>1, <2>1
  <2> QED
    BY <2>2, ZenonT(60) DEF BinaryGates
<1>5. BinaryGates(drivers, "BitwiseAnd", a, b, w, signed) = GateWord(drivers, "And", Unsigned(a, w), Unsigned(b, w), w)
  <2>1. "BitwiseAnd" \in NamedOperators
    BY DEF NamedOperators, SignlessOperators, BitwiseOperators, LogicalOperators
  <2>2. "BitwiseAnd" \notin Comparisons /\ "BitwiseAnd" \notin {"ShiftLeft", "ShiftRight", "ShiftRightArithmetic"}
    BY <1>1, <2>1
  <2> QED
    BY <2>2, ZenonT(60) DEF BinaryGates, GateWord, Unsigned
<1>6. BinaryGates(drivers, "BitwiseOr", a, b, w, signed) = GateWord(drivers, "Or", Unsigned(a, w), Unsigned(b, w), w)
  <2>1. "BitwiseOr" \in NamedOperators
    BY DEF NamedOperators, SignlessOperators, BitwiseOperators, LogicalOperators
  <2>2. "BitwiseOr" \notin Comparisons /\ "BitwiseOr" \notin {"ShiftLeft", "ShiftRight", "ShiftRightArithmetic"}
    BY <1>1, <2>1
  <2> QED
    BY <2>2, ZenonT(60) DEF BinaryGates, GateWord, Unsigned
<1>7. BinaryGates(drivers, "BitwiseXor", a, b, w, signed) = XorWord(drivers, Unsigned(a, w), Unsigned(b, w), w)
  <2>1. "BitwiseXor" \in NamedOperators
    BY DEF NamedOperators, SignlessOperators, BitwiseOperators, LogicalOperators
  <2>2. "BitwiseXor" \notin Comparisons /\ "BitwiseXor" \notin {"ShiftLeft", "ShiftRight", "ShiftRightArithmetic"}
    BY <1>1, <2>1
  <2> QED
    BY <2>2, ZenonT(60) DEF BinaryGates, XorWord, Unsigned
<1>8. BinaryGates(drivers, "MultiplyUnsigned", a, b, w, signed) = Multiplication(drivers, Unsigned(a, w), Unsigned(b, w))
  <2>1. "MultiplyUnsigned" \in NamedOperators
    BY DEF NamedOperators, SignlessOperators, BitwiseOperators, LogicalOperators
  <2>2. "MultiplyUnsigned" \notin Comparisons /\ "MultiplyUnsigned" \notin {"ShiftLeft", "ShiftRight", "ShiftRightArithmetic"}
    BY <1>1, <2>1
  <2> QED
    BY <2>2, ZenonT(60) DEF BinaryGates, Unsigned
<1>9. BinaryGates(drivers, "MultiplySigned", a, b, w, signed) = Multiplication(drivers, SignExtended(a, w), SignExtended(b, w))
  <2>1. "MultiplySigned" \in NamedOperators
    BY DEF NamedOperators, SignlessOperators, BitwiseOperators, LogicalOperators
  <2>2. "MultiplySigned" \notin Comparisons /\ "MultiplySigned" \notin {"ShiftLeft", "ShiftRight", "ShiftRightArithmetic"}
    BY <1>1, <2>1
  <2> QED
    BY <2>2, ZenonT(60) DEF BinaryGates, SignExtended
<1>10. BinaryGates(drivers, "DivideUnsigned", a, b, w, signed) = UnsignedDivision(drivers, Unsigned(a, w), Unsigned(b, w))
  <2>1. "DivideUnsigned" \in NamedOperators
    BY DEF NamedOperators, SignlessOperators, BitwiseOperators, LogicalOperators
  <2>2. "DivideUnsigned" \notin Comparisons /\ "DivideUnsigned" \notin {"ShiftLeft", "ShiftRight", "ShiftRightArithmetic"}
    BY <1>1, <2>1
  <2> QED
    BY <2>2, ZenonT(60) DEF BinaryGates, Unsigned
<1>11. BinaryGates(drivers, "DivideSigned", a, b, w, signed) = SignedDivision(drivers, SignExtended(a, w), SignExtended(b, w))
  <2>1. "DivideSigned" \in NamedOperators
    BY DEF NamedOperators, SignlessOperators, BitwiseOperators, LogicalOperators
  <2>2. "DivideSigned" \notin Comparisons /\ "DivideSigned" \notin {"ShiftLeft", "ShiftRight", "ShiftRightArithmetic"}
    BY <1>1, <2>1
  <2> QED
    BY <2>2, ZenonT(60) DEF BinaryGates, SignExtended
<1>12. BinaryGates(drivers, "LogicalAnd", a, b, w, signed) = LogicalGates(drivers, "And", a, b)
  <2>1. "LogicalAnd" \in NamedOperators
    BY DEF NamedOperators, SignlessOperators, BitwiseOperators, LogicalOperators
  <2>2. "LogicalAnd" \notin Comparisons /\ "LogicalAnd" \notin {"ShiftLeft", "ShiftRight", "ShiftRightArithmetic"}
    BY <1>1, <2>1
  <2> QED
    BY <2>2, ZenonT(60) DEF BinaryGates, LogicalGates
<1>13. BinaryGates(drivers, "LogicalOr", a, b, w, signed) = LogicalGates(drivers, "Or", a, b)
  <2>1. "LogicalOr" \in NamedOperators
    BY DEF NamedOperators, SignlessOperators, BitwiseOperators, LogicalOperators
  <2>2. "LogicalOr" \notin Comparisons /\ "LogicalOr" \notin {"ShiftLeft", "ShiftRight", "ShiftRightArithmetic"}
    BY <1>1, <2>1
  <2> QED
    BY <2>2, ZenonT(60) DEF BinaryGates, LogicalGates
<1>14. BinaryGates(drivers, "Concat", a, b, w, signed) = Built(drivers, b \o a)
  <2>1. "Concat" \in NamedOperators
    BY DEF NamedOperators, SignlessOperators, BitwiseOperators, LogicalOperators
  <2>2. "Concat" \notin Comparisons /\ "Concat" \notin {"ShiftLeft", "ShiftRight", "ShiftRightArithmetic"}
    BY <1>1, <2>1
  <2> QED
    BY <2>2, ZenonT(60) DEF BinaryGates
<1> QED
  BY <1>3, <1>4, <1>5, <1>6, <1>7, <1>8, <1>9, <1>10, <1>11, <1>12, <1>13, <1>14

(* What each operator means.                                                *)
LEMMA AddMeans ==
  ASSUME NEW A, NEW p, NEW B, NEW q, NEW w, NEW signed
  PROVE  BinaryMeans("Add", A, p, B, q, w, signed) = Wrap(ReadAs(A, p, w, signed) + ReadAs(B, q, w, signed), w)
<1>1. "Add" \in NamedOperators
  BY DEF NamedOperators, SignlessOperators, BitwiseOperators, LogicalOperators
<1>2. "Add" \notin Comparisons /\ "Add" \notin {"ShiftLeft", "ShiftRight", "ShiftRightArithmetic"}
  BY <1>1, ArmsExclude DEF Shifts
<1> QED
  BY <1>2, ZenonT(60) DEF BinaryMeans

(* BinaryMeans, one operator at a time: what follows unfolds its cases.     *)
LEMMA SubtractMeans ==
  ASSUME NEW A, NEW p, NEW B, NEW q, NEW w, NEW signed
  PROVE  BinaryMeans("Subtract", A, p, B, q, w, signed) = Wrap(ReadAs(A, p, w, signed) - ReadAs(B, q, w, signed), w)
<1>1. "Subtract" \in NamedOperators
  BY DEF NamedOperators, SignlessOperators, BitwiseOperators, LogicalOperators
<1>2. "Subtract" \notin Comparisons /\ "Subtract" \notin {"ShiftLeft", "ShiftRight", "ShiftRightArithmetic"}
  BY <1>1, ArmsExclude DEF Shifts
<1> QED
  BY <1>2, ZenonT(60) DEF BinaryMeans

LEMMA BitwiseAndMeans ==
  ASSUME NEW A, NEW p, NEW B, NEW q, NEW w, NEW signed
  PROVE  BinaryMeans("BitwiseAnd", A, p, B, q, w, signed) = AndOf(Wrap(A, w), Wrap(B, w), w)
<1>1. "BitwiseAnd" \in NamedOperators
  BY DEF NamedOperators, SignlessOperators, BitwiseOperators, LogicalOperators
<1>2. "BitwiseAnd" \notin Comparisons /\ "BitwiseAnd" \notin {"ShiftLeft", "ShiftRight", "ShiftRightArithmetic"}
  BY <1>1, ArmsExclude DEF Shifts
<1> QED
  BY <1>2, ZenonT(60) DEF BinaryMeans, ReadAs

LEMMA BitwiseOrMeans ==
  ASSUME NEW A, NEW p, NEW B, NEW q, NEW w, NEW signed
  PROVE  BinaryMeans("BitwiseOr", A, p, B, q, w, signed) = OrOf(Wrap(A, w), Wrap(B, w), w)
<1>1. "BitwiseOr" \in NamedOperators
  BY DEF NamedOperators, SignlessOperators, BitwiseOperators, LogicalOperators
<1>2. "BitwiseOr" \notin Comparisons /\ "BitwiseOr" \notin {"ShiftLeft", "ShiftRight", "ShiftRightArithmetic"}
  BY <1>1, ArmsExclude DEF Shifts
<1> QED
  BY <1>2, ZenonT(60) DEF BinaryMeans, ReadAs

LEMMA BitwiseXorMeans ==
  ASSUME NEW A, NEW p, NEW B, NEW q, NEW w, NEW signed
  PROVE  BinaryMeans("BitwiseXor", A, p, B, q, w, signed) = XorOf(Wrap(A, w), Wrap(B, w), w)
<1>1. "BitwiseXor" \in NamedOperators
  BY DEF NamedOperators, SignlessOperators, BitwiseOperators, LogicalOperators
<1>2. "BitwiseXor" \notin Comparisons /\ "BitwiseXor" \notin {"ShiftLeft", "ShiftRight", "ShiftRightArithmetic"}
  BY <1>1, ArmsExclude DEF Shifts
<1> QED
  BY <1>2, ZenonT(60) DEF BinaryMeans, ReadAs

LEMMA MultiplyUnsignedMeans ==
  ASSUME NEW A, NEW p, NEW B, NEW q, NEW w, NEW signed
  PROVE  BinaryMeans("MultiplyUnsigned", A, p, B, q, w, signed) = Wrap(Wrap(A, w) * Wrap(B, w), w)
<1>1. "MultiplyUnsigned" \in NamedOperators
  BY DEF NamedOperators, SignlessOperators, BitwiseOperators, LogicalOperators
<1>2. "MultiplyUnsigned" \notin Comparisons /\ "MultiplyUnsigned" \notin {"ShiftLeft", "ShiftRight", "ShiftRightArithmetic"}
  BY <1>1, ArmsExclude DEF Shifts
<1> QED
  BY <1>2, ZenonT(60) DEF BinaryMeans, ReadAs

LEMMA MultiplySignedMeans ==
  ASSUME NEW A, NEW p, NEW B, NEW q, NEW w, NEW signed
  PROVE  BinaryMeans("MultiplySigned", A, p, B, q, w, signed) = Wrap(SignedOf(A, p) * SignedOf(B, q), w)
<1>1. "MultiplySigned" \in NamedOperators
  BY DEF NamedOperators, SignlessOperators, BitwiseOperators, LogicalOperators
<1>2. "MultiplySigned" \notin Comparisons /\ "MultiplySigned" \notin {"ShiftLeft", "ShiftRight", "ShiftRightArithmetic"}
  BY <1>1, ArmsExclude DEF Shifts
<1> QED
  BY <1>2, ZenonT(60) DEF BinaryMeans

DivideNumbers(a, b, w) == Quotient(a, b, w, FALSE)
LEMMA DivideUnsignedMeans ==
  ASSUME NEW A, NEW p, NEW B, NEW q, NEW w, NEW signed
  PROVE  BinaryMeans("DivideUnsigned", A, p, B, q, w, signed) = DivideNumbers(Wrap(A, w), Wrap(B, w), w)
<1>1. "DivideUnsigned" \in NamedOperators
  BY DEF NamedOperators, SignlessOperators, BitwiseOperators, LogicalOperators
<1>2. "DivideUnsigned" \notin Comparisons /\ "DivideUnsigned" \notin {"ShiftLeft", "ShiftRight", "ShiftRightArithmetic"}
  BY <1>1, ArmsExclude DEF Shifts
<1> QED
  BY <1>2, ZenonT(60) DEF BinaryMeans, ReadAs, DivideNumbers

(* Division of numbers, and of numbers in two's complement.                 *)
DivideTwos(a, b, w) == Quotient(a, b, w, TRUE)
LEMMA DivideSignedMeans ==
  ASSUME NEW A, NEW p, NEW B, NEW q, NEW w, NEW signed
  PROVE  BinaryMeans("DivideSigned", A, p, B, q, w, signed) = DivideTwos(Wrap(SignedOf(A, p), w), Wrap(SignedOf(B, q), w), w)
<1>1. "DivideSigned" \in NamedOperators
  BY DEF NamedOperators, SignlessOperators, BitwiseOperators, LogicalOperators
<1>2. "DivideSigned" \notin Comparisons /\ "DivideSigned" \notin {"ShiftLeft", "ShiftRight", "ShiftRightArithmetic"}
  BY <1>1, ArmsExclude DEF Shifts
<1> QED
  BY <1>2, ZenonT(60) DEF BinaryMeans, ReadAs, DivideTwos

LEMMA LogicalAndMeans ==
  ASSUME NEW A, NEW p, NEW B, NEW q, NEW w, NEW signed
  PROVE  BinaryMeans("LogicalAnd", A, p, B, q, w, signed) = Truth(A # 0 /\ B # 0)
<1>1. "LogicalAnd" \in NamedOperators
  BY DEF NamedOperators, SignlessOperators, BitwiseOperators, LogicalOperators
<1>2. "LogicalAnd" \notin Comparisons /\ "LogicalAnd" \notin {"ShiftLeft", "ShiftRight", "ShiftRightArithmetic"}
  BY <1>1, ArmsExclude DEF Shifts
<1> QED
  BY <1>2, ZenonT(60) DEF BinaryMeans

LEMMA LogicalOrMeans ==
  ASSUME NEW A, NEW p, NEW B, NEW q, NEW w, NEW signed
  PROVE  BinaryMeans("LogicalOr", A, p, B, q, w, signed) = Truth(A # 0 \/ B # 0)
<1>1. "LogicalOr" \in NamedOperators
  BY DEF NamedOperators, SignlessOperators, BitwiseOperators, LogicalOperators
<1>2. "LogicalOr" \notin Comparisons /\ "LogicalOr" \notin {"ShiftLeft", "ShiftRight", "ShiftRightArithmetic"}
  BY <1>1, ArmsExclude DEF Shifts
<1> QED
  BY <1>2, ZenonT(60) DEF BinaryMeans

LEMMA ShiftLeftMeans ==
  ASSUME NEW A, NEW p, NEW B, NEW q, NEW w, NEW signed
  PROVE  BinaryMeans("ShiftLeft", A, p, B, q, w, signed) = Moved("ShiftLeft", Wrap(A, w), B, w)
<1>1. "ShiftLeft" \in Shifts
  BY DEF Shifts
<1>2. "ShiftLeft" \notin Comparisons
  BY <1>1, ArmsExclude
<1> QED
  BY <1>2, ZenonT(60) DEF BinaryMeans, ReadAs, Moved

LEMMA ShiftRightMeans ==
  ASSUME NEW A, NEW p, NEW B, NEW q, NEW w, NEW signed
  PROVE  BinaryMeans("ShiftRight", A, p, B, q, w, signed) = Moved("ShiftRight", Wrap(A, w), B, w)
<1>1. "ShiftRight" \in Shifts
  BY DEF Shifts
<1>2. "ShiftRight" \notin Comparisons
  BY <1>1, ArmsExclude
<1> QED
  BY <1>2, ZenonT(60) DEF BinaryMeans, ReadAs, Moved

LEMMA ShiftRightArithmeticMeans ==
  ASSUME NEW A, NEW p, NEW B, NEW q, NEW w, NEW signed
  PROVE  BinaryMeans("ShiftRightArithmetic", A, p, B, q, w, signed) = Moved("ShiftRightArithmetic", Wrap(A, w), B, w)
<1>1. "ShiftRightArithmetic" \in Shifts
  BY DEF Shifts
<1>2. "ShiftRightArithmetic" \notin Comparisons
  BY <1>1, ArmsExclude
<1> QED
  BY <1>2, ZenonT(60) DEF BinaryMeans, ReadAs, Moved

LEMMA ConcatMeans ==
  ASSUME NEW A, NEW p, NEW B, NEW q, NEW w, NEW signed
  PROVE  BinaryMeans("Concat", A, p, B, q, w, signed) = A * Pow2[q] + B
<1>1. "Concat" \in NamedOperators
  BY DEF NamedOperators, SignlessOperators, BitwiseOperators, LogicalOperators
<1>2. "Concat" \notin Comparisons /\ "Concat" \notin {"ShiftLeft", "ShiftRight", "ShiftRightArithmetic"}
  BY <1>1, ArmsExclude DEF Shifts
<1> QED
  BY <1>2, ZenonT(60) DEF BinaryMeans

(* The binary operations, group by group: operands resized by the result.   *)
LEMMA BinaryEven ==
  ASSUME NEW val \in [Nat -> BOOLEAN], NEW drivers \in Vectors, NEW p \in Nat, p > 0, NEW a \in Words(p, Len(drivers)),
         NEW q \in Nat, q > 0, NEW b \in Words(q, Len(drivers)), NEW w \in Nat, NEW operator \in EvenOperators, NEW signed
  PROVE  BuildsNumber(val, drivers, BinaryGates(drivers, operator, a, b, w, signed), w,
                      BinaryMeans(operator, Low(val, a, p), p, Low(val, b, q), q, w, signed))
<1> DEFINE n == Len(drivers)
           x == Unsigned(a, w)
           y == Unsigned(b, w)
           A == Low(val, a, p)
           B == Low(val, b, q)
           X == Wrap(A, w)
           Y == Wrap(B, w)
<1>1. n \in Nat /\ a \in Words(p, n) /\ b \in Words(q, n)
  BY VectorLength
<1>2. BinaryGates(drivers, operator, a, b, w, signed) = EvenGates(drivers, operator, x, y, w)
  <2>1. CASE operator = "BitwiseAnd"
    BY <2>1, GatesAre DEF EvenGates
  <2>2. CASE operator = "BitwiseOr"
    BY <2>2, GatesAre DEF EvenGates
  <2>3. CASE operator = "BitwiseXor"
    BY <2>3, GatesAre DEF EvenGates
  <2>4. CASE operator = "MultiplyUnsigned"
    BY <2>4, GatesAre DEF EvenGates
  <2>5. CASE operator = "DivideUnsigned"
    BY <2>5, GatesAre DEF EvenGates
  <2> QED
    BY <2>1, <2>2, <2>3, <2>4, <2>5 DEF EvenOperators
<1>3. BinaryMeans(operator, A, p, B, q, w, signed) = EvenMeans(operator, X, Y, w)
  <2> HIDE DEF A, B
  <2>1. CASE operator = "BitwiseAnd"
    <3>1. BinaryMeans("BitwiseAnd", A, p, B, q, w, signed) = AndOf(X, Y, w)
      BY BitwiseAndMeans
    <3> HIDE DEF X, Y
    <3> QED
      BY <2>1, <3>1 DEF EvenMeans
  <2>2. CASE operator = "BitwiseOr"
    <3>1. BinaryMeans("BitwiseOr", A, p, B, q, w, signed) = OrOf(X, Y, w)
      BY BitwiseOrMeans
    <3> HIDE DEF X, Y
    <3> QED
      BY <2>2, <3>1 DEF EvenMeans
  <2>3. CASE operator = "BitwiseXor"
    <3>1. BinaryMeans("BitwiseXor", A, p, B, q, w, signed) = XorOf(X, Y, w)
      BY BitwiseXorMeans
    <3> HIDE DEF X, Y
    <3> QED
      BY <2>3, <3>1 DEF EvenMeans
  <2>4. CASE operator = "MultiplyUnsigned"
    <3>1. BinaryMeans("MultiplyUnsigned", A, p, B, q, w, signed) = Wrap(X * Y, w)
      BY MultiplyUnsignedMeans
    <3> HIDE DEF X, Y
    <3> QED
      BY <2>4, <3>1 DEF EvenMeans
  <2>5. CASE operator = "DivideUnsigned"
    <3>1. BinaryMeans("DivideUnsigned", A, p, B, q, w, signed) = DivideNumbers(X, Y, w)
      BY DivideUnsignedMeans
    <3> HIDE DEF X, Y
    <3> QED
      BY <2>5, <3>1 DEF EvenMeans, DivideNumbers
  <2> QED
    BY <2>1, <2>2, <2>3, <2>4, <2>5 DEF EvenOperators
<1> HIDE DEF n
<1>4. x \in Words(w, n) /\ Low(val, x, w) = X
  BY <1>1, UnsignedResize
<1>5. y \in Words(w, n) /\ Low(val, y, w) = Y
  BY <1>1, UnsignedResize
<1> HIDE DEF x, y, X, Y
<1>6. BuildsNumber(val, drivers, EvenGates(drivers, operator, x, y, w), w, EvenMeans(operator, Low(val, x, w), Low(val, y, w), w))
  BY <1>4, <1>5, EvenBuilds DEF n
<1> QED
  BY <1>2, <1>3, <1>4, <1>5, <1>6 DEF A, B

SignExtending == {"MultiplySigned", "DivideSigned"}

(* Operands that are read as signed whatever the node says.                 *)
LEMMA BinarySigned ==
  ASSUME NEW val \in [Nat -> BOOLEAN], NEW drivers \in Vectors, NEW p \in Nat, p > 0, NEW a \in Words(p, Len(drivers)),
         NEW q \in Nat, q > 0, NEW b \in Words(q, Len(drivers)), NEW w \in Nat, w > 0, NEW operator \in SignExtending, NEW signed
  PROVE  BuildsNumber(val, drivers, BinaryGates(drivers, operator, a, b, w, signed), w,
                      BinaryMeans(operator, Low(val, a, p), p, Low(val, b, q), q, w, signed))
<1> DEFINE n == Len(drivers)
           x == SignExtended(a, w)
           y == SignExtended(b, w)
           A == Low(val, a, p)
           B == Low(val, b, q)
           S == SignedOf(A, p)
           T == SignedOf(B, q)
           X == Wrap(S, w)
           Y == Wrap(T, w)
<1>1. n \in Nat /\ a \in Words(p, n) /\ b \in Words(q, n) /\ S \in Int /\ T \in Int
  BY VectorLength, LowType, SignedParts
<1> HIDE DEF n
<1>4. x \in Words(w, n) /\ Low(val, x, w) = X
  BY <1>1, SignedResize
<1>5. y \in Words(w, n) /\ Low(val, y, w) = Y
  BY <1>1, SignedResize
<1>6. CASE operator = "MultiplySigned"
  <2>1. BinaryGates(drivers, operator, a, b, w, signed) = Multiplication(drivers, x, y)
    BY <1>6, GatesAre
  <2>2. BinaryMeans(operator, A, p, B, q, w, signed) = Wrap(S * T, w)
    <3> HIDE DEF A, B
    <3>1. BinaryMeans("MultiplySigned", A, p, B, q, w, signed) = Wrap(S * T, w)
      BY MultiplySignedMeans
    <3> QED
      BY <1>6, <3>1
  <2> HIDE DEF S, T
  <2>3. Wrap(X * Y, w) = Wrap(S * T, w)
    BY <1>1, SignedProduct
  <2> HIDE DEF x, y, X, Y
  <2>4. BuildsNumber(val, drivers, Multiplication(drivers, x, y), w, Wrap(Low(val, x, w) * Low(val, y, w), w))
    BY <1>4, <1>5, MultiplicationBuilds DEF n
  <2> QED
    BY <1>4, <1>5, <2>1, <2>2, <2>3, <2>4
<1>7. CASE operator = "DivideSigned"
  <2>1. BinaryGates(drivers, operator, a, b, w, signed) = SignedDivision(drivers, x, y)
    BY <1>7, GatesAre
  <2>2. BinaryMeans(operator, A, p, B, q, w, signed) = Quotient(X, Y, w, TRUE)
    <3> HIDE DEF A, B
    <3>1. BinaryMeans("DivideSigned", A, p, B, q, w, signed) = DivideTwos(X, Y, w)
      BY DivideSignedMeans
    <3> HIDE DEF X, Y
    <3> QED
      BY <1>7, <3>1 DEF DivideTwos
  <2> HIDE DEF x, y, X, Y
  <2>4. BuildsNumber(val, drivers, SignedDivision(drivers, x, y), w, Quotient(Low(val, x, w), Low(val, y, w), w, TRUE))
    BY <1>4, <1>5, SignedDivisionBuilds DEF n
  <2> QED
    BY <1>4, <1>5, <2>1, <2>2, <2>4
<1> QED
  BY <1>6, <1>7 DEF SignExtending

(* Sum and difference, whose operands follow the signedness.                *)
LEMMA BinarySums ==
  ASSUME NEW val \in [Nat -> BOOLEAN], NEW drivers \in Vectors, NEW p \in Nat, p > 0, NEW a \in Words(p, Len(drivers)),
         NEW q \in Nat, q > 0, NEW b \in Words(q, Len(drivers)), NEW w \in Nat, NEW operator \in {"Add", "Subtract"}, NEW signed \in BOOLEAN
  PROVE  BuildsNumber(val, drivers, BinaryGates(drivers, operator, a, b, w, signed), w,
                      BinaryMeans(operator, Low(val, a, p), p, Low(val, b, q), q, w, signed))
<1> DEFINE n == Len(drivers)
           x == ResizeValues(a, w, signed)
           y == ResizeValues(b, w, signed)
           A == Low(val, a, p)
           B == Low(val, b, q)
           X == ReadAs(A, p, w, signed)
           Y == ReadAs(B, q, w, signed)
<1>1. n \in Nat /\ a \in Words(p, n) /\ b \in Words(q, n)
  BY VectorLength
<1> HIDE DEF n
<1>2. x \in Words(w, n) /\ Low(val, x, w) = X
  BY <1>1, ResizeBuilds
<1>3. y \in Words(w, n) /\ Low(val, y, w) = Y
  BY <1>1, ResizeBuilds
<1>4. CASE operator = "Add"
  <2>1. BinaryGates(drivers, operator, a, b, w, signed) = Addition(drivers, x, y)
    BY <1>4, GatesAre
  <2>2. BinaryMeans(operator, A, p, B, q, w, signed) = Wrap(X + Y, w)
    <3> HIDE DEF A, B
    <3>1. BinaryMeans("Add", A, p, B, q, w, signed) = Wrap(X + Y, w)
      BY AddMeans
    <3> HIDE DEF X, Y
    <3> QED
      BY <1>4, <3>1
  <2> HIDE DEF x, y, X, Y
  <2>3. BuildsNumber(val, drivers, Addition(drivers, x, y), w, Wrap(Low(val, x, w) + Low(val, y, w), w))
    BY <1>2, <1>3, AdditionBuilds DEF n
  <2> QED
    BY <1>2, <1>3, <2>1, <2>2, <2>3
<1>5. CASE operator = "Subtract"
  <2>1. BinaryGates(drivers, operator, a, b, w, signed) = Subtraction(drivers, x, y)
    BY <1>5, GatesAre
  <2>2. BinaryMeans(operator, A, p, B, q, w, signed) = Wrap(X - Y, w)
    <3> HIDE DEF A, B
    <3>1. BinaryMeans("Subtract", A, p, B, q, w, signed) = Wrap(X - Y, w)
      BY SubtractMeans
    <3> HIDE DEF X, Y
    <3> QED
      BY <1>5, <3>1
  <2> HIDE DEF x, y, X, Y
  <2>3. BuildsNumber(val, drivers, Subtraction(drivers, x, y), w, Wrap(Low(val, x, w) - Low(val, y, w), w))
    BY <1>2, <1>3, SubtractionBuilds DEF n
  <2> QED
    BY <1>2, <1>3, <2>1, <2>2, <2>3
<1> QED
  BY <1>4, <1>5

(* Comparisons and shifts have one arm for several operators.               *)
LEMMA ArmsShared ==
  ASSUME NEW drivers, NEW a, NEW b, NEW w, NEW signed, NEW operator
  PROVE  /\ operator \in Comparisons => BinaryGates(drivers, operator, a, b, w, signed) = CompareGates(drivers, operator, a, b)
         /\ operator \in Shifts => BinaryGates(drivers, operator, a, b, w, signed) = ShiftGates(drivers, operator, a, b, w)
<1>0. \A name \in NamedOperators : name \notin Comparisons /\ name \notin {"ShiftLeft", "ShiftRight", "ShiftRightArithmetic"}
  BY ArmsExclude DEF Shifts
<1>1. ASSUME operator \in Comparisons PROVE BinaryGates(drivers, operator, a, b, w, signed) = CompareGates(drivers, operator, a, b)
  <2>1. operator \notin NamedOperators /\ operator \notin {"ShiftLeft", "ShiftRight", "ShiftRightArithmetic"}
    BY <1>1, ArmsExclude DEF Shifts
  <2>2. /\ operator # "BitwiseAnd" /\ operator # "BitwiseOr" /\ operator # "BitwiseXor" /\ operator # "Add" /\ operator # "Subtract"
        /\ operator # "MultiplyUnsigned" /\ operator # "MultiplySigned" /\ operator # "DivideUnsigned" /\ operator # "DivideSigned"
        /\ operator # "LogicalAnd" /\ operator # "LogicalOr" /\ operator # "Concat"
    BY <2>1 DEF NamedOperators, SignlessOperators, BitwiseOperators, LogicalOperators
  <2> QED
    BY <1>1, <2>1, <2>2, ZenonT(60) DEF BinaryGates
<1>2. ASSUME operator \in Shifts PROVE BinaryGates(drivers, operator, a, b, w, signed) = ShiftGates(drivers, operator, a, b, w)
  <2>1. operator \notin NamedOperators /\ operator \notin Comparisons
    BY <1>2, ArmsExclude
  <2>2. /\ operator # "BitwiseAnd" /\ operator # "BitwiseOr" /\ operator # "BitwiseXor" /\ operator # "Add" /\ operator # "Subtract"
        /\ operator # "MultiplyUnsigned" /\ operator # "MultiplySigned" /\ operator # "DivideUnsigned" /\ operator # "DivideSigned"
        /\ operator # "LogicalAnd" /\ operator # "LogicalOr" /\ operator # "Concat"
    BY <2>1 DEF NamedOperators, SignlessOperators, BitwiseOperators, LogicalOperators
  <2>3. operator \in {"ShiftLeft", "ShiftRight", "ShiftRightArithmetic"}
    BY <1>2 DEF Shifts
  <2> QED
    BY <2>1, <2>2, <2>3, ZenonT(60) DEF BinaryGates
<1> QED
  BY <1>1, <1>2

MeansCompared(operator, A, p, B, q, signed) ==
  Truth(Compares(Predicate(operator), Reads(signed, A, p), Reads(signed, B, q)))

(* The comparisons read both operands at their own widths.                  *)
LEMMA ComparedMeans ==
  ASSUME NEW A, NEW p, NEW B, NEW q, NEW w, NEW any, NEW operator \in Comparisons, NEW signed \in BOOLEAN, signed <=> operator \in SignedComparisons
  PROVE  BinaryMeans(operator, A, p, B, q, w, any) = MeansCompared(operator, A, p, B, q, signed)
<1>0. \A name \in NamedOperators : name \notin Comparisons
  BY ArmsExclude
<1>1. operator \notin NamedOperators /\ operator \notin Shifts
  BY ArmsExclude
<1>2. /\ operator # "BitwiseAnd" /\ operator # "BitwiseOr" /\ operator # "BitwiseXor" /\ operator # "Add" /\ operator # "Subtract"
      /\ operator # "MultiplyUnsigned" /\ operator # "MultiplySigned" /\ operator # "DivideUnsigned" /\ operator # "DivideSigned"
      /\ operator # "LogicalAnd" /\ operator # "LogicalOr" /\ operator # "Concat"
  BY <1>1 DEF NamedOperators, SignlessOperators, BitwiseOperators, LogicalOperators
<1>3. operator # "ShiftLeft" /\ operator # "ShiftRight" /\ operator # "ShiftRightArithmetic"
  BY <1>1 DEF Shifts
<1>4. BinaryMeans(operator, A, p, B, q, w, any) =
        Truth(Compares(Predicate(operator), IF operator \in SignedComparisons THEN SignedOf(A, p) ELSE A,
                                            IF operator \in SignedComparisons THEN SignedOf(B, q) ELSE B))
  BY <1>1, <1>2, <1>3, ZenonT(60) DEF BinaryMeans
<1>5. /\ Reads(signed, A, p) = IF operator \in SignedComparisons THEN SignedOf(A, p) ELSE A
      /\ Reads(signed, B, q) = IF operator \in SignedComparisons THEN SignedOf(B, q) ELSE B
  BY DEF Reads
<1> QED
  BY <1>4, <1>5 DEF MeansCompared

(* The comparisons.                                                         *)
LEMMA BinaryCompared ==
  ASSUME NEW val \in [Nat -> BOOLEAN], NEW drivers \in Vectors, NEW p \in Nat, p > 0, NEW a \in Words(p, Len(drivers)),
         NEW q \in Nat, q > 0, NEW b \in Words(q, Len(drivers)), NEW w, NEW operator \in Comparisons, NEW signed
  PROVE  BuildsNumber(val, drivers, BinaryGates(drivers, operator, a, b, w, signed), 1,
                      BinaryMeans(operator, Low(val, a, p), p, Low(val, b, q), q, w, signed))
<1> DEFINE A == Low(val, a, p)
           B == Low(val, b, q)
           s == operator \in SignedComparisons
<1>1. BinaryGates(drivers, operator, a, b, w, signed) = CompareGates(drivers, operator, a, b)
  BY ArmsShared
<1>2. s \in BOOLEAN /\ (s <=> operator \in SignedComparisons)
  OBVIOUS
<1> HIDE DEF s
<1>3. BinaryMeans(operator, A, p, B, q, w, signed) = MeansCompared(operator, A, p, B, q, s)
  <2> HIDE DEF A, B
  <2> QED
    BY <1>2, ComparedMeans
<1>4. BuildsNumber(val, drivers, CompareGates(drivers, operator, a, b), 1, MeansCompared(operator, A, p, B, q, s))
  BY <1>2, CompareBuilds, ZenonT(60) DEF MeansCompared
<1> QED
  BY <1>1, <1>3, <1>4

(* The logical operations.                                                  *)
LEMMA BinaryLogical ==
  ASSUME NEW val \in [Nat -> BOOLEAN], NEW drivers \in Vectors, NEW p \in Nat, p > 0, NEW a \in Words(p, Len(drivers)),
         NEW q \in Nat, q > 0, NEW b \in Words(q, Len(drivers)), NEW w, NEW operator \in LogicalOperators, NEW signed
  PROVE  BuildsNumber(val, drivers, BinaryGates(drivers, operator, a, b, w, signed), 1,
                      BinaryMeans(operator, Low(val, a, p), p, Low(val, b, q), q, w, signed))
<1> DEFINE A == Low(val, a, p)
           B == Low(val, b, q)
<1>1. /\ BuildsNumber(val, drivers, LogicalGates(drivers, "And", a, b), 1, Truth(Joins("And", A # 0, B # 0)))
      /\ BuildsNumber(val, drivers, LogicalGates(drivers, "Or", a, b), 1, Truth(Joins("Or", A # 0, B # 0)))
  BY LogicalBuilds
<1> HIDE DEF A, B
<1>2. Joins("And", A # 0, B # 0) = (A # 0 /\ B # 0) /\ Joins("Or", A # 0, B # 0) = (A # 0 \/ B # 0)
  BY DEF Joins
<1>3. CASE operator = "LogicalAnd"
  <2>1. BinaryGates(drivers, "LogicalAnd", a, b, w, signed) = LogicalGates(drivers, "And", a, b)
    BY GatesAre
  <2>2. BinaryMeans("LogicalAnd", A, p, B, q, w, signed) = Truth(A # 0 /\ B # 0)
    BY LogicalAndMeans, Zenon
  <2> QED
    BY <1>1, <1>2, <1>3, <2>1, <2>2, Zenon DEF A, B
<1>4. CASE operator = "LogicalOr"
  <2>1. BinaryGates(drivers, "LogicalOr", a, b, w, signed) = LogicalGates(drivers, "Or", a, b)
    BY GatesAre
  <2>2. BinaryMeans("LogicalOr", A, p, B, q, w, signed) = Truth(A # 0 \/ B # 0)
    BY LogicalOrMeans, Zenon
  <2> QED
    BY <1>1, <1>2, <1>4, <2>1, <2>2, Zenon DEF A, B
<1> QED
  BY <1>3, <1>4 DEF LogicalOperators

(* The shifts, whose amount keeps its own width.                            *)
LEMMA BinaryShifted ==
  ASSUME NEW val \in [Nat -> BOOLEAN], NEW drivers \in Vectors, NEW p \in Nat, p > 0, NEW a \in Words(p, Len(drivers)),
         NEW q \in Nat, q > 0, NEW b \in Words(q, Len(drivers)), NEW w \in Nat, w > 1, NEW operator \in Shifts, NEW signed
  PROVE  BuildsNumber(val, drivers, BinaryGates(drivers, operator, a, b, w, signed), w,
                      BinaryMeans(operator, Low(val, a, p), p, Low(val, b, q), q, w, signed))
<1> DEFINE A == Low(val, a, p)
           B == Low(val, b, q)
<1>1. BinaryGates(drivers, operator, a, b, w, signed) = ShiftGates(drivers, operator, a, b, w)
  BY ArmsShared
<1>2. BuildsNumber(val, drivers, ShiftGates(drivers, operator, a, b, w), w, Moved(operator, Wrap(A, w), B, w))
  BY ShiftBuilds
<1> HIDE DEF A, B
<1>3. BinaryMeans(operator, A, p, B, q, w, signed) = Moved(operator, Wrap(A, w), B, w)
  <2>1. CASE operator = "ShiftLeft"
    BY <2>1, ShiftLeftMeans
  <2>2. CASE operator = "ShiftRight"
    BY <2>2, ShiftRightMeans
  <2>3. CASE operator = "ShiftRightArithmetic"
    BY <2>3, ShiftRightArithmeticMeans
  <2> QED
    BY <2>1, <2>2, <2>3 DEF Shifts
<1> QED
  BY <1>1, <1>2, <1>3 DEF A, B

(* The concatenation.                                                       *)
LEMMA BinaryJoined ==
  ASSUME NEW val \in [Nat -> BOOLEAN], NEW drivers \in Vectors, NEW p \in Nat, p > 0, NEW a \in Words(p, Len(drivers)),
         NEW q \in Nat, q > 0, NEW b \in Words(q, Len(drivers)), NEW w, NEW signed
  PROVE  BuildsNumber(val, drivers, BinaryGates(drivers, "Concat", a, b, w, signed), p + q,
                      BinaryMeans("Concat", Low(val, a, p), p, Low(val, b, q), q, w, signed))
<1> DEFINE A == Low(val, a, p)
           B == Low(val, b, q)
           e == p + q
<1>1. BinaryGates(drivers, "Concat", a, b, w, signed) = Built(drivers, b \o a)
  BY GatesAre
<1>2. e \in Nat /\ Adds(q, p, e)
  BY DEF Adds
<1> HIDE DEF e
<1>3. BuildsNumber(val, drivers, Built(drivers, b \o a), e, (A * Pow2[q]) + B)
  BY <1>2, JoinedBuilds
<1> HIDE DEF A, B
<1>4. BinaryMeans("Concat", A, p, B, q, w, signed) = (A * Pow2[q]) + B
  BY ConcatMeans, Zenon
<1> QED
  BY <1>1, <1>3, <1>4 DEF A, B, e

(* binary_expression builds what the operator means, at every width and for *)
(* every operator; only a shift of a single bit is excused, which loses its *)
(* amount.                                                                  *)
THEOREM BinaryBuilds ==
  ASSUME NEW val \in [Nat -> BOOLEAN], NEW drivers \in Vectors, NEW p \in Nat, p > 0, NEW a \in Words(p, Len(drivers)),
         NEW q \in Nat, q > 0, NEW b \in Words(q, Len(drivers)), NEW w \in Nat, w > 0,
         NEW operator \in BinaryOperators, operator \in Shifts => w > 1, NEW signed \in BOOLEAN
  PROVE  BuildsNumber(val, drivers, BinaryGates(drivers, operator, a, b, w, signed), BinaryWidth(operator, p, q, w),
                      BinaryMeans(operator, Low(val, a, p), p, Low(val, b, q), q, w, signed))
<1> DEFINE A == Low(val, a, p)
           B == Low(val, b, q)
           Does(u) == BuildsNumber(val, drivers, BinaryGates(drivers, operator, a, b, w, signed), u,
                                   BinaryMeans(operator, A, p, B, q, w, signed))
<1>0. /\ \A name \in Comparisons \cup LogicalOperators : BinaryWidth(name, p, q, w) = 1
      /\ \A name \in SignlessOperators \cup {"Add", "Subtract"} \cup Shifts : BinaryWidth(name, p, q, w) = w
      /\ BinaryWidth("Concat", p, q, w) = p + q
  BY BinaryWidthIs, Zenon
<1>1. CASE operator \in EvenOperators
  <2>1. Does(w)
    BY <1>1, BinaryEven
  <2>2. BinaryWidth(operator, p, q, w) = w
    BY <1>1, <1>0 DEF EvenOperators, SignlessOperators, BitwiseOperators
  <2> QED
    BY <2>1, <2>2
<1>2. CASE operator \in SignExtending
  <2>1. Does(w)
    BY <1>2, BinarySigned
  <2>2. BinaryWidth(operator, p, q, w) = w
    BY <1>2, <1>0 DEF SignExtending, SignlessOperators, BitwiseOperators
  <2> QED
    BY <2>1, <2>2
<1>3. CASE operator \in {"Add", "Subtract"}
  <2>1. Does(w)
    BY <1>3, BinarySums
  <2>2. BinaryWidth(operator, p, q, w) = w
    BY <1>3, <1>0
  <2> QED
    BY <2>1, <2>2
<1>4. CASE operator \in Comparisons
  <2>1. Does(1)
    BY <1>4, BinaryCompared
  <2>2. BinaryWidth(operator, p, q, w) = 1
    BY <1>4, <1>0
  <2> QED
    BY <2>1, <2>2
<1>5. CASE operator \in LogicalOperators
  <2>1. Does(1)
    BY <1>5, BinaryLogical
  <2>2. BinaryWidth(operator, p, q, w) = 1
    BY <1>5, <1>0
  <2> QED
    BY <2>1, <2>2
<1>6. CASE operator \in Shifts
  <2>1. Does(w)
    BY <1>6, BinaryShifted
  <2>2. BinaryWidth(operator, p, q, w) = w
    BY <1>6, <1>0
  <2> QED
    BY <2>1, <2>2
<1>7. CASE operator = "Concat"
  <2>1. Does(p + q)
    BY <1>7, BinaryJoined
  <2>2. BinaryWidth(operator, p, q, w) = p + q
    BY <1>7, <1>0
  <2> QED
    BY <2>1, <2>2
<1> QED
  BY <1>1, <1>2, <1>3, <1>4, <1>5, <1>6, <1>7
     DEF BinaryOperators, SignlessOperators, BitwiseOperators, EvenOperators, SignExtending

(* conditional_expression: the condition may have any width.                *)
THEOREM ConditionalBuilds ==
  ASSUME NEW val \in [Nat -> BOOLEAN], NEW drivers \in Vectors, NEW q \in Nat, q > 0, NEW c \in Words(q, Len(drivers)),
         NEW u \in Nat, u > 0, NEW a \in Words(u, Len(drivers)), NEW t \in Nat, t > 0, NEW b \in Words(t, Len(drivers)),
         NEW w \in Nat
  PROVE  BuildsNumber(val, drivers, ConditionalGates(drivers, c, a, b, w), w,
                      Wrap(IF Low(val, c, q) # 0 THEN Low(val, a, u) ELSE Low(val, b, t), w))
<1> DEFINE n == Len(drivers)
           truth == Low(val, c, q) # 0
           x == Unsigned(a, w)
           y == Unsigned(b, w)
           X == Wrap(Low(val, a, u), w)
           Y == Wrap(Low(val, b, t), w)
           s == TruthyGate(drivers, c)
           f == s.ds
           o == s.out
           g == Mux(f, y, x, o)
           m == IF Says(val, o) THEN X ELSE Y
           r == IF truth THEN X ELSE Y
<1>1. ConditionalGates(drivers, c, a, b, w) = g
  BY DEF ConditionalGates, Then, Unsigned
<1>2. Wrap(IF truth THEN Low(val, a, u) ELSE Low(val, b, t), w) = r
  OBVIOUS
<1>3. n \in Nat
  BY VectorLength
<1>4. BuildsBit(val, drivers, s, truth)
  BY TruthyBuilds
<1> HIDE DEF s, truth
<1>5. x \in Words(w, n) /\ Low(val, x, w) = X
  <2> HIDE DEF n
  <2>1. a \in Words(u, n)
    BY DEF n
  <2> QED
    BY <1>3, <2>1, UnsignedResize
<1>6. y \in Words(w, n) /\ Low(val, y, w) = Y
  <2> HIDE DEF n
  <2>1. b \in Words(t, n)
    BY DEF n
  <2> QED
    BY <1>3, <2>1, UnsignedResize
<1> HIDE DEF x, y, X, Y
<1>7. /\ f \in Vectors /\ Len(f) \in Nat /\ o \in Values(Len(f)) /\ Follows(val, drivers, f)
      /\ Respects(val, f) => (Says(val, o) <=> truth)
  BY <1>4, BitBuilt
<1>8. x \in Words(w, Len(f)) /\ y \in Words(w, Len(f))
  BY <1>5, <1>6, <1>7, WordsGrow
<1> HIDE DEF f, o
<1>9. BuildsNumber(val, f, g, w, IF Says(val, o) THEN Low(val, x, w) ELSE Low(val, y, w))
  BY <1>7, <1>8, MuxBuildsNumber
<1>10. BuildsNumber(val, f, g, w, m)
  BY <1>5, <1>6, <1>9
<1>11. Respects(val, f) => m = r
  BY <1>7
<1> HIDE DEF g, m, r
<1>12. BuildsNumber(val, drivers, g, w, r)
  BY <1>7, <1>10, <1>11, NumberAfter
<1> QED
  BY <1>1, <1>2, <1>12 DEF truth

(* replicate_expression copies the word as comb.replicate does.             *)
LEMMA CopiesBuilds ==
  ASSUME NEW val, NEW drivers \in Vectors, NEW w \in Nat, w > 0, NEW x \in Words(w, Len(drivers)), NEW r \in Nat,
         NEW e, e = r * w
  PROVE  BuildsNumber(val, drivers, ReplicateGates(drivers, x, r), e, Copies(Low(val, x, w), w, r))
<1>1. e \div Len(x) = r
  <2>1. Divides(e, w, r, 0)
    <3> DEFINE f == w * r
    <3>1. f = e /\ e \in Int /\ f \in Int
      OBVIOUS
    <3> HIDE DEF f
    <3>2. e = f + 0
      BY <3>1
    <3> QED
      BY <3>1, <3>2 DEF Divides, f
  <2>2. e \div w = r
    BY <2>1, DivisionIs DEF Divided
  <2>3. Len(x) = w
    BY VectorLength, WordShape
  <2> QED
    BY <2>2, <2>3
<1>2. ReplicateGate(drivers, x, e) = ReplicateGates(drivers, x, r)
  BY <1>1 DEF ReplicateGate, ReplicateGates
<1>3. BuildsNumber(val, drivers, ReplicateGate(drivers, x, e), e, Copies(Low(val, x, w), w, r))
  BY ReplicateBuilds
<1> QED
  BY <1>2, <1>3

(* A SEL at a literal offset.                                               *)
LEMMA LiteralBuilds ==
  ASSUME NEW val, NEW drivers \in Vectors, NEW m \in Nat, NEW x \in Words(m, Len(drivers)),
         NEW w \in Nat, NEW d, Within(d, w, m)
  PROVE  BuildsNumber(val, drivers, Built(drivers, SelectLiteral(x, d, w)), w, PartOf(Low(val, x, m), d, w))
<1>1. ExtractGate(drivers, x, d, w) = Built(drivers, SelectLiteral(x, d, w))
  BY DEF ExtractGate, SelectLiteral
<1> QED
  BY <1>1, ExtractBuilds

(* Places or elements are tried one after the other: the index is compared  *)
(* with each key in turn, and one of the words is picked.                   *)
Picking(drivers, index, start, parts, keys, size) ==
  EachBit(LAMBDA s, k : Then(EqualsConstantWithoutOr(s.ds, index, keys[k]), LAMBDA selected :
                             MuxWithoutOr(selected.ds, s.out, parts[k], selected.out)),
          Built(drivers, start), size)
PicksOut(n, start, numbers, keys, i, k) ==
  /\ \A c \in 1 .. k : keys[c] = i => n = numbers[c]
  /\ (\A c \in 1 .. k : keys[c] # i) => n = start
Distinct(keys, size) == \A c, d \in 1 .. size : keys[c] = keys[d] => c = d

(* One more key and part keep what the chain picks.                         *)
LEMMA PickingOn ==
  ASSUME NEW size \in Nat, NEW keys, Distinct(keys, size), NEW numbers, NEW start, NEW i,
         NEW k \in 1 .. size, NEW j, j = k - 1, NEW n, PicksOut(n, start, numbers, keys, i, j),
         NEW m, i = keys[k] => m = numbers[k], i # keys[k] => m = n
  PROVE  PicksOut(m, start, numbers, keys, i, k)
<1>1. \A c \in 1 .. k : c \in 1 .. size /\ (c = k \/ c \in 1 .. j)
  OBVIOUS
<1>2. \A c \in 1 .. j : c \in 1 .. k /\ c # k
  OBVIOUS
<1>3. ASSUME NEW c \in 1 .. k, keys[c] = i PROVE m = numbers[c]
  <2>1. CASE c = k
    BY <1>3, <2>1
  <2>2. CASE c # k
    <3>1. keys[c] # keys[k]
      BY <1>1, <2>2 DEF Distinct
    <3>2. m = n
      BY <1>3, <3>1
    <3>3. c \in 1 .. j
      BY <1>1, <2>2
    <3> QED
      BY <1>3, <3>2, <3>3 DEF PicksOut
  <2> QED
    BY <2>1, <2>2
<1>4. ASSUME \A c \in 1 .. k : keys[c] # i PROVE m = start
  <2>1. m = n
    BY <1>4
  <2>2. \A c \in 1 .. j : keys[c] # i
    BY <1>2, <1>4
  <2> QED
    BY <2>1, <2>2 DEF PicksOut
<1> QED
  BY <1>3, <1>4 DEF PicksOut

PickStep(s, index, part, key) ==
  LET selected == EqualsConstantWithoutOr(s.ds, index, key) IN MuxWithoutOr(selected.ds, s.out, part, selected.out)

(* One link of the chain: the part if the index is its key.                 *)
LEMMA PickStepBuilds ==
  ASSUME NEW val \in [Nat -> BOOLEAN], NEW drivers \in Vectors, NEW w \in Nat, NEW s, NEW n, BuildsNumber(val, drivers, s, w, n),
         NEW part \in Words(w, Len(drivers)), NEW u \in Nat, u > 0, NEW index \in Words(u, Len(drivers)),
         NEW key \in 0 .. Pow2[u] - 1, NEW b, b <=> Low(val, index, u) = key
  PROVE  BuildsNumber(val, drivers, PickStep(s, index, part, key), w, IF b THEN Low(val, part, w) ELSE n)
<1> DEFINE e == s.ds
           x == s.out
           is == EqualsConstantWithoutOr(e, index, key)
           f == is.ds
           c == is.out
           g == MuxWithoutOr(f, x, part, c)
           r == Says(val, c)
           B == Low(val, part, w)
           A == Low(val, x, w)
           o == IF r THEN B ELSE A
           q == IF b THEN B ELSE n
           same == Low(val, index, u) = key
<1>1. g = PickStep(s, index, part, key)
  BY DEF PickStep
<1>2. /\ e \in Vectors /\ Len(e) \in Nat /\ x \in Words(w, Len(e)) /\ part \in Words(w, Len(e)) /\ index \in Words(u, Len(e))
      /\ Follows(val, drivers, e) /\ (Respects(val, e) => A = n)
  BY NumberBuilt
<1> HIDE DEF e, x, A, B
<1>3. BuildsBit(val, e, is, same)
  BY <1>2, EqualsConstantBuilds
<1>4. same <=> b
  OBVIOUS
<1> HIDE DEF is, same
<1>5. /\ f \in Vectors /\ Len(f) \in Nat /\ c \in Values(Len(f)) /\ Follows(val, e, f)
      /\ Respects(val, f) => Respects(val, e) /\ (r <=> same)
  BY <1>3, BitBuilt
<1>6. part \in Words(w, Len(f)) /\ x \in Words(w, Len(f)) /\ Follows(val, drivers, f)
  BY <1>2, <1>5, WordsGrow, FollowsOn
<1> HIDE DEF f, c
<1>7. BuildsNumber(val, f, g, w, o)
  BY <1>5, <1>6, MuxWithoutOrBuilds DEF A, B
<1> HIDE DEF r
<1>8. Respects(val, f) => o = q
  BY <1>2, <1>4, <1>5
<1> HIDE DEF g, o, q
<1>9. BuildsNumber(val, drivers, g, w, q)
  BY <1>6, <1>7, <1>8, NumberAfter
<1> QED
  BY <1>1, <1>9 DEF q, B

(* The chain of comparisons picks the part whose key is the index.          *)
LEMMA PickingBuilds ==
  ASSUME NEW val \in [Nat -> BOOLEAN], NEW drivers \in Vectors, NEW w \in Nat, NEW size \in Nat,
         NEW start \in Words(w, Len(drivers)), NEW parts, \A k \in 1 .. size : parts[k] \in Words(w, Len(drivers)),
         NEW u \in Nat, u > 0, NEW index \in Words(u, Len(drivers)),
         NEW keys, Distinct(keys, size), \A k \in 1 .. size : keys[k] \in 0 .. Pow2[u] - 1,
         NEW numbers, \A k \in 1 .. size : numbers[k] = Low(val, parts[k], w),
         NEW n, PicksOut(n, Low(val, start, w), numbers, keys, Low(val, index, u), size)
  PROVE  BuildsNumber(val, drivers, Picking(drivers, index, start, parts, keys, size), w, n)
<1> DEFINE A == Low(val, start, w)
           I == Low(val, index, u)
           step(s, k) == PickStep(s, index, parts[k], keys[k])
           base == Built(drivers, start)
           So(s, k) == \E c : PicksOut(c, A, numbers, keys, I, k) /\ BuildsNumber(val, drivers, s, w, c)
           V == [k \in 0 .. size |-> {s \in Builds : So(s, k)}]
<1>1. base \in V[0]
  <2>1. BuildsNumber(val, drivers, base, w, A)
    BY WordBuilt
  <2>2. base \in Builds
    BY <2>1, NumberBuilt
  <2> HIDE DEF A, base
  <2>3. PicksOut(A, A, numbers, keys, I, 0)
    BY DEF PicksOut
  <2> QED
    BY <2>1, <2>2, <2>3
<1>2. ASSUME NEW k \in 1 .. size, NEW s \in V[k - 1] PROVE step(s, k) \in V[k]
  <2> DEFINE j == k - 1
             part == parts[k]
             key == keys[k]
             g == PickStep(s, index, part, key)
             b == I = key
  <2>1. j \in 0 .. size /\ k \in 0 .. size /\ j = k - 1
    OBVIOUS
  <2>2. s \in Builds /\ So(s, j)
    BY <2>1
  <2> HIDE DEF V, base, So
  <2>3. PICK c : PicksOut(c, A, numbers, keys, I, j) /\ BuildsNumber(val, drivers, s, w, c)
    BY <2>2 DEF So
  <2> DEFINE m == IF b THEN Low(val, part, w) ELSE c
  <2>4. part \in Words(w, Len(drivers)) /\ key \in 0 .. Pow2[u] - 1 /\ numbers[k] = Low(val, part, w)
    OBVIOUS
  <2>5. g = step(s, k)
    OBVIOUS
  <2>6. (I = keys[k] => m = numbers[k]) /\ (I # keys[k] => m = c)
    BY <2>4
  <2> HIDE DEF step, part, m, A, j
  <2>7. PicksOut(m, A, numbers, keys, I, k)
    BY <2>1, <2>3, <2>6, PickingOn
  <2>8. b <=> Low(val, index, u) = key
    OBVIOUS
  <2> HIDE DEF b, key, I
  <2>9. BuildsNumber(val, drivers, g, w, IF b THEN Low(val, part, w) ELSE c)
    BY <2>3, <2>4, <2>8, PickStepBuilds
  <2>10. g \in Builds
    BY <2>9, NumberBuilt
  <2>11. So(g, k)
    BY <2>7, <2>9 DEF So, m
  <2> HIDE DEF g
  <2> QED
    BY <2>1, <2>5, <2>10, <2>11 DEF V
<1> DEFINE Rec(f) == [k \in 0 .. size |-> IF k = 0 THEN base ELSE step(f[k - 1], k)]
       F == [y \in Builds \X (1 .. size) |-> step(y[1], y[2])]
       after == CHOOSE f : f = Rec(f)
<1>a1. \A k \in 1 .. size : \A s \in V[k - 1] : F[<<s, k>>] = step(s, k) /\ F[<<s, k>>] \in V[k]
  <2> SUFFICES ASSUME NEW k \in 1 .. size, NEW s \in V[k - 1] PROVE F[<<s, k>>] = step(s, k)
    <3> HIDE DEF V, step, F
    <3> QED
      BY <1>2
  <2>1. k - 1 \in 0 .. size
    OBVIOUS
  <2>2. s \in Builds
    BY <2>1
  <2> HIDE DEF V, step
  <2> QED
    BY <2>2
<1>a2. PICK run : Runs(size, V, base, F, run)
  <2> HIDE DEF V, step, F, base
  <2> QED
    BY <1>1, <1>a1, LoopRuns
<1>a3. run = Rec(run)
  <2> SUFFICES ASSUME NEW k \in 0 .. size PROVE run[k] = IF k = 0 THEN base ELSE step(run[k - 1], k)
    <3> HIDE DEF V, step, F, base
    <3> QED
      BY <1>a2 DEF Runs
  <2>1. CASE k = 0
    <3> HIDE DEF V, step, F, base
    <3> QED
      BY <2>1, <1>a2 DEF Runs
  <2>2. CASE k # 0
    <3>1. k \in 1 .. size /\ k - 1 \in 0 .. size
      BY <2>2
    <3> HIDE DEF V, step, F, base
    <3> QED
      BY <2>2, <3>1, <1>a1, <1>a2 DEF Runs
  <2> QED
    BY <2>1, <2>2
<1>a4. after = Rec(after)
  <2> HIDE DEF Rec
  <2> QED
    BY <1>a3
<1>a5. after[0] = base /\ \A k \in 1 .. size : after[k] = step(after[k - 1], k)
  <2> HIDE DEF step, base, after, V, F
  <2>1. \A k \in 0 .. size : after[k] = IF k = 0 THEN base ELSE step(after[k - 1], k)
    BY <1>a4
  <2>2. 0 \in 0 .. size /\ \A k \in 1 .. size : k \in 0 .. size /\ k # 0
    OBVIOUS
  <2> HIDE DEF Rec
  <2> QED
    BY <2>1, <2>2
<1>a6. \A k \in 0 .. size : after[k] \in V[k]
  <2> HIDE DEF V, step, F, base, after, Rec
  <2> QED
    BY <1>1, <1>a1, <1>a5, LoopKeeps, ZenonT(60)
<1>3. Picking(drivers, index, start, parts, keys, size) = after[size]
  BY DEF Picking, EachBit, Built, Then, PickStep
<1>4. So(after[size], size)
  <2> HIDE DEF after, So
  <2>1. size \in 0 .. size
    OBVIOUS
  <2> QED
    BY <1>a6, <2>1
<1> DEFINE g == after[size]
<1> HIDE DEF g, V, base, step, F, Rec, A, I
<1>5. PICK c : PicksOut(c, A, numbers, keys, I, size) /\ BuildsNumber(val, drivers, g, w, c)
  BY <1>4 DEF g
<1>6. PicksOut(n, A, numbers, keys, I, size)
  BY DEF A, I
<1>7. n = c
  <2>1. CASE \A k \in 1 .. size : keys[k] # I
    BY <1>5, <1>6, <2>1 DEF PicksOut
  <2>2. CASE \E k \in 1 .. size : keys[k] = I
    BY <1>5, <1>6, <2>2 DEF PicksOut
  <2> QED
    BY <2>1, <2>2
<1> QED
  BY <1>3, <1>5, <1>7 DEF g

(* Ways to declare a vector of m bits as an array, upwards or downwards: its*)
(* elements fill it.                                                        *)
LaidOut(l, m) ==
  /\ l.left \in Nat /\ l.right \in Nat /\ l.width \in Nat /\ l.width > 0
  /\ Elements(l) \in Nat /\ Slots(m, Elements(l), l.width)
UpwardArray(low, n, m) == [left |-> low, right |-> low + n - 1, width |-> m \div n]
Turnabout(l) == [l EXCEPT !.left = l.right, !.right = l.left]
ArrayOf(l, low, n, m) ==
  /\ l.width = m \div n
  /\ (l.left = low /\ l.right = low + n - 1) \/ (l.left = low + n - 1 /\ l.right = low)
AllUpwards(m) == {UpwardArray(low, n, m) : low \in 0 .. 1, n \in {k \in 2 .. m : m % k = 0}}

(* The layouts of an array, ascending and descending.                       *)
LEMMA ArraysTurn ==
  ASSUME NEW m PROVE Arrays(m) = AllUpwards(m) \cup {Turnabout(x) : x \in AllUpwards(m)}
BY DEF Arrays, AllUpwards, Turnabout, UpwardArray

(* What every layout has: elements of one width that fill the word.         *)
LEMMA ArraysAre ==
  ASSUME NEW m \in Nat, NEW l \in Arrays(m)
  PROVE  LaidOut(l, m)
<1> DEFINE lows == 0 .. 1
           sizes == {k \in 2 .. m : m % k = 0}
           upwards == {UpwardArray(low, n, m) : low \in lows, n \in sizes}
<1>1. \E low \in lows, n \in sizes : ArrayOf(l, low, n, m)
  <2>1. l \in upwards \cup {Turnabout(x) : x \in upwards}
    BY ArraysTurn DEF AllUpwards
  <2>2. \A low, n : ArrayOf(UpwardArray(low, n, m), low, n, m) /\ ArrayOf(Turnabout(UpwardArray(low, n, m)), low, n, m)
    <3> SUFFICES ASSUME NEW low, NEW n PROVE ArrayOf(UpwardArray(low, n, m), low, n, m) /\ ArrayOf(Turnabout(UpwardArray(low, n, m)), low, n, m)
      OBVIOUS
    <3> DEFINE x == UpwardArray(low, n, m)
               r == low + n - 1
               w == m \div n
    <3>1. x.left = low /\ x.right = r /\ x.width = w /\ x = [left |-> low, right |-> r, width |-> w]
      BY DEF UpwardArray
    <3> HIDE DEF x, r, w
    <3>2. Turnabout(x).left = r /\ Turnabout(x).right = low /\ Turnabout(x).width = w
      BY <3>1 DEF Turnabout
    <3> QED
      BY <3>1, <3>2 DEF ArrayOf, x, r, w
  <2>3. CASE l \in upwards
    <3>1. PICK low \in lows, n \in sizes : l = UpwardArray(low, n, m)
      BY <2>3
    <3> HIDE DEF lows, sizes
    <3> QED
      BY <2>2, <3>1
  <2>4. CASE l \notin upwards
    <3>1. PICK x \in upwards : l = Turnabout(x)
      BY <2>1, <2>4
    <3>2. PICK low \in lows, n \in sizes : x = UpwardArray(low, n, m)
      BY <3>1
    <3> HIDE DEF lows, sizes
    <3> QED
      BY <2>2, <3>1, <3>2
  <2> QED
    BY <2>3, <2>4
<1>2. PICK low \in lows, n \in sizes : ArrayOf(l, low, n, m)
  BY <1>1
<1>3. n \in Nat /\ n > 1 /\ n <= m /\ m % n = 0 /\ low \in Nat
  OBVIOUS
<1> DEFINE w == m \div n
<1>4. w \in Nat /\ w > 0 /\ m = n * w
  <2>1. m = n * (m \div n) + (m % n) /\ m \div n \in Nat
    BY <1>3
  <2>2. m = n * w /\ w \in Nat
    BY <1>3, <2>1
  <2>3. w # 0
    <3> HIDE DEF w
    <3>1. w = 0 => n * w = 0
      BY <1>3
    <3> QED
      BY <1>3, <2>2, <3>1
  <2> HIDE DEF w
  <2> QED
    BY <2>2, <2>3
<1>5. l.width = w /\ l.left \in Nat /\ l.right \in Nat
  BY <1>2, <1>3 DEF ArrayOf
<1>6. Elements(l) = n
  <2>1. CASE l.left = low /\ l.right = low + n - 1
    BY <1>3, <2>1 DEF Elements
  <2>2. CASE l.right = low /\ l.left = low + n - 1
    BY <1>3, <2>2 DEF Elements
  <2> QED
    BY <1>2, <2>1, <2>2 DEF ArrayOf
<1> HIDE DEF w
<1>7. Slots(m, n, w)
  BY <1>4 DEF Slots
<1> QED
  BY <1>3, <1>4, <1>5, <1>6, <1>7 DEF LaidOut

(* An index finds the element that is declared with it, if there is one.    *)
Finds(step, n, k) == Position(step, n) = Place(k - 1, step.layout.width)
DeclaredAll(l) == [k \in 1 .. Elements(l) |-> Declared(l, k)]

(* The declared indices of the elements are distinct and in range.          *)
LEMMA DeclaredPlaces ==
  ASSUME NEW step, step.kind = "element", NEW m, LaidOut(step.layout, m)
  PROVE  /\ \A k \in 1 .. Elements(step.layout) : Declared(step.layout, k) \in 0 .. Highest(step.layout)
         /\ Distinct(DeclaredAll(step.layout), Elements(step.layout))
         /\ \A n \in Nat : \A k \in 1 .. Elements(step.layout) : Declared(step.layout, k) = n => Finds(step, n, k)
         /\ \A n \in Nat : (\A k \in 1 .. Elements(step.layout) : Declared(step.layout, k) # n) => Position(step, n) = OutOfRange
<1> DEFINE l == step.layout
           a == l.left
           b == l.right
           w == l.width
           size == Elements(l)
<1>1. a \in Nat /\ b \in Nat /\ w \in Nat /\ size \in Nat
  BY DEF LaidOut
<1>2. size = (IF a <= b THEN b - a + 1 ELSE a - b + 1)
  BY DEF Elements
<1>3. \A k : Declared(l, k) = (IF a <= b THEN a + k - 1 ELSE a - k + 1)
  BY DEF Declared
<1>4. Highest(l) = Wider(a, b)
  BY <1>1, WiderIs DEF Highest
<1>5. \A n \in Nat : Position(step, n) = (IF n \in a .. b THEN w * (n - a) ELSE IF n \in b .. a THEN w * (a - n) ELSE OutOfRange)
  BY DEF Position
<1> HIDE DEF a, b, w, size, l
<1>6. \A k \in 1 .. size : Declared(l, k) \in 0 .. Highest(l)
  BY <1>1, <1>2, <1>3, <1>4 DEF Wider
<1>7. Distinct(DeclaredAll(l), size)
  <2> SUFFICES ASSUME NEW c \in 1 .. size, NEW d \in 1 .. size, DeclaredAll(l)[c] = DeclaredAll(l)[d] PROVE c = d
    BY DEF Distinct
  <2>1. Declared(l, c) = Declared(l, d)
    BY DEF DeclaredAll, size
  <2> QED
    BY <1>1, <1>2, <1>3, <2>1
<1>8. ASSUME NEW n \in Nat, NEW k \in 1 .. size, Declared(l, k) = n PROVE Finds(step, n, k)
  <2> DEFINE j == k - 1
             p == w * j
  <2>1. j \in Nat /\ p = j * w
    BY <1>1
  <2>2. Position(step, n) = p
    <3>1. CASE a <= b
      <4>1. n = a + k - 1 /\ n \in a .. b /\ n - a = j
        BY <1>1, <1>2, <1>3, <1>8, <3>1
      <4> HIDE DEF j
      <4> QED
        BY <1>5, <4>1
    <3>2. CASE ~(a <= b)
      <4>1. n = a - k + 1 /\ n \in b .. a /\ n \notin a .. b /\ a - n = j
        BY <1>1, <1>2, <1>3, <1>8, <3>2
      <4> HIDE DEF j
      <4> QED
        BY <1>5, <4>1
    <3> QED
      BY <3>1, <3>2
  <2> HIDE DEF p
  <2> QED
    BY <2>1, <2>2 DEF Finds, Place, w, l
<1>9. ASSUME NEW n \in Nat, \A k \in 1 .. size : Declared(l, k) # n PROVE Position(step, n) = OutOfRange
  <2>1. n \notin a .. b
    <3> SUFFICES ASSUME n \in a .. b PROVE FALSE
      OBVIOUS
    <3> DEFINE k == n - a + 1
    <3>1. k \in 1 .. size /\ Declared(l, k) = n
      BY <1>1, <1>2, <1>3
    <3> QED
      BY <1>9, <3>1
  <2>2. n \notin b .. a
    <3> SUFFICES ASSUME n \in b .. a PROVE FALSE
      OBVIOUS
    <3>1. ~(a <= b)
      BY <1>1, <2>1
    <3> DEFINE k == a - n + 1
    <3>2. k \in 1 .. size /\ Declared(l, k) = n
      BY <1>1, <1>2, <1>3, <3>1
    <3> QED
      BY <1>9, <3>2
  <2> QED
    BY <1>5, <2>1, <2>2
<1> QED
  BY <1>6, <1>7, <1>8, <1>9 DEF l, size

(* The loops over elements and over places pick one of their words.         *)
LEMMA ArraySelectFold ==
  ASSUME NEW drivers, NEW array, NEW index, NEW layout, NEW size, size = Elements(layout)
  PROVE  ArraySelectGates(drivers, array, index, layout) =
         Picking(drivers, index, Zeros(layout.width), [k \in 1 .. size |-> Element(layout, array, k)], [k \in 1 .. size |-> Declared(layout, k)], size)
<1> DEFINE parts == [k \in 1 .. size |-> Element(layout, array, k)]
           keys == [k \in 1 .. size |-> Declared(layout, k)]
           base == Built(drivers, Zeros(layout.width))
           one(s, k) == PickStep(s, index, Element(layout, array, k), Declared(layout, k))
           two(s, k) == PickStep(s, index, parts[k], keys[k])
           A(f) == [k \in 0 .. size |-> IF k = 0 THEN base ELSE one(f[k - 1], k)]
           B(f) == [k \in 0 .. size |-> IF k = 0 THEN base ELSE two(f[k - 1], k)]
<1>1. ASSUME NEW f PROVE A(f) = B(f)
  <2> SUFFICES ASSUME NEW k \in 0 .. size PROVE (IF k = 0 THEN base ELSE one(f[k - 1], k)) = (IF k = 0 THEN base ELSE two(f[k - 1], k))
    OBVIOUS
  <2>1. CASE k = 0
    BY <2>1
  <2>2. CASE k # 0
    <3>1. k \in 1 .. size
      BY <2>2
    <3>2. parts[k] = Element(layout, array, k) /\ keys[k] = Declared(layout, k)
      BY <3>1
    <3> HIDE DEF parts, keys, base
    <3> QED
      BY <2>2, <3>2
  <2> QED
    BY <2>1, <2>2
<1>2. (CHOOSE f : f = A(f)) = (CHOOSE f : f = B(f))
  <2> HIDE DEF A, B
  <2> QED
    BY <1>1
<1>3. ArraySelectGates(drivers, array, index, layout) = (CHOOSE f : f = A(f))[size]
  BY DEF ArraySelectGates, EachBit, Then, Built, PickStep
<1>4. Picking(drivers, index, Zeros(layout.width), parts, keys, size) = (CHOOSE f : f = B(f))[size]
  BY DEF Picking, EachBit, Then, Built, PickStep
<1> HIDE DEF A, B
<1> QED
  BY <1>2, <1>3, <1>4

(* The write of an element is such a chain over the elements.               *)
LEMMA ElementWriteFold ==
  ASSUME NEW drivers, NEW word, NEW value, NEW step, NEW size, size = Elements(step.layout), NEW index, index = step.offset
  PROVE  ElementWriteGates(drivers, word, step, value) =
         Picking(drivers, index, word, [k \in 1 .. size |-> Overwritten(word, (k - 1) * step.layout.width, value)], [k \in 1 .. size |-> Declared(step.layout, k)], size)
<1> DEFINE parts == [k \in 1 .. size |-> Overwritten(word, (k - 1) * step.layout.width, value)]
           keys == [k \in 1 .. size |-> Declared(step.layout, k)]
           base == Built(drivers, word)
           one(s, k) == PickStep(s, index, Overwritten(word, (k - 1) * step.layout.width, value), Declared(step.layout, k))
           two(s, k) == PickStep(s, index, parts[k], keys[k])
           A(f) == [k \in 0 .. size |-> IF k = 0 THEN base ELSE one(f[k - 1], k)]
           B(f) == [k \in 0 .. size |-> IF k = 0 THEN base ELSE two(f[k - 1], k)]
<1>1. ASSUME NEW f PROVE A(f) = B(f)
  <2> SUFFICES ASSUME NEW k \in 0 .. size PROVE (IF k = 0 THEN base ELSE one(f[k - 1], k)) = (IF k = 0 THEN base ELSE two(f[k - 1], k))
    OBVIOUS
  <2>1. CASE k = 0
    BY <2>1
  <2>2. CASE k # 0
    <3>1. k \in 1 .. size
      BY <2>2
    <3>2. parts[k] = Overwritten(word, (k - 1) * step.layout.width, value) /\ keys[k] = Declared(step.layout, k)
      BY <3>1
    <3> HIDE DEF parts, keys, base
    <3> QED
      BY <2>2, <3>2
  <2> QED
    BY <2>1, <2>2
<1>2. (CHOOSE f : f = A(f)) = (CHOOSE f : f = B(f))
  <2> HIDE DEF A, B
  <2> QED
    BY <1>1
<1>3. ElementWriteGates(drivers, word, step, value) = (CHOOSE f : f = A(f))[size]
  BY DEF ElementWriteGates, EachBit, Then, Built, PickStep
<1>4. Picking(drivers, index, word, parts, keys, size) = (CHOOSE f : f = B(f))[size]
  BY DEF Picking, EachBit, Then, Built, PickStep
<1> HIDE DEF A, B
<1> QED
  BY <1>2, <1>3, <1>4

(* The write of a part is such a chain over its places.                     *)
LEMMA SelectWriteFold ==
  ASSUME NEW drivers, NEW word, NEW value, NEW step, NEW size, size = Len(word) - step.width + 1, NEW index, index = step.offset
  PROVE  SelectWriteGates(drivers, word, step, value) =
         Picking(drivers, index, word, [k \in 1 .. size |-> Overwritten(word, k - 1, value)], [k \in 1 .. size |-> k - 1], size)
<1> DEFINE parts == [k \in 1 .. size |-> Overwritten(word, k - 1, value)]
           keys == [k \in 1 .. size |-> k - 1]
           base == Built(drivers, word)
           one(s, k) == PickStep(s, index, Overwritten(word, k - 1, value), k - 1)
           two(s, k) == PickStep(s, index, parts[k], keys[k])
           A(f) == [k \in 0 .. size |-> IF k = 0 THEN base ELSE one(f[k - 1], k)]
           B(f) == [k \in 0 .. size |-> IF k = 0 THEN base ELSE two(f[k - 1], k)]
<1>1. ASSUME NEW f PROVE A(f) = B(f)
  <2> SUFFICES ASSUME NEW k \in 0 .. size PROVE (IF k = 0 THEN base ELSE one(f[k - 1], k)) = (IF k = 0 THEN base ELSE two(f[k - 1], k))
    OBVIOUS
  <2>1. CASE k = 0
    BY <2>1
  <2>2. CASE k # 0
    <3>1. k \in 1 .. size
      BY <2>2
    <3>2. parts[k] = Overwritten(word, k - 1, value) /\ keys[k] = k - 1
      BY <3>1
    <3> HIDE DEF parts, keys, base
    <3> QED
      BY <2>2, <3>2
  <2> QED
    BY <2>1, <2>2
<1>2. (CHOOSE f : f = A(f)) = (CHOOSE f : f = B(f))
  <2> HIDE DEF A, B
  <2> QED
    BY <1>1
<1>3. SelectWriteGates(drivers, word, step, value) = (CHOOSE f : f = A(f))[size]
  BY DEF SelectWriteGates, EachBit, Then, Built, PickStep
<1>4. Picking(drivers, index, word, parts, keys, size) = (CHOOSE f : f = B(f))[size]
  BY DEF Picking, EachBit, Then, Built, PickStep
<1> HIDE DEF A, B
<1> QED
  BY <1>2, <1>3, <1>4

(* Overwriting a part of a word replaces that part of the number.           *)
LEMMA OverwrittenMeans ==
  ASSUME NEW val, NEW m \in Nat, NEW n \in Nat, NEW x \in Words(m, n), NEW w \in Nat, NEW d, Within(d, w, m), NEW p \in Words(w, n)
  PROVE  Overwritten(x, d, p) \in Words(m, n) /\ Replaced(val, x, d, p, w, Overwritten(x, d, p), m)
<1> DEFINE z == Overwritten(x, d, p)
<1>1. d \in Nat /\ d + w <= m
  BY DEF Within
<1>2. DOMAIN x = 1 .. m /\ DOMAIN p = 1 .. w
  BY DEF Words
<1>3. z = [i \in 1 .. m |-> IF i - d \in 1 .. w THEN p[i - d] ELSE x[i]]
  BY <1>2 DEF Overwritten
<1> HIDE DEF z
<1>4. z \in Words(m, n)
  BY <1>1, <1>3 DEF Words
<1>5. ASSUME NEW k \in 1 .. w PROVE z[d + k] = p[k]
  <2> DEFINE i == d + k
  <2>1. i \in 1 .. m /\ i - d = k
    BY <1>1
  <2> HIDE DEF i
  <2>2. z[i] = p[i - d]
    BY <1>3, <2>1
  <2> QED
    BY <2>1, <2>2 DEF i
<1>6. ASSUME NEW k \in 1 .. m, k <= d \/ k > d + w PROVE z[k] = x[k]
  <2>1. ~(k - d \in 1 .. w)
    BY <1>1, <1>6
  <2> QED
    BY <1>3, <2>1
<1>7. Replaces(x, d, p, w, z, m)
  BY <1>5, <1>6 DEF Replaces
<1>8. Replaced(val, x, d, p, w, z, m)
  BY <1>4, <1>7, PartReplaced
<1> QED
  BY <1>4, <1>8 DEF z

LEMMA HighestIs ==
  ASSUME NEW l, NEW m, LaidOut(l, m)
  PROVE  Highest(l) \in Nat
BY WiderIs DEF LaidOut, Highest

(* select_array_value: the element declared with the index, or zeros.       *)
ElementIn(a, step, n) == IF Position(step, n) = OutOfRange THEN 0 ELSE PartOf(a, Position(step, n), step.layout.width)

(* An element read by a variable index: the one declared there.             *)
LEMMA ArraySelectBuilds ==
  ASSUME NEW val \in [Nat -> BOOLEAN], NEW drivers \in Vectors, NEW step, step.kind = "element",
         NEW m \in Nat, LaidOut(step.layout, m), NEW array \in Words(m, Len(drivers)),
         NEW u \in Nat, u > 0, NEW index \in Words(u, Len(drivers)), Highest(step.layout) < Pow2[u]
  PROVE  BuildsNumber(val, drivers, ArraySelectGates(drivers, array, index, step.layout), step.layout.width,
                      ElementIn(Low(val, array, m), step, Low(val, index, u)))
<1> DEFINE l == step.layout
           w == l.width
           size == Elements(l)
           A == Low(val, array, m)
           I == Low(val, index, u)
           start == Zeros(w)
           parts == [k \in 1 .. size |-> Element(l, array, k)]
           keys == DeclaredAll(l)
           numbers == [k \in 1 .. size |-> PartOf(A, Place(k - 1, w), w)]
           n == ElementIn(A, step, I)
           o == Len(drivers)
<1>1. w \in Nat /\ w > 0 /\ size \in Nat /\ Slots(m, size, w) /\ o \in Nat /\ I \in Nat /\ Pow2[u] \in Nat
  BY VectorLength, LowType, Powers DEF LaidOut
<1>2. ArraySelectGates(drivers, array, index, l) = Picking(drivers, index, start, parts, keys, size)
  BY ArraySelectFold DEF DeclaredAll
<1>3. start \in Words(w, o) /\ Low(val, start, w) = 0
  <2> HIDE DEF w, o
  <2> QED
    BY <1>1, ZerosLow
<1>4. ASSUME NEW k \in 1 .. size PROVE parts[k] \in Words(w, o) /\ numbers[k] = Low(val, parts[k], w)
  <2> DEFINE j == k - 1
             Y == Slot(array, j, w)
  <2>1. j \in 0 .. size - 1 /\ j + 1 = k
    BY <1>1
  <2>2. parts[k] = Y
    BY <2>1 DEF Element, Slot
  <2>3. numbers[k] = PartOf(A, Place(j, w), w)
    OBVIOUS
  <2>4. array \in Words(m, o)
    OBVIOUS
  <2> HIDE DEF j, parts, numbers, o, w, size, l
  <2>5. Y \in Words(w, o) /\ TakenFrom(val, array, m, j, Y, w)
    BY <1>1, <2>1, <2>4, SlotMeans
  <2> QED
    BY <2>2, <2>3, <2>5 DEF TakenFrom, A
<1>5. /\ \A k \in 1 .. size : Declared(l, k) \in 0 .. Highest(l)
      /\ Distinct(keys, size)
      /\ \A c \in Nat : \A k \in 1 .. size : Declared(l, k) = c => Finds(step, c, k)
      /\ \A c \in Nat : (\A k \in 1 .. size : Declared(l, k) # c) => Position(step, c) = OutOfRange
  BY DeclaredPlaces, Zenon
<1>6. \A k \in 1 .. size : keys[k] = Declared(l, k)
  BY DEF DeclaredAll
<1>7. \A k \in 1 .. size : keys[k] \in 0 .. Pow2[u] - 1
  <2> SUFFICES ASSUME NEW k \in 1 .. size PROVE keys[k] \in 0 .. Pow2[u] - 1
    OBVIOUS
  <2> DEFINE h == Highest(l)
             P == Pow2[u]
             d == keys[k]
  <2>1. d \in 0 .. h /\ h < P /\ P \in Nat /\ h \in Nat
    BY <1>1, <1>5, <1>6, HighestIs
  <2> HIDE DEF h, P, d
  <2>2. d \in 0 .. P - 1
    BY <2>1
  <2> QED
    BY <2>2 DEF P, d
<1>8. PicksOut(n, 0, numbers, keys, I, size)
  <2>1. ASSUME NEW c \in 1 .. size, keys[c] = I PROVE n = numbers[c]
    <3> DEFINE p == Place(c - 1, w)
    <3>1. p \in Nat
      <4> DEFINE j == c - 1
      <4>1. j \in 0 .. size - 1
        BY <1>1
      <4> HIDE DEF j, size, w
      <4> QED
        BY <1>1, <4>1, SlotsWithin DEF Place
    <3>2. Position(step, I) = p
      BY <1>1, <1>5, <1>6, <2>1 DEF Finds
    <3> HIDE DEF p
    <3>3. p # OutOfRange
      BY <3>1 DEF OutOfRange
    <3> QED
      BY <3>2, <3>3 DEF ElementIn, p
  <2>2. ASSUME \A c \in 1 .. size : keys[c] # I PROVE n = 0
    BY <1>1, <1>5, <1>6, <2>2 DEF ElementIn
  <2> HIDE DEF n, numbers, keys, I, size
  <2> QED
    BY <2>1, <2>2 DEF PicksOut
<1> HIDE DEF l, w, size, A, numbers, n, parts, start, keys
<1>9. BuildsNumber(val, drivers, Picking(drivers, index, start, parts, keys, size), w, n)
  <2>1. PicksOut(n, Low(val, start, w), numbers, keys, Low(val, index, u), size)
    BY <1>3, <1>8
  <2> HIDE DEF I
  <2> QED
    BY <1>1, <1>3, <1>4, <1>5, <1>7, <2>1, PickingBuilds
<1> QED
  BY <1>2, <1>9 DEF n, w, l, A

(* overwrite_array_value: the element declared with the index is replaced.  *)
PutIn(a, step, n, w, v) == IF Position(step, n) = OutOfRange THEN a ELSE WithPart(a, Position(step, n), w, v)

(* An element written by a variable index: the one declared there.          *)
LEMMA ElementWriteBuilds ==
  ASSUME NEW val \in [Nat -> BOOLEAN], NEW drivers \in Vectors, NEW step, step.kind = "element",
         NEW m \in Nat, LaidOut(step.layout, m), NEW word \in Words(m, Len(drivers)),
         NEW u \in Nat, u > 0, step.offset \in Words(u, Len(drivers)), Highest(step.layout) < Pow2[u],
         NEW w, w = step.layout.width, NEW value \in Words(w, Len(drivers))
  PROVE  BuildsNumber(val, drivers, ElementWriteGates(drivers, word, step, value), m,
                      PutIn(Low(val, word, m), step, Low(val, step.offset, u), w, Low(val, value, w)))
<1> DEFINE l == step.layout
           size == Elements(l)
           index == step.offset
           A == Low(val, word, m)
           B == Low(val, value, w)
           I == Low(val, index, u)
           parts == [k \in 1 .. size |-> Overwritten(word, (k - 1) * l.width, value)]
           keys == DeclaredAll(l)
           numbers == [k \in 1 .. size |-> WithPart(A, Place(k - 1, w), w, B)]
           n == PutIn(A, step, I, w, B)
           o == Len(drivers)
<1>1. w \in Nat /\ w > 0 /\ size \in Nat /\ Slots(m, size, w) /\ o \in Nat /\ I \in Nat /\ Pow2[u] \in Nat
  BY VectorLength, LowType, Powers DEF LaidOut
<1>2. ElementWriteGates(drivers, word, step, value) = Picking(drivers, index, word, parts, keys, size)
  BY ElementWriteFold DEF DeclaredAll
<1>4. ASSUME NEW k \in 1 .. size PROVE parts[k] \in Words(m, o) /\ numbers[k] = Low(val, parts[k], m)
  <2> DEFINE j == k - 1
             d == Place(j, w)
             Y == Overwritten(word, d, value)
  <2>1. j \in 0 .. size - 1
    BY <1>1
  <2>2. parts[k] = Y
    BY DEF Place
  <2>3. numbers[k] = WithPart(A, d, w, B)
    OBVIOUS
  <2>4. word \in Words(m, o) /\ value \in Words(w, o)
    OBVIOUS
  <2> HIDE DEF j, parts, numbers, o, size, l
  <2>5. Within(d, w, m)
    BY <1>1, <2>1, SlotsWithin DEF Place
  <2> HIDE DEF d
  <2>6. Y \in Words(m, o) /\ Replaced(val, word, d, value, w, Y, m)
    BY <1>1, <2>4, <2>5, OverwrittenMeans
  <2> QED
    BY <2>2, <2>3, <2>6 DEF Replaced, A, B
<1>5. /\ \A k \in 1 .. size : Declared(l, k) \in 0 .. Highest(l)
      /\ Distinct(keys, size)
      /\ \A c \in Nat : \A k \in 1 .. size : Declared(l, k) = c => Finds(step, c, k)
      /\ \A c \in Nat : (\A k \in 1 .. size : Declared(l, k) # c) => Position(step, c) = OutOfRange
  BY DeclaredPlaces, Zenon
<1>6. \A k \in 1 .. size : keys[k] = Declared(l, k)
  BY DEF DeclaredAll
<1>7. \A k \in 1 .. size : keys[k] \in 0 .. Pow2[u] - 1
  <2> SUFFICES ASSUME NEW k \in 1 .. size PROVE keys[k] \in 0 .. Pow2[u] - 1
    OBVIOUS
  <2> DEFINE h == Highest(l)
             P == Pow2[u]
             d == keys[k]
  <2>1. d \in 0 .. h /\ h < P /\ P \in Nat /\ h \in Nat
    BY <1>1, <1>5, <1>6, HighestIs
  <2> HIDE DEF h, P, d
  <2>2. d \in 0 .. P - 1
    BY <2>1
  <2> QED
    BY <2>2 DEF P, d
<1>8. PicksOut(n, A, numbers, keys, I, size)
  <2>1. ASSUME NEW c \in 1 .. size, keys[c] = I PROVE n = numbers[c]
    <3> DEFINE p == Place(c - 1, w)
    <3>1. p \in Nat
      <4> DEFINE j == c - 1
      <4>1. j \in 0 .. size - 1
        BY <1>1
      <4> HIDE DEF j, size
      <4> QED
        BY <1>1, <4>1, SlotsWithin DEF Place
    <3>2. Position(step, I) = p
      BY <1>1, <1>5, <1>6, <2>1 DEF Finds
    <3> HIDE DEF p
    <3>3. p # OutOfRange
      BY <3>1 DEF OutOfRange
    <3> QED
      BY <3>2, <3>3 DEF PutIn, p
  <2>2. ASSUME \A c \in 1 .. size : keys[c] # I PROVE n = A
    BY <1>1, <1>5, <1>6, <2>2 DEF PutIn
  <2> HIDE DEF n, numbers, keys, I, size, A
  <2> QED
    BY <2>1, <2>2 DEF PicksOut
<1>9. index \in Words(u, o) /\ word \in Words(m, o)
  OBVIOUS
<1> HIDE DEF l, size, numbers, n, parts, keys, index
<1>10. BuildsNumber(val, drivers, Picking(drivers, index, word, parts, keys, size), m, n)
  BY <1>1, <1>4, <1>5, <1>7, <1>8, <1>9, PickingBuilds
<1> QED
  BY <1>2, <1>10 DEF n, A, B, I, index

(* overwrite_value: the part at the offset is replaced, if it is within.    *)
PutAt(a, n, w, m, v) == IF n + w <= m THEN WithPart(a, n, w, v) ELSE a

(* A part written at a variable offset, if it lies inside the word.         *)
LEMMA SelectWriteBuilds ==
  ASSUME NEW val \in [Nat -> BOOLEAN], NEW drivers \in Vectors, NEW step,
         NEW m \in Nat, NEW word \in Words(m, Len(drivers)),
         NEW w, w = step.width, w \in Nat, w <= m, NEW value \in Words(w, Len(drivers)),
         NEW u \in Nat, u > 0, step.offset \in Words(u, Len(drivers)), m - w < Pow2[u]
  PROVE  BuildsNumber(val, drivers, SelectWriteGates(drivers, word, step, value), m,
                      PutAt(Low(val, word, m), Low(val, step.offset, u), w, m, Low(val, value, w)))
<1> DEFINE size == m - w + 1
           index == step.offset
           A == Low(val, word, m)
           B == Low(val, value, w)
           I == Low(val, index, u)
           parts == [k \in 1 .. size |-> Overwritten(word, k - 1, value)]
           keys == [k \in 1 .. size |-> k - 1]
           numbers == [k \in 1 .. size |-> WithPart(A, k - 1, w, B)]
           n == PutAt(A, I, w, m, B)
           o == Len(drivers)
<1>1. size \in Nat /\ o \in Nat /\ I \in Nat /\ Pow2[u] \in Nat
  <2>1. size \in Nat
    OBVIOUS
  <2> QED
    BY <2>1, VectorLength, LowType, Powers
<1>2. SelectWriteGates(drivers, word, step, value) = Picking(drivers, index, word, parts, keys, size)
  <2>1. Len(word) = m
    BY <1>1, WordShape
  <2>2. size = Len(word) - step.width + 1
    BY <2>1
  <2> HIDE DEF size
  <2> QED
    BY <2>2, SelectWriteFold
<1>4. ASSUME NEW k \in 1 .. size PROVE parts[k] \in Words(m, o) /\ numbers[k] = Low(val, parts[k], m)
  <2> DEFINE d == k - 1
             Y == Overwritten(word, d, value)
  <2>1. Within(d, w, m)
    BY DEF Within
  <2>2. parts[k] = Y
    OBVIOUS
  <2>3. numbers[k] = WithPart(A, d, w, B)
    OBVIOUS
  <2>4. word \in Words(m, o) /\ value \in Words(w, o)
    OBVIOUS
  <2> HIDE DEF parts, numbers, o, size, d
  <2>6. Y \in Words(m, o) /\ Replaced(val, word, d, value, w, Y, m)
    BY <1>1, <2>1, <2>4, OverwrittenMeans
  <2> QED
    BY <2>2, <2>3, <2>6 DEF Replaced, A, B
<1>5. Distinct(keys, size)
  BY <1>1 DEF Distinct
<1>7. \A k \in 1 .. size : keys[k] \in 0 .. Pow2[u] - 1
  <2> DEFINE P == Pow2[u]
  <2>1. P \in Nat /\ m - w < P
    BY <1>1
  <2> HIDE DEF P
  <2>2. \A k \in 1 .. size : keys[k] \in 0 .. P - 1
    BY <2>1
  <2> QED
    BY <2>2 DEF P
<1>8. PicksOut(n, A, numbers, keys, I, size)
  <2>1. ASSUME NEW c \in 1 .. size, keys[c] = I PROVE n = numbers[c]
    <3>1. I = c - 1
      BY <2>1
    <3> HIDE DEF I, A, B
    <3>2. I + w <= m
      BY <1>1, <3>1
    <3>3. numbers[c] = WithPart(A, I, w, B)
      BY <3>1
    <3> QED
      BY <3>2, <3>3 DEF PutAt
  <2>2. ASSUME \A c \in 1 .. size : keys[c] # I PROVE n = A
    <3> HIDE DEF I, A, B
    <3>1. ~(I + w <= m)
      <4> SUFFICES ASSUME I + w <= m PROVE FALSE
        OBVIOUS
      <4> DEFINE c == I + 1
      <4>1. c \in 1 .. size /\ c - 1 = I
        BY <1>1
      <4> HIDE DEF c
      <4>2. keys[c] = I
        BY <4>1
      <4> QED
        BY <2>2, <4>1, <4>2
    <3> QED
      BY <3>1 DEF PutAt
  <2> HIDE DEF n, numbers, keys, I, size, A
  <2> QED
    BY <2>1, <2>2 DEF PicksOut
<1>9. index \in Words(u, o) /\ word \in Words(m, o)
  OBVIOUS
<1> HIDE DEF size, numbers, n, parts, keys, index
<1>10. BuildsNumber(val, drivers, Picking(drivers, index, word, parts, keys, size), m, n)
  BY <1>1, <1>4, <1>5, <1>7, <1>8, <1>9, PickingBuilds
<1> QED
  BY <1>2, <1>10 DEF n, A, B, I, index

(* select_without_or: the selector that FsmOps has, with                    *)
(* multiplexers of one gate type.                                           *)
HalvedWithoutOr(drivers, level, select) == Halved(drivers, level, LAMBDA d, a, b : MuxValueWithoutOr(d, a, b, select))

(* select_without_or: each round keeps one half of the choices.             *)
LEMMA HalvedWithoutOrBuilds ==
  ASSUME NEW val \in [Nat -> BOOLEAN], NEW drivers \in Vectors, NEW w \in Nat, NEW m \in Nat, Doubles(w, m),
         NEW level \in Words(m, Len(drivers)), NEW select \in Values(Len(drivers))
  PROVE  /\ HalvedWithoutOr(drivers, level, select) \in Builds
         /\ BuildsBits(val, drivers, HalvedWithoutOr(drivers, level, select), w, HalvedSays(val, level, select, w))
<1> DEFINE x == HalvedSays(val, level, select, w)
           bit(s, k) == MuxValueWithoutOr(s.ds, level[2 * k - 1], level[2 * k], select)
           step(s, k) == [ds |-> bit(s, k).ds, out |-> Append(s.out, bit(s, k).out)]
           base == [ds |-> drivers, out |-> <<>>]
           V == [k \in 0 .. w |-> {s \in Builds : BuildsBits(val, drivers, s, k, x)}]
<1>1. base \in V[0]
  <2>1. Len(drivers) \in Nat /\ Follows(val, drivers, drivers)
    BY VectorLength, FollowsItself
  <2>2. <<>> \in Words(0, Len(drivers)) /\ <<>> \in Seq(Signals)
    BY <2>1, EmptyWord
  <2> QED
    BY <2>1, <2>2 DEF Builds, BuildsBits
<1>2. ASSUME NEW k \in 1 .. w, NEW s \in V[k - 1] PROVE step(s, k) \in V[k]
  <2> DEFINE low == level[2 * k - 1]
             high == level[2 * k]
             b == IF Says(val, select) THEN Says(val, high) ELSE Says(val, low)
  <2>1. k - 1 \in 0 .. w /\ k - 1 \in Nat /\ (k - 1) + 1 = k /\ k \in 0 .. w
    OBVIOUS
  <2>2. s \in Builds /\ BuildsBits(val, drivers, s, k - 1, x)
    BY <2>1
  <2>3. s.ds \in Vectors /\ low \in Values(Len(s.ds)) /\ high \in Values(Len(s.ds)) /\ select \in Values(Len(s.ds))
    <3>1. 2 * k - 1 \in 1 .. m /\ 2 * k \in 1 .. m
      BY DEF Doubles
    <3>2. low \in Values(Len(drivers)) /\ high \in Values(Len(drivers))
      BY <3>1 DEF Words
    <3> HIDE DEF low, high
    <3> QED
      BY <2>2, <3>2 DEF BuildsBits, Follows
  <2>4. b <=> x[k]
    BY DEF HalvedSays
  <2> DEFINE g == MuxValueWithoutOr(s.ds, low, high, select)
             e == s.ds
  <2> HIDE DEF low, high, x
  <2>5. BuildsBit(val, s.ds, g, b)
    <3> HIDE DEF e
    <3>1. e \in Vectors /\ low \in Values(Len(e)) /\ high \in Values(Len(e)) /\ select \in Values(Len(e))
      BY <2>3 DEF e
    <3>2. BuildsBit(val, e, MuxValueWithoutOr(e, low, high, select), b)
      BY <3>1, MuxWithoutOrBuildsBit
    <3> QED
      BY <3>2 DEF e
  <2>6. g = bit(s, k)
    BY DEF low, high
  <2> HIDE DEF bit, b, g
  <2> DEFINE t == [ds |-> g.ds, out |-> Append(s.out, g.out)]
  <2>7. t \in Builds /\ BuildsBits(val, drivers, t, (k - 1) + 1, x)
    BY <2>1, <2>2, <2>4, <2>5, BitAdded
  <2>8. t = step(s, k)
    BY <2>6
  <2> HIDE DEF step, t
  <2> QED
    BY <2>1, <2>7, <2>8
<1> DEFINE Rec(f) == [k \in 0 .. w |-> IF k = 0 THEN base ELSE step(f[k - 1], k)]
       F == [y \in Builds \X (1 .. w) |-> step(y[1], y[2])]
       after == CHOOSE f : f = Rec(f)
<1>a1. \A k \in 1 .. w : \A s \in V[k - 1] : F[<<s, k>>] = step(s, k) /\ F[<<s, k>>] \in V[k]
  <2> SUFFICES ASSUME NEW k \in 1 .. w, NEW s \in V[k - 1] PROVE F[<<s, k>>] = step(s, k)
    <3> HIDE DEF V, step, F
    <3> QED
      BY <1>2
  <2>1. k - 1 \in 0 .. w
    OBVIOUS
  <2>2. s \in Builds
    BY <2>1
  <2> HIDE DEF V, step
  <2> QED
    BY <2>2
<1>a2. PICK run : Runs(w, V, base, F, run)
  <2> HIDE DEF V, step, F, base
  <2> QED
    BY <1>1, <1>a1, LoopRuns
<1>a3. run = Rec(run)
  <2> SUFFICES ASSUME NEW k \in 0 .. w PROVE run[k] = IF k = 0 THEN base ELSE step(run[k - 1], k)
    <3> HIDE DEF V, step, F, base
    <3> QED
      BY <1>a2 DEF Runs
  <2>1. CASE k = 0
    <3> HIDE DEF V, step, F, base
    <3> QED
      BY <2>1, <1>a2 DEF Runs
  <2>2. CASE k # 0
    <3>1. k \in 1 .. w /\ k - 1 \in 0 .. w
      BY <2>2
    <3> HIDE DEF V, step, F, base
    <3> QED
      BY <2>2, <3>1, <1>a1, <1>a2 DEF Runs
  <2> QED
    BY <2>1, <2>2
<1>a4. after = Rec(after)
  <2> HIDE DEF Rec
  <2> QED
    BY <1>a3
<1>a5. after[0] = base /\ \A k \in 1 .. w : after[k] = step(after[k - 1], k)
  <2> HIDE DEF step, base, after, V, F
  <2>1. \A k \in 0 .. w : after[k] = IF k = 0 THEN base ELSE step(after[k - 1], k)
    BY <1>a4
  <2>2. 0 \in 0 .. w /\ \A k \in 1 .. w : k \in 0 .. w /\ k # 0
    OBVIOUS
  <2> HIDE DEF Rec
  <2> QED
    BY <2>1, <2>2
<1>a6. \A k \in 0 .. w : after[k] \in V[k]
  <2> HIDE DEF V, step, F, base, after, Rec
  <2> QED
    BY <1>1, <1>a1, <1>a5, LoopKeeps, ZenonT(60)
<1>3. HalvedWithoutOr(drivers, level, select) = after[w]
  <2>1. Len(level) \div 2 = w
    <3>1. Len(level) = m
      BY VectorLength, WordShape
    <3> DEFINE two == 2
               zero == 0
    <3>2. Divides(m, two, w, zero)
      BY DEF Divides, Doubles
    <3> HIDE DEF two, zero
    <3>3. Divided(m, two, w, zero)
      BY <3>2, DivisionIs
    <3> QED
      BY <3>1, <3>3 DEF Divided, two
  <2> QED
    BY <2>1 DEF HalvedWithoutOr, Halved, BuildWord, EachBit, Then, Built
<1>4. after[w] \in Builds /\ BuildsBits(val, drivers, after[w], w, x)
  <2> HIDE DEF after, x
  <2> QED
    BY <1>a6
<1> HIDE DEF after
<1> QED
  BY <1>3, <1>4

(* What is left after some rounds is the choice the bits read so far say.   *)
LEMMA ChoiceWithoutOrBuilds ==
  ASSUME NEW val \in [Nat -> BOOLEAN], NEW drivers \in Vectors, NEW choices, NEW n \in Nat, NEW j \in Nat, NEW k, k = j + 1,
         NEW w \in Nat, NEW m \in Nat, Doubles(w, m), NEW s \in Builds, BuildsChoice(val, drivers, s, choices, n, j, m),
         NEW select \in Values(Len(drivers)),
         NEW l \in Nat, Says(val, select) => l = n + Pow2[j], ~Says(val, select) => l = n
  PROVE  /\ HalvedWithoutOr(s.ds, s.out, select) \in Builds
         /\ BuildsChoice(val, drivers, HalvedWithoutOr(s.ds, s.out, select), choices, l, k, w)
<1> DEFINE e == s.ds
           x == s.out
           g == HalvedWithoutOr(e, x, select)
           z == HalvedSays(val, x, select, w)
<1>1. e \in Vectors /\ Follows(val, drivers, e) /\ x \in Words(m, Len(e)) /\ select \in Values(Len(e))
  BY DEF BuildsChoice, Follows
<1>2. Respects(val, e) => Chooses(val, choices, x, n, j, m)
  BY DEF BuildsChoice
<1> HIDE DEF e, x
<1>3. g \in Builds /\ BuildsBits(val, e, g, w, z)
  BY <1>1, HalvedWithoutOrBuilds
<1> HIDE DEF g
<1> DEFINE y == g.out
<1>4. Follows(val, e, g.ds) /\ Follows(val, drivers, g.ds) /\ y \in Words(w, Len(g.ds))
  <2>1. Follows(val, e, g.ds) /\ y \in Words(w, Len(g.ds))
    BY <1>3 DEF BuildsBits
  <2> QED
    BY <1>1, <2>1, FollowsOn
<1>5. Respects(val, g.ds) => Chooses(val, choices, y, l, k, w)
  <2> SUFFICES ASSUME Respects(val, g.ds) PROVE Chooses(val, choices, y, l, k, w)
    OBVIOUS
  <2>1. Chooses(val, choices, x, n, j, m)
    BY <1>2, <1>4 DEF Follows
  <2>2. \A i \in 1 .. w : Says(val, y[i]) <=> HalvedSays(val, x, select, w)[i]
    BY <1>3 DEF BuildsBits
  <2> HIDE DEF y, z
  <2> QED
    BY <2>1, <2>2, ChoosesOn
<1>6. BuildsChoice(val, drivers, g, choices, l, k, w)
  <2> HIDE DEF z
  <2> QED
    BY <1>4, <1>5 DEF BuildsChoice
<1> QED
  BY <1>3, <1>6 DEF g, e, x

(* select_without_or: the choice at the number of the index.                *)
LEMMA SelectWithoutOrBuilds ==
  ASSUME NEW val \in [Nat -> BOOLEAN], NEW drivers \in Vectors, NEW u \in Nat, NEW index \in Words(u, Len(drivers)),
         NEW w \in Nat, w = Pow2[u], NEW choices \in Words(w, Len(drivers))
  PROVE  BuildsBit(val, drivers, SelectWithoutOr(drivers, choices, index), Says(val, choices[Low(val, index, u) + 1]))
<1> DEFINE step(s, k) == HalvedWithoutOr(s.ds, s.out, index[k])
           base == [ds |-> drivers, out |-> choices]
           far(k) == Low(val, index, k)
           left(k) == Pow2[u - k]
           V == [k \in 0 .. u |-> {s \in Builds : BuildsChoice(val, drivers, s, choices, far(k), k, left(k))}]
<1>0. /\ Len(drivers) \in Nat /\ Len(index) = u /\ Follows(val, drivers, drivers)
      /\ choices \in Seq(Signals) /\ \A k \in 1 .. u : index[k] \in Values(Len(drivers))
  <2>1. Len(drivers) \in Nat
    BY VectorLength
  <2> QED
    BY <2>1, WordShape, FollowsItself
<1>1. base \in V[0]
  <2> DEFINE zero == 0
             m == left(0)
  <2>1. Pow2[0] = 1 /\ far(0) = zero /\ m = w /\ m \in Nat
    <3>1. u - 0 = u
      OBVIOUS
    <3> QED
      BY <3>1, Powers, LowNone
  <2>2. base \in Builds
    BY <1>0 DEF Builds
  <2>3. base.ds = drivers /\ base.out = choices
    OBVIOUS
  <2>4. \A i \in 1 .. w : Left(0, 0, i) = i
    <3> SUFFICES ASSUME NEW i \in 1 .. w PROVE Left(0, 0, i) = i
      OBVIOUS
    <3>1. Left(0, 0, i) = (1 * (i - 1)) + 0 + 1
      BY <2>1 DEF Left
    <3> QED
      BY <3>1
  <2>5. Chooses(val, choices, choices, zero, 0, m)
    <3> HIDE DEF left
    <3> QED
      BY <2>1, <2>4 DEF Chooses
  <2> HIDE DEF base, zero, m, far
  <2>6. BuildsChoice(val, drivers, base, choices, zero, 0, m)
    BY <1>0, <2>1, <2>3, <2>5 DEF BuildsChoice
  <2> HIDE DEF left
  <2>7. BuildsChoice(val, drivers, base, choices, far(0), 0, left(0))
    BY <2>1, <2>6 DEF m
  <2> QED
    BY <2>2, <2>7
<1>2. ASSUME NEW k \in 1 .. u, NEW s \in V[k - 1] PROVE step(s, k) \in V[k]
  <2> DEFINE j == k - 1
             select == index[k]
             t == HalvedWithoutOr(s.ds, s.out, select)
             n == far(j)
             m == far(k)
             big == left(j)
             small == left(k)
  <2>1. j \in 0 .. u /\ j \in Nat /\ k \in 0 .. u /\ k = j + 1 /\ k \in Nat
    OBVIOUS
  <2>2. s \in Builds /\ BuildsChoice(val, drivers, s, choices, n, j, big)
    BY <2>1
  <2>3. t = step(s, k)
    OBVIOUS
  <2> HIDE DEF V, base, step
  <2>4. n \in Nat /\ m \in Nat /\ Pow2[j] \in Nat
    <3> HIDE DEF j
    <3> QED
      BY <2>1, LowType, Powers
  <2>5. (Says(val, select) => m = n + Pow2[j]) /\ (~Says(val, select) => m = n)
    <3>1. \A l \in 1 .. u : far(l) = far(l - 1) + (Truth(Says(val, index[l])) * Pow2[l - 1])
      BY <1>0, LowGrows
    <3> HIDE DEF far
    <3>2. m = n + (Truth(Says(val, select)) * Pow2[j])
      BY <3>1
    <3> DEFINE p == Pow2[j]
    <3>3. p \in Nat
      BY <2>4
    <3> HIDE DEF m, n, p, select
    <3> QED
      BY <2>4, <3>2, <3>3 DEF Truth, p
  <2>6. select \in Values(Len(drivers))
    BY <1>0
  <2>7. small \in Nat /\ big \in Nat /\ Doubles(small, big)
    <3> DEFINE d == u - k
    <3>1. d \in Nat /\ u - j = d + 1
      OBVIOUS
    <3>2. Pow2[d + 1] = 2 * Pow2[d] /\ Pow2[d] \in Nat
      <4> HIDE DEF d
      <4> QED
        BY <3>1, Powers
    <3>3. big = Pow2[d + 1]
      BY <3>1
    <3> HIDE DEF big
    <3>4. small = Pow2[d]
      OBVIOUS
    <3> HIDE DEF small, d
    <3> QED
      BY <3>2, <3>3, <3>4 DEF Doubles
  <2> HIDE DEF select, n, m, big, small, j
  <2>8. t \in Builds
    BY <2>1, <2>2, <2>4, <2>5, <2>6, <2>7, ChoiceWithoutOrBuilds
  <2>9. BuildsChoice(val, drivers, t, choices, m, k, small)
    BY <2>1, <2>2, <2>4, <2>5, <2>6, <2>7, ChoiceWithoutOrBuilds
  <2> HIDE DEF t, far, left
  <2> QED
    BY <2>1, <2>3, <2>8, <2>9 DEF V, m, small
<1> HIDE DEF far, left
<1> DEFINE Rec(f) == [k \in 0 .. u |-> IF k = 0 THEN base ELSE step(f[k - 1], k)]
       F == [y \in Builds \X (1 .. u) |-> step(y[1], y[2])]
       after == CHOOSE f : f = Rec(f)
<1>a1. \A k \in 1 .. u : \A s \in V[k - 1] : F[<<s, k>>] = step(s, k) /\ F[<<s, k>>] \in V[k]
  <2> SUFFICES ASSUME NEW k \in 1 .. u, NEW s \in V[k - 1] PROVE F[<<s, k>>] = step(s, k)
    <3> HIDE DEF V, step, F
    <3> QED
      BY <1>2
  <2>1. k - 1 \in 0 .. u
    OBVIOUS
  <2>2. s \in Builds
    BY <2>1
  <2> HIDE DEF V, step
  <2> QED
    BY <2>2
<1>a2. PICK run : Runs(u, V, base, F, run)
  <2> HIDE DEF V, step, F, base
  <2> QED
    BY <1>1, <1>a1, LoopRuns
<1>a3. run = Rec(run)
  <2> SUFFICES ASSUME NEW k \in 0 .. u PROVE run[k] = IF k = 0 THEN base ELSE step(run[k - 1], k)
    <3> HIDE DEF V, step, F, base
    <3> QED
      BY <1>a2 DEF Runs
  <2>1. CASE k = 0
    <3> HIDE DEF V, step, F, base
    <3> QED
      BY <2>1, <1>a2 DEF Runs
  <2>2. CASE k # 0
    <3>1. k \in 1 .. u /\ k - 1 \in 0 .. u
      BY <2>2
    <3> HIDE DEF V, step, F, base
    <3> QED
      BY <2>2, <3>1, <1>a1, <1>a2 DEF Runs
  <2> QED
    BY <2>1, <2>2
<1>a4. after = Rec(after)
  <2> HIDE DEF Rec
  <2> QED
    BY <1>a3
<1>a5. after[0] = base /\ \A k \in 1 .. u : after[k] = step(after[k - 1], k)
  <2> HIDE DEF step, base, after, V, F
  <2>1. \A k \in 0 .. u : after[k] = IF k = 0 THEN base ELSE step(after[k - 1], k)
    BY <1>a4
  <2>2. 0 \in 0 .. u /\ \A k \in 1 .. u : k \in 0 .. u /\ k # 0
    OBVIOUS
  <2> HIDE DEF Rec
  <2> QED
    BY <2>1, <2>2
<1>a6. \A k \in 0 .. u : after[k] \in V[k]
  <2> HIDE DEF V, step, F, base, after, Rec
  <2> QED
    BY <1>1, <1>a1, <1>a5, LoopKeeps, ZenonT(60)
<1> DEFINE t == after[u]
<1>3. SelectWithoutOr(drivers, choices, index) = Built(t.ds, t.out[1])
  BY <1>0 DEF SelectWithoutOr, EachBit, Then, Built, HalvedWithoutOr
<1>4. t \in Builds /\ BuildsChoice(val, drivers, t, choices, far(u), u, left(u))
  <2> HIDE DEF after
  <2> QED
    BY <1>a6
<1> HIDE DEF t
<1>5. left(u) = 1 /\ u - u = 0
  BY Powers DEF left
<1> DEFINE one == left(u)
           v == t.out[1]
           x == t.out
           e == t.ds
           n == far(u)
           b == Says(val, choices[n + 1])
<1>6. one = 1 /\ n \in Nat
  BY <1>5, LowType DEF far
<1> HIDE DEF one, n
<1>7. Follows(val, drivers, e) /\ x \in Words(one, Len(e)) /\ (Respects(val, e) => Chooses(val, choices, x, n, u, one))
  BY <1>4 DEF BuildsChoice, one, n
<1>8. v \in Values(Len(e)) /\ e \in Vectors /\ Len(e) \in Nat /\ v \in Signals
  <2>1. v \in Values(Len(e)) /\ e \in Vectors
    BY <1>6, <1>7 DEF Words, Follows
  <2>2. Len(e) \in Nat
    BY <2>1, VectorLength
  <2> HIDE DEF e, v
  <2> QED
    BY <2>1, <2>2, ValuesAre
<1>9. Respects(val, e) => (Says(val, v) <=> b)
  <2> SUFFICES ASSUME Respects(val, e) PROVE Says(val, v) <=> b
    OBVIOUS
  <2>1. Chooses(val, choices, x, n, u, one)
    BY <1>7
  <2>2. Left(n, u, 1) = n + 1
    <3>1. Left(n, u, 1) = (Pow2[u] * (1 - 1)) + n + 1 /\ Pow2[u] \in Nat
      BY Powers DEF Left
    <3> DEFINE p == Pow2[u]
    <3>2. p * (1 - 1) = 0
      BY <3>1
    <3> QED
      BY <1>6, <3>1, <3>2
  <2>3. 1 \in 1 .. one
    BY <1>6
  <2>4. Says(val, x[1]) <=> Says(val, choices[Left(n, u, 1)])
    BY <2>1, <2>3 DEF Chooses
  <2> QED
    BY <2>2, <2>4
<1> HIDE DEF v, e, b
<1>10. BuildsBit(val, drivers, Built(e, v), b)
  <2> DEFINE g == Built(e, v)
  <2>1. g.ds = e /\ g.out = v /\ g \in [ds : Vectors, out : Signals]
    BY <1>8 DEF Built
  <2> HIDE DEF g
  <2>2. BuildsBit(val, drivers, g, b)
    BY <1>7, <1>8, <1>9, <2>1 DEF BuildsBit
  <2> QED
    BY <2>2 DEF g
<1> QED
  BY <1>3, <1>10 DEF v, e, b, n, far

(* select_value: the bits that the offset may mean for one bit of the part. *)
ChoicesAt(x, size, k) == [c \in 1 .. size |-> IF c + k - 1 <= Len(x) THEN x[c + k - 1] ELSE False]
(* What the bits of the part say: beyond the vector they are zero.          *)
SaysAt(val, x, m, d, w) == [k \in 1 .. w |-> IF d + k <= m THEN Says(val, x[d + k]) ELSE FALSE]

(* Bits read past the end are those of the number.                          *)
LEMMA PartMeansBeyond ==
  ASSUME NEW val \in [Nat -> BOOLEAN], NEW m \in Nat, m > 0, NEW n \in Nat, NEW x \in Words(m, n), NEW d \in Nat, NEW w \in Nat,
         NEW y, NEW l \in Nat, y \in Words(w, l), \A k \in 1 .. w : Says(val, y[k]) <=> SaysAt(val, x, m, d, w)[k]
  PROVE  Low(val, y, w) = PartOf(Low(val, x, m), d, w)
<1> DEFINE t == m + d + w
           wide == Unsigned(x, t)
           z == [k \in 1 .. w |-> wide[d + k]]
           A == Low(val, x, m)
<1>1. t \in Nat /\ m <= t /\ d + w <= t /\ Len(x) = m
  BY WordShape
<1>2. \A k \in 1 .. t : wide[k] = IF k <= m THEN x[k] ELSE False
  BY <1>1 DEF Unsigned, ResizeValues
<1>3. wide \in Words(t, n) /\ Low(val, wide, t) = A
  <2> HIDE DEF t, A
  <2>1. wide \in Words(t, n) /\ Low(val, wide, t) = Wrap(Low(val, x, m), t)
    BY <1>1, UnsignedResize
  <2>2. Low(val, x, m) \in 0 .. Pow2[m] - 1
    BY LowType
  <2> DEFINE c == Low(val, x, m)
  <2> HIDE DEF c
  <2>3. Wrap(c, t) = c
    <3>1. c \in 0 .. Pow2[m] - 1
      BY <2>2 DEF c
    <3> QED
      BY <1>1, <3>1, WrapFits
  <2> QED
    BY <2>1, <2>3 DEF A, c
<1> HIDE DEF wide
<1>4. z \in Words(w, n) /\ \A k \in 1 .. w : z[k] = wide[d + k] /\ z[k] = IF d + k <= m THEN x[d + k] ELSE False
  <2>1. \A k \in 1 .. w : d + k \in 1 .. t
    OBVIOUS
  <2>2. \A k \in 1 .. w : wide[d + k] \in Values(n)
    BY <1>3, <2>1 DEF Words
  <2> QED
    BY <1>2, <2>1, <2>2 DEF Words
<1> HIDE DEF z, t
<1>5. Low(val, z, w) = PartOf(A, d, w)
  <2>1. Within(d, w, t)
    BY <1>1 DEF Within
  <2>2. Cuts(wide, d, z, w)
    BY <1>4 DEF Cuts
  <2>3. Low(val, z, w) = PartOf(Low(val, wide, t), d, w)
    BY <1>1, <1>3, <1>4, <2>1, <2>2, PartMeans
  <2> QED
    BY <1>3, <2>3
<1>6. Low(val, y, w) = Low(val, z, w)
  <2>1. \A k \in 1 .. w : Says(val, y[k]) <=> Says(val, z[k])
    <3> SUFFICES ASSUME NEW k \in 1 .. w PROVE Says(val, y[k]) <=> Says(val, z[k])
      OBVIOUS
    <3>1. Says(val, False) = FALSE
      BY SaysConst
    <3>2. z[k] = IF d + k <= m THEN x[d + k] ELSE False
      BY <1>4
    <3>3. Says(val, y[k]) <=> IF d + k <= m THEN Says(val, x[d + k]) ELSE FALSE
      BY DEF SaysAt
    <3> QED
      BY <3>1, <3>2, <3>3
  <2> QED
    BY <1>4, <2>1, LowEqual
<1> QED
  BY <1>5, <1>6 DEF A

(* One bit of a selected part: the bit at the offset, or zero beyond.       *)
LEMMA ChosenBit ==
  ASSUME NEW val \in [Nat -> BOOLEAN], NEW drivers \in Vectors, NEW m \in Nat, NEW x \in Words(m, Len(drivers)),
         NEW u \in Nat, NEW size, size = Pow2[u], NEW index \in Words(u, Len(drivers)), NEW w \in Nat, NEW k \in 1 .. w,
         NEW d, d = Low(val, index, u), NEW b, b <=> SaysAt(val, x, m, d, w)[k]
  PROVE  BuildsBit(val, drivers, SelectWithoutOr(drivers, ChoicesAt(x, size, k), index), b)
<1> DEFINE n == Len(drivers)
           choices == ChoicesAt(x, size, k)
<1>1. n \in Nat /\ Len(x) = m /\ size \in Nat
  BY VectorLength, WordShape, Powers
<1> HIDE DEF n
<1>2. choices \in Words(size, n)
  <2>1. \A c \in 1 .. size : c + k - 1 \in Nat /\ c + k - 1 > 0
    BY <1>1
  <2>2. \A c \in Nat : c > 0 /\ c <= m => x[c] \in Values(n)
    BY DEF Words, n
  <2>3. False \in Values(n)
    BY <1>1, ValuesAre
  <2> QED
    BY <1>1, <2>1, <2>2, <2>3 DEF ChoicesAt, Words
<1>3. d \in Nat /\ d < size
  BY LowType
<1>4. Says(val, choices[d + 1]) <=> b
  <2>1. d + 1 \in 1 .. size
    BY <1>1, <1>3
  <2>2. (d + 1) + k - 1 = d + k
    BY <1>3
  <2>3. choices[d + 1] = IF d + k <= m THEN x[d + k] ELSE False
    BY <1>1, <2>1, <2>2 DEF ChoicesAt
  <2>4. Says(val, False) = FALSE
    BY SaysConst
  <2>5. b <=> IF d + k <= m THEN Says(val, x[d + k]) ELSE FALSE
    BY DEF SaysAt
  <2> QED
    BY <2>3, <2>4, <2>5
<1> HIDE DEF choices
<1>5. BuildsBit(val, drivers, SelectWithoutOr(drivers, choices, index), Says(val, choices[Low(val, index, u) + 1]))
  BY <1>1, <1>2, SelectWithoutOrBuilds DEF n
<1> DEFINE c == Says(val, choices[d + 1])
<1>6. BuildsBit(val, drivers, SelectWithoutOr(drivers, choices, index), c)
  BY <1>5
<1> HIDE DEF c
<1>7. c <=> b
  BY <1>4 DEF c
<1> DEFINE g == SelectWithoutOr(drivers, choices, index)
<1> HIDE DEF g
<1>8. BuildsBit(val, drivers, g, b)
  <2>1. BuildsBit(val, drivers, g, c)
    BY <1>6 DEF g
  <2> QED
    BY <1>7, <2>1, BitSame
<1> QED
  BY <1>8 DEF g, choices

(* The bits of `y' are those of the number `x' from bit `d' on.             *)
SaysPart(val, y, x, m, d, w) == \A k \in 1 .. w : Says(val, y[k]) <=> SaysAt(val, x, m, d, w)[k]
LEMMA PartSays ==
  ASSUME NEW val \in [Nat -> BOOLEAN], NEW m \in Nat, m > 0, NEW n \in Nat, NEW x \in Words(m, n), NEW d \in Nat, NEW w \in Nat,
         NEW y, NEW l \in Nat, y \in Words(w, l), SaysPart(val, y, x, m, d, w)
  PROVE  Low(val, y, w) = PartOf(Low(val, x, m), d, w)
  BY PartMeansBeyond DEF SaysPart

ChosenWord(drivers, x, index, size, w) ==
  BuildWord(drivers, LAMBDA d, k : SelectWithoutOr(d, ChoicesAt(x, size, k), index), w)

(* select_value: the part at the offset, zero beyond the end.               *)
LEMMA ChosenWordBuilds ==
  ASSUME NEW val \in [Nat -> BOOLEAN], NEW drivers \in Vectors, NEW m \in Nat, m > 0, NEW x \in Words(m, Len(drivers)),
         NEW u \in Nat, NEW size, size = Pow2[u], NEW index \in Words(u, Len(drivers)), NEW w \in Nat
  PROVE  BuildsNumber(val, drivers, ChosenWord(drivers, x, index, size, w), w, PartOf(Low(val, x, m), Low(val, index, u), w))
<1> DEFINE I == Low(val, index, u)
           says == SaysAt(val, x, m, I, w)
           bit(s, k) == SelectWithoutOr(s.ds, ChoicesAt(x, size, k), index)
           step(s, k) == [ds |-> bit(s, k).ds, out |-> Append(s.out, bit(s, k).out)]
           base == [ds |-> drivers, out |-> <<>>]
           V == [k \in 0 .. w |-> {s \in Builds : BuildsBits(val, drivers, s, k, says)}]
<1>1. base \in V[0]
  <2>1. Len(drivers) \in Nat /\ Follows(val, drivers, drivers)
    BY VectorLength, FollowsItself
  <2>2. <<>> \in Words(0, Len(drivers)) /\ <<>> \in Seq(Signals)
    BY <2>1, EmptyWord
  <2> QED
    BY <2>1, <2>2 DEF Builds, BuildsBits
<1>2. ASSUME NEW k \in 1 .. w, NEW s \in V[k - 1] PROVE step(s, k) \in V[k]
  <2> DEFINE e == s.ds
             c == says[k]
             g == SelectWithoutOr(e, ChoicesAt(x, size, k), index)
  <2>1. k - 1 \in 0 .. w /\ k - 1 \in Nat /\ (k - 1) + 1 = k /\ k \in 0 .. w
    OBVIOUS
  <2>2. s \in Builds /\ BuildsBits(val, drivers, s, k - 1, says)
    BY <2>1
  <2>3. e \in Vectors /\ Follows(val, drivers, e)
    BY <2>2 DEF BuildsBits, Follows
  <2>4. x \in Words(m, Len(e)) /\ index \in Words(u, Len(e))
    BY <2>3, WordsGrow
  <2>5. g = bit(s, k)
    OBVIOUS
  <2> HIDE DEF e, says, I
  <2>6. BuildsBit(val, e, g, c)
    <3>1. c <=> SaysAt(val, x, m, I, w)[k]
      BY DEF says
    <3>2. I = Low(val, index, u)
      BY DEF I
    <3> HIDE DEF c, g
    <3>3. BuildsBit(val, e, SelectWithoutOr(e, ChoicesAt(x, size, k), index), c)
      BY <2>3, <2>4, <3>1, <3>2, ChosenBit
    <3> QED
      BY <3>3 DEF g
  <2> HIDE DEF bit, g
  <2> DEFINE t == [ds |-> g.ds, out |-> Append(s.out, g.out)]
  <2>7. t \in Builds /\ BuildsBits(val, drivers, t, (k - 1) + 1, says)
    <3>1. c <=> says[(k - 1) + 1]
      BY <2>1
    <3> HIDE DEF c
    <3>2. BuildsBit(val, s.ds, g, c)
      BY <2>6 DEF e
    <3> QED
      BY <2>1, <2>2, <3>1, <3>2, BitAdded
  <2>8. t = step(s, k)
    BY <2>5
  <2> HIDE DEF step, t
  <2> QED
    BY <2>1, <2>7, <2>8
<1> DEFINE Rec(f) == [k \in 0 .. w |-> IF k = 0 THEN base ELSE step(f[k - 1], k)]
       F == [y \in Builds \X (1 .. w) |-> step(y[1], y[2])]
       after == CHOOSE f : f = Rec(f)
<1>a1. \A k \in 1 .. w : \A s \in V[k - 1] : F[<<s, k>>] = step(s, k) /\ F[<<s, k>>] \in V[k]
  <2> SUFFICES ASSUME NEW k \in 1 .. w, NEW s \in V[k - 1] PROVE F[<<s, k>>] = step(s, k)
    <3> HIDE DEF V, step, F
    <3> QED
      BY <1>2
  <2>1. k - 1 \in 0 .. w
    OBVIOUS
  <2>2. s \in Builds
    BY <2>1
  <2> HIDE DEF V, step
  <2> QED
    BY <2>2
<1>a2. PICK run : Runs(w, V, base, F, run)
  <2> HIDE DEF V, step, F, base
  <2> QED
    BY <1>1, <1>a1, LoopRuns
<1>a3. run = Rec(run)
  <2> SUFFICES ASSUME NEW k \in 0 .. w PROVE run[k] = IF k = 0 THEN base ELSE step(run[k - 1], k)
    <3> HIDE DEF V, step, F, base
    <3> QED
      BY <1>a2 DEF Runs
  <2>1. CASE k = 0
    <3> HIDE DEF V, step, F, base
    <3> QED
      BY <2>1, <1>a2 DEF Runs
  <2>2. CASE k # 0
    <3>1. k \in 1 .. w /\ k - 1 \in 0 .. w
      BY <2>2
    <3> HIDE DEF V, step, F, base
    <3> QED
      BY <2>2, <3>1, <1>a1, <1>a2 DEF Runs
  <2> QED
    BY <2>1, <2>2
<1>a4. after = Rec(after)
  <2> HIDE DEF Rec
  <2> QED
    BY <1>a3
<1>a5. after[0] = base /\ \A k \in 1 .. w : after[k] = step(after[k - 1], k)
  <2> HIDE DEF step, base, after, V, F
  <2>1. \A k \in 0 .. w : after[k] = IF k = 0 THEN base ELSE step(after[k - 1], k)
    BY <1>a4
  <2>2. 0 \in 0 .. w /\ \A k \in 1 .. w : k \in 0 .. w /\ k # 0
    OBVIOUS
  <2> HIDE DEF Rec
  <2> QED
    BY <2>1, <2>2
<1>a6. \A k \in 0 .. w : after[k] \in V[k]
  <2> HIDE DEF V, step, F, base, after, Rec
  <2> QED
    BY <1>1, <1>a1, <1>a5, LoopKeeps, ZenonT(60)
<1>3. ChosenWord(drivers, x, index, size, w) = after[w]
  BY DEF ChosenWord, BuildWord, EachBit, Then, Built
<1>4. after[w] \in Builds /\ BuildsBits(val, drivers, after[w], w, says)
  <2> HIDE DEF after, says
  <2> QED
    BY <1>a6
<1> DEFINE t == after[w]
<1> HIDE DEF after, t
<1>5. t \in Builds /\ BuildsBits(val, drivers, t, w, says)
  BY <1>4 DEF t
<1> DEFINE Z == PartOf(Low(val, x, m), I, w)
<1>6. Respects(val, t.ds) => Low(val, t.out, w) = Z
  <2> SUFFICES ASSUME Respects(val, t.ds) PROVE Low(val, t.out, w) = Z
    OBVIOUS
  <2>1. t.ds \in Vectors /\ Len(drivers) \in Nat
    BY <1>5, VectorLength DEF BuildsBits, Follows
  <2>2. Len(t.ds) \in Nat /\ t.out \in Words(w, Len(t.ds))
    BY <1>5, <2>1, VectorLength DEF BuildsBits
  <2>3. \A k \in 1 .. w : Says(val, t.out[k]) <=> SaysAt(val, x, m, I, w)[k]
    <3> HIDE DEF I
    <3> QED
      BY <1>5 DEF BuildsBits, says
  <2>4. I \in Nat
    BY LowType
  <2> HIDE DEF I
  <2> QED
    <3>1. SaysPart(val, t.out, x, m, I, w)
      BY <2>3 DEF SaysPart
    <3> QED
      BY <2>1, <2>2, <2>4, <3>1, PartSays
<1> HIDE DEF Z
<1>7. BuildsNumber(val, drivers, t, w, Z)
  BY <1>5, <1>6 DEF BuildsNumber, BuildsBits
<1> QED
  BY <1>3, <1>7 DEF t, Z

(* Nothing of a number is left from its last bit on.                        *)
LEMMA PartAway ==
  ASSUME NEW m \in Nat, NEW A \in 0 .. Pow2[m] - 1, NEW d \in Nat, m <= d, NEW w \in Nat
  PROVE  PartOf(A, d, w) = 0
<1> DEFINE P == Pow2[d]
           Q == Pow2[m]
<1>1. P \in Nat /\ Q \in Nat /\ Q <= P /\ Pow2[w] \in Nat /\ Pow2[w] >= 1
  BY Powers, PowersGrow
<1>2. A \in Nat /\ A < P
  BY <1>1
<1>3. A \div P = 0
  <2> HIDE DEF P
  <2>1. Divides(A, P, 0, A)
    BY <1>1, <1>2 DEF Divides
  <2> QED
    BY <2>1, DivisionIs DEF Divided
<1> DEFINE W == Pow2[w]
<1>4. 0 % W = 0
  <2>1. W \in Nat /\ W >= 1
    BY <1>1
  <2> HIDE DEF W
  <2> QED
    BY <2>1
<1> QED
  BY <1>3, <1>4 DEF PartOf

(* A part at a computed offset, the bits of the offset above the useful     *)
(* ones included.                                                           *)
LEMMA SelectGatesBuilds ==
  ASSUME NEW val \in [Nat -> BOOLEAN], NEW drivers \in Vectors, NEW m \in Nat, m > 0, NEW x \in Words(m, Len(drivers)),
         NEW q \in Nat, q > 0, NEW b \in Words(q, Len(drivers)), NEW w \in Nat
  PROVE  BuildsNumber(val, drivers, SelectGates(drivers, x, b, w), w, PartOf(Low(val, x, m), Low(val, b, q), w))
<1> DEFINE n == Len(drivers)
           A == Low(val, x, m)
           B == Low(val, b, q)
           u == PowerAtLeast[m]
           P == Pow2[u]
           low == Unsigned(b, u)
           T == Wrap(B, u)
           chosen == ChosenWord(drivers, x, low, P, w)
           e == chosen.ds
           y == chosen.out
           N == PartOf(A, B, w)
           Z == PartOf(A, T, w)
<1>1. n \in Nat /\ Len(x) = m /\ Len(b) = q /\ x \in Words(m, n) /\ b \in Words(q, n)
  BY VectorLength, WordShape
<1>2. u \in Nat /\ m <= P /\ P \in Nat
  BY PowerCovers, Powers
<1> HIDE DEF n
<1>3. A \in 0 .. Pow2[m] - 1 /\ B \in Nat /\ B \in 0 .. Pow2[q] - 1
  BY LowType
<1>4. low \in Words(u, n) /\ Low(val, low, u) = T
  <2> HIDE DEF u
  <2> QED
    BY <1>1, <1>2, UnsignedResize
<1>5. SelectGates(drivers, x, b, w) =
        IF q <= u THEN chosen
        ELSE Mux(TruthyGate(e, SubSeq(b, u + 1, q)).ds, y, Zeros(w), TruthyGate(e, SubSeq(b, u + 1, q)).out)
  BY <1>1 DEF SelectGates, Then, ChosenWord, ChoicesAt, Unsigned
<1> HIDE DEF low, chosen, A, B
<1>6. BuildsNumber(val, drivers, chosen, w, Z)
  <2>1. low \in Words(u, Len(drivers)) /\ P = Pow2[u]
    BY <1>4 DEF n
  <2> HIDE DEF P, u, T
  <2>2. BuildsNumber(val, drivers, ChosenWord(drivers, x, low, P, w), w, PartOf(Low(val, x, m), Low(val, low, u), w))
    BY <1>2, <2>1, ChosenWordBuilds
  <2> QED
    BY <1>4, <2>2 DEF chosen, A
<1>7. CASE q <= u
  <2>1. T = B
    <3> HIDE DEF u
    <3>1. B \in 0 .. Pow2[u] - 1 /\ Wrap(B, u) = B
      BY <1>2, <1>3, <1>7, WrapFits
    <3> QED
      BY <3>1
  <2> HIDE DEF e, y, T
  <2> QED
    BY <1>5, <1>6, <1>7, <2>1 DEF A, B
<1>8. CASE ~(q <= u)
  <2> DEFINE r == q - u
             high == SubSeq(b, u + 1, q)
             H == Low(val, high, r)
             s == TruthyGate(e, high)
             big == H # 0
             zero == Zeros(w)
             none == 0
  <2>1. high \in Words(r, n) /\ r \in Nat /\ r > 0 /\ BeyondIs(B, u, H)
    <3> HIDE DEF u, B
    <3>1. u < q
      BY <1>2, <1>8
    <3>2. high \in Words(r, n) /\ r \in Nat /\ r > 0 /\ BeyondIs(Low(val, b, q), u, H)
      BY <1>1, <1>2, <3>1, HighBits
    <3> QED
      BY <3>2 DEF B
  <2>2. e \in Vectors /\ high \in Words(r, Len(e))
    <3> HIDE DEF r, high, Z
    <3> QED
      BY <1>6, <2>1, NumberBuilt DEF n
  <2>3. BuildsBit(val, chosen.ds, s, big)
    <3> HIDE DEF high, r, y
    <3>1. BuildsBit(val, e, TruthyGate(e, high), Low(val, high, r) # 0)
      BY <2>1, <2>2, TruthyBuilds
    <3> QED
      BY <3>1
  <2>4. zero \in Words(w, Len(drivers)) /\ none = Low(val, zero, w)
    BY <1>1, ZerosLow DEF n
  <2> HIDE DEF s, big, zero, none, Z
  <2>5. BuildsNumber(val, drivers, Mux(s.ds, chosen.out, zero, s.out), w, IF big THEN none ELSE Z)
    BY <1>6, <2>3, <2>4, OverriddenBuilds
  <2>6. (IF big THEN none ELSE Z) = N
    <3>1. CASE big
      <4>1. B >= P
        BY <2>1, <3>1 DEF BeyondIs, big
      <4>2. m <= B
        <5> HIDE DEF P, u
        <5> QED
          BY <1>2, <1>3, <4>1
      <4>3. N = 0
        BY <1>3, <4>2, PartAway
      <4> QED
        BY <3>1, <4>3 DEF none
    <3>2. CASE ~big
      <4>1. T = B
        BY <2>1, <3>2 DEF BeyondIs, big
      <4> HIDE DEF T
      <4>2. Z = N
        BY <4>1 DEF Z
      <4> QED
        BY <3>2, <4>2
    <3> QED
      BY <3>1, <3>2
  <2>7. SelectGates(drivers, x, b, w) = Mux(s.ds, chosen.out, zero, s.out)
    BY <1>5, <1>8 DEF s, zero
  <2> HIDE DEF N
  <2>8. BuildsNumber(val, drivers, Mux(s.ds, chosen.out, zero, s.out), w, N)
    BY <2>5, <2>6
  <2> QED
    BY <2>7, <2>8 DEF N, A, B
<1> QED
  BY <1>7, <1>8

(* A step of a target over gates: what it is, what it may be applied to,    *)
(* where it leads, and what writing there does.                             *)
StepKinds == {"literal", "select", "element"}
AmountIn(val, g) == IF g.kind = "literal" THEN g.offset ELSE Low(val, g.offset, Len(g.offset))
StepAt(val, g) == Position(g, AmountIn(val, g))
OffsetFits(g, n) == \E u \in Nat : u > 0 /\ g.offset \in Words(u, n)
StepFits(g, m, n) ==
  /\ g.kind \in StepKinds /\ g.width \in Nat /\ g.width > 0
  /\ g.kind = "literal" => Within(g.offset, g.width, m)
  /\ g.kind # "literal" => OffsetFits(g, n)
  /\ g.kind = "select" => g.width <= m /\ m - g.width < Pow2[Len(g.offset)]
  /\ g.kind = "element" => LaidOut(g.layout, m) /\ g.width = g.layout.width /\ Highest(g.layout) < Pow2[Len(g.offset)]
InPlace(p, w, m) == p # OutOfRange /\ p + w <= m
PutStep(a, p, w, m, v) == IF InPlace(p, w, m) THEN WithPart(a, p, w, v) ELSE a
TakeStep(a, p, w) == IF p = OutOfRange THEN 0 ELSE PartOf(a, p, w)

(* A step names its place by a word or by a literal.                        *)
LEMMA OffsetIs ==
  ASSUME NEW g, NEW n \in Nat, OffsetFits(g, n), g.kind # "literal", NEW val
  PROVE  /\ Len(g.offset) \in Nat /\ Len(g.offset) > 0 /\ g.offset \in Words(Len(g.offset), n)
         /\ AmountIn(val, g) = Low(val, g.offset, Len(g.offset)) /\ AmountIn(val, g) \in Nat
<1>1. PICK u \in Nat : u > 0 /\ g.offset \in Words(u, n)
  BY DEF OffsetFits
<1>2. Len(g.offset) = u
  BY <1>1, WordShape
<1> DEFINE x == g.offset
<1>3. AmountIn(val, g) = Low(val, x, Len(x))
  BY DEF AmountIn
<1> HIDE DEF x
<1>4. Low(val, x, u) \in Nat
  BY LowType
<1> QED
  BY <1>1, <1>2, <1>3, <1>4 DEF x

(* A step over an array leads to a slot of it or nowhere.                   *)
LEMMA StepPlaced ==
  ASSUME NEW m \in Nat, NEW n \in Nat, NEW g, StepFits(g, m, n), NEW val
  PROVE  /\ StepAt(val, g) # OutOfRange => StepAt(val, g) \in Nat
         /\ StepAt(val, g) \in Int
         /\ g.kind = "literal" => StepAt(val, g) = g.offset
         /\ g.kind = "select" => StepAt(val, g) = AmountIn(val, g)
         /\ g.kind = "element" /\ StepAt(val, g) # OutOfRange => Within(StepAt(val, g), g.width, m)
<1>1. g.kind \in StepKinds /\ OutOfRange = -1
  BY DEF StepFits, OutOfRange
<1>2. CASE g.kind = "literal"
  <2>1. StepAt(val, g) = g.offset
    BY <1>2 DEF StepAt, Position, AmountIn
  <2>2. g.offset \in Nat
    BY <1>2 DEF StepFits, Within
  <2> QED
    BY <1>2, <2>1, <2>2
<1>3. CASE g.kind = "select"
  <2>1. StepAt(val, g) = AmountIn(val, g)
    BY <1>3 DEF StepAt, Position
  <2>2. OffsetFits(g, n)
    BY <1>3 DEF StepFits
  <2>3. AmountIn(val, g) \in Nat
    BY <1>3, <2>2, OffsetIs
  <2> QED
    BY <1>3, <2>1, <2>3
<1>4. CASE g.kind = "element"
  <2> DEFINE l == g.layout
             i == AmountIn(val, g)
             p == Position(g, i)
             size == Elements(l)
  <2>1. LaidOut(l, m) /\ g.width = l.width /\ OffsetFits(g, n)
    BY <1>4 DEF StepFits
  <2>2. i \in Nat
    BY <1>4, <2>1, OffsetIs
  <2>3. l.width \in Nat /\ size \in Nat /\ Slots(m, size, l.width)
    BY <2>1 DEF LaidOut
  <2>4. p # OutOfRange => p \in Nat /\ Within(p, g.width, m)
    <3> SUFFICES ASSUME p # OutOfRange PROVE p \in Nat /\ Within(p, g.width, m)
      OBVIOUS
    <3>1. PICK k \in 1 .. size : Declared(l, k) = i
      BY <1>4, <2>1, <2>2, DeclaredPlaces
    <3>2. Finds(g, i, k)
      BY <1>4, <2>1, <2>2, <3>1, DeclaredPlaces
    <3>3. p = Place(k - 1, l.width)
      BY <3>2 DEF Finds
    <3>4. k - 1 \in 0 .. size - 1
      BY <2>3
    <3> DEFINE j == k - 1
    <3> HIDE DEF j
    <3>5. j * l.width \in Nat /\ Within(j * l.width, l.width, m)
      BY <2>3, <3>4, SlotsWithin DEF j
    <3> QED
      BY <2>1, <3>3, <3>5 DEF Place, j
  <2>5. StepAt(val, g) = p
    BY DEF StepAt
  <2>6. p # OutOfRange \/ p \in Int
    BY <1>1
  <2> HIDE DEF p
  <2> QED
    BY <1>4, <2>4, <2>5, <2>6
<1> QED
  BY <1>1, <1>2, <1>3, <1>4 DEF StepKinds

(* read_target: one step down.                                              *)
LEMMA DescendBuilds ==
  ASSUME NEW val \in [Nat -> BOOLEAN], NEW drivers \in Vectors, NEW m \in Nat, NEW word \in Words(m, Len(drivers)),
         NEW g, StepFits(g, m, Len(drivers)), g.kind = "element"
  PROVE  BuildsNumber(val, drivers, Descend(drivers, word, g), g.width, TakeStep(Low(val, word, m), StepAt(val, g), g.width))
<1> DEFINE u == Len(g.offset)
           A == Low(val, word, m)
<1>0. Len(drivers) \in Nat
  BY VectorLength
<1>1. OffsetFits(g, Len(drivers)) /\ LaidOut(g.layout, m) /\ g.width = g.layout.width /\ Highest(g.layout) < Pow2[u]
  BY DEF StepFits
<1>2. u \in Nat /\ u > 0 /\ g.offset \in Words(u, Len(drivers)) /\ AmountIn(val, g) = Low(val, g.offset, u)
  BY <1>0, <1>1, OffsetIs
<1>3. Descend(drivers, word, g) = ArraySelectGates(drivers, word, g.offset, g.layout)
  BY DEF Descend
<1> HIDE DEF u
<1>4. BuildsNumber(val, drivers, ArraySelectGates(drivers, word, g.offset, g.layout), g.layout.width,
                   ElementIn(A, g, Low(val, g.offset, u)))
  BY <1>1, <1>2, ArraySelectBuilds
<1>5. ElementIn(A, g, Low(val, g.offset, u)) = TakeStep(A, StepAt(val, g), g.width)
  BY <1>1, <1>2 DEF ElementIn, TakeStep, StepAt
<1> QED
  BY <1>1, <1>3, <1>4, <1>5

(* assign: a part put into what surrounds it.                               *)
Overwriting(drivers, word, step, part) ==
  CASE step.kind = "literal" -> Built(drivers, Overwritten(word, step.offset, part))
    [] step.kind = "select" -> SelectWriteGates(drivers, word, step, part)
    [] step.kind = "element" -> ElementWriteGates(drivers, word, step, part)

(* One step of a path written, whatever its kind.                           *)
LEMMA OverwritingBuilds ==
  ASSUME NEW val \in [Nat -> BOOLEAN], NEW drivers \in Vectors, NEW m \in Nat, NEW word \in Words(m, Len(drivers)),
         NEW g, StepFits(g, m, Len(drivers)), NEW w, w = g.width, NEW part \in Words(w, Len(drivers))
  PROVE  BuildsNumber(val, drivers, Overwriting(drivers, word, g, part), m,
                      PutStep(Low(val, word, m), StepAt(val, g), w, m, Low(val, part, w)))
<1> DEFINE u == Len(g.offset)
           n == Len(drivers)
           A == Low(val, word, m)
           V == Low(val, part, w)
           p == StepAt(val, g)
           N == PutStep(A, p, w, m, V)
<1>0. n \in Nat /\ w \in Nat /\ g.kind \in StepKinds
  BY VectorLength DEF StepFits
<1>1. CASE g.kind = "literal"
  <2> DEFINE d == g.offset
             y == Overwritten(word, d, part)
  <2>1. Within(d, w, m)
    BY <1>1 DEF StepFits
  <2>2. y \in Words(m, n) /\ Replaced(val, word, d, part, w, y, m)
    <3> HIDE DEF d
    <3> QED
      BY <1>0, <2>1, OverwrittenMeans
  <2>3. p = d
    BY <1>0, <1>1, StepPlaced
  <2>4. InPlace(p, w, m)
    BY <2>1, <2>3 DEF InPlace, Within, OutOfRange
  <2>5. Low(val, y, m) = N
    BY <2>2, <2>3, <2>4 DEF Replaced, PutStep
  <2>6. Overwriting(drivers, word, g, part) = Built(drivers, y)
    BY <1>1 DEF Overwriting
  <2> HIDE DEF y, N
  <2>7. BuildsNumber(val, drivers, Built(drivers, y), m, N)
    BY <2>2, <2>5, WordBuilt DEF n
  <2> QED
    BY <2>6, <2>7 DEF N
<1>2. CASE g.kind = "select"
  <2>1. OffsetFits(g, n) /\ w <= m /\ m - w < Pow2[u]
    BY <1>2 DEF StepFits
  <2>2. u \in Nat /\ u > 0 /\ g.offset \in Words(u, n) /\ AmountIn(val, g) = Low(val, g.offset, u) /\ AmountIn(val, g) \in Nat
    BY <1>0, <1>2, <2>1, OffsetIs
  <2>3. p = AmountIn(val, g)
    BY <1>0, <1>2, StepPlaced
  <2>4. Overwriting(drivers, word, g, part) = SelectWriteGates(drivers, word, g, part)
    BY <1>2 DEF Overwriting
  <2> HIDE DEF u, p
  <2>5. BuildsNumber(val, drivers, SelectWriteGates(drivers, word, g, part), m, PutAt(A, Low(val, g.offset, u), w, m, V))
    BY <1>0, <2>1, <2>2, SelectWriteBuilds DEF n
  <2>6. PutAt(A, Low(val, g.offset, u), w, m, V) = N
    BY <2>2, <2>3 DEF PutAt, PutStep, InPlace, OutOfRange
  <2> QED
    BY <2>4, <2>5, <2>6 DEF p
<1>3. CASE g.kind = "element"
  <2>1. OffsetFits(g, n) /\ LaidOut(g.layout, m) /\ w = g.layout.width /\ Highest(g.layout) < Pow2[u]
    BY <1>3 DEF StepFits
  <2>2. u \in Nat /\ u > 0 /\ g.offset \in Words(u, n) /\ AmountIn(val, g) = Low(val, g.offset, u)
    BY <1>0, <1>3, <2>1, OffsetIs
  <2>3. p # OutOfRange => Within(p, w, m)
    BY <1>0, <1>3, StepPlaced
  <2>4. Overwriting(drivers, word, g, part) = ElementWriteGates(drivers, word, g, part)
    BY <1>3 DEF Overwriting
  <2> HIDE DEF u
  <2>5. BuildsNumber(val, drivers, ElementWriteGates(drivers, word, g, part), m, PutIn(A, g, Low(val, g.offset, u), w, V))
    BY <1>3, <2>1, <2>2, ElementWriteBuilds DEF n
  <2>6. p = Position(g, Low(val, g.offset, u))
    BY <2>2 DEF StepAt
  <2> HIDE DEF p
  <2>7. PutIn(A, g, Low(val, g.offset, u), w, V) = N
    BY <2>3, <2>6 DEF PutIn, PutStep, InPlace, Within
  <2> QED
    BY <2>4, <2>5, <2>7 DEF p
<1> QED
  BY <1>0, <1>1, <1>2, <1>3 DEF StepKinds

(* A part of a part is a part.                                              *)
LEMMA PartNested ==
  ASSUME NEW val, NEW m \in Nat, NEW n \in Nat, NEW x \in Words(m, n), NEW w \in Nat, NEW d, Within(d, w, m),
         NEW t \in Nat, NEW c, Within(c, t, w), NEW e, e = d + c, NEW A, A = Low(val, x, m)
  PROVE  PartOf(PartOf(A, d, w), c, t) = PartOf(A, e, t)
<1> DEFINE y == [k \in 1 .. w |-> x[d + k]]
           z == [k \in 1 .. t |-> y[c + k]]
<1>1. d \in Nat /\ c \in Nat /\ d + w <= m /\ c + t <= w /\ Within(e, t, m)
  BY DEF Within
<1>2. \A k \in 1 .. w : d + k \in 1 .. m /\ x[d + k] \in Values(n)
  BY <1>1 DEF Words
<1>3. y \in Words(w, n) /\ Cuts(x, d, y, w)
  BY <1>2 DEF Words, Cuts
<1>4. \A k \in 1 .. t : c + k \in 1 .. w /\ d + (c + k) = e + k
  BY <1>1
<1>5. z \in Words(t, n) /\ Cuts(y, c, z, t) /\ Cuts(x, e, z, t)
  <2>1. \A k \in 1 .. t : y[c + k] \in Values(n) /\ y[c + k] = x[e + k]
    BY <1>2, <1>4
  <2> HIDE DEF y
  <2> QED
    BY <2>1 DEF Words, Cuts
<1> HIDE DEF y, z
<1>6. Low(val, y, w) = PartOf(A, d, w)
  BY <1>1, <1>3, PartMeans
<1>7. Low(val, z, t) = PartOf(Low(val, y, w), c, t)
  BY <1>3, <1>5, PartMeans
<1>8. Low(val, z, t) = PartOf(A, e, t)
  BY <1>1, <1>5, PartMeans
<1> QED
  BY <1>6, <1>7, <1>8

(* A part of a part written is that part written.                           *)
PutInside(A, d, w, c, t, v) == WithPart(A, d, w, WithPart(PartOf(A, d, w), c, t, v))

(* A write inside an element is a write at the sum of the places.           *)
LEMMA PutNested ==
  ASSUME NEW val, NEW m \in Nat, NEW n \in Nat, NEW x \in Words(m, n), NEW w \in Nat, NEW d, Within(d, w, m),
         NEW t \in Nat, NEW c, Within(c, t, w), NEW e, e = d + c, NEW A, A = Low(val, x, m), NEW v \in Int
  PROVE  PutInside(A, d, w, c, t, v) = WithPart(A, e, t, v)
<1> DEFINE B == PartOf(A, d, w)
           C == PartOf(A, e, t)
           P == Pow2[d]
           Q == Pow2[c]
<1>1. PartOf(B, c, t) = C
  BY PartNested
<1>2. d \in Nat /\ c \in Nat /\ A \in Nat /\ Within(e, t, m)
  BY LowType DEF Within
<1>3. Pow2[e] = P * Q /\ P \in Int /\ Q \in Int
  BY <1>2, PowersAdd, Powers
<1>4. B \in Int /\ C \in Int
  <2>1. \A i \in Nat : \A j \in Nat : PartOf(A, i, j) \in Int
    <3> SUFFICES ASSUME NEW i \in Nat, NEW j \in Nat PROVE PartOf(A, i, j) \in Int
      OBVIOUS
    <3>1. Wrap(Halves(A, i), j) \in Int
      BY <1>2, HalvesIs, WrapType
    <3> QED
      BY <3>1 DEF PartOf, Wrap, Halves
  <2>2. e \in Nat
    BY <1>2 DEF Within
  <2> QED
    BY <1>2, <2>1, <2>2
<1>5. PutInside(A, d, w, c, t, v) = A + (((B + ((v - C) * Q)) - B) * P)
  BY <1>1 DEF PutInside, WithPart
<1>6. WithPart(A, e, t, v) = A + ((v - C) * (P * Q))
  BY <1>3 DEF WithPart
<1> DEFINE D == v - C
<1>7. D \in Int /\ A \in Int
  BY <1>2, <1>4
<1> HIDE DEF B, C, P, Q, D
<1>8. (B + (D * Q)) - B = D * Q
  BY <1>3, <1>4, <1>7
<1>9. (D * Q) * P = D * (P * Q)
  BY <1>3, <1>7
<1> QED
  BY <1>5, <1>6, <1>8, <1>9 DEF D

(* Loops of at most two steps.                                              *)
LEMMA ReadTargetIs ==
  ASSUME NEW drivers, NEW word, NEW S, NEW p \in Seq(S)
  PROVE  /\ ReadTarget(drivers, word, SubSeq(p, 1, 0)) = Built(drivers, word)
         /\ Len(p) >= 1 => ReadTarget(drivers, word, SubSeq(p, 1, 1)) = Descend(drivers, word, p[1])
<1>1. ReadTarget(drivers, word, SubSeq(p, 1, 0)) = Built(drivers, word)
  <2> DEFINE q == SubSeq(p, 1, 0)
             step(s, k) == Descend(s.ds, s.out, q[k])
             base == Built(drivers, word)
             Rec(f) == [k \in 0 .. 0 |-> IF k = 0 THEN base ELSE step(f[k - 1], k)]
             f0 == [k \in 0 .. 0 |-> base]
             after == CHOOSE f : f = Rec(f)
  <2>1. Len(q) = 0
    OBVIOUS
  <2> HIDE DEF q, base
  <2>2. f0 = Rec(f0)
    <3> HIDE DEF step
    <3> QED
      OBVIOUS
  <2>3. after = Rec(after)
    <3> HIDE DEF Rec, f0
    <3> QED
      BY <2>2
  <2>4. after[0] = base
    <3> HIDE DEF step, after
    <3> QED
      BY <2>3
  <2>5. ReadTarget(drivers, word, q) = after[0]
    BY <2>1 DEF ReadTarget, EachBit, base
  <2> QED
    BY <2>4, <2>5 DEF q, base
<1>2. ASSUME Len(p) >= 1 PROVE ReadTarget(drivers, word, SubSeq(p, 1, 1)) = Descend(drivers, word, p[1])
  <2> DEFINE q == SubSeq(p, 1, 1)
             step(s, k) == Descend(s.ds, s.out, q[k])
             base == Built(drivers, word)
             Rec(f) == [k \in 0 .. 1 |-> IF k = 0 THEN base ELSE step(f[k - 1], k)]
             f0 == [k \in 0 .. 1 |-> IF k = 0 THEN base ELSE step(base, 1)]
             after == CHOOSE f : f = Rec(f)
  <2>1. Len(q) = 1 /\ q[1] = p[1]
    BY <1>2
  <2>0. base.ds = drivers /\ base.out = word
    BY DEF Built
  <2> HIDE DEF q, base
  <2>2. f0 = Rec(f0)
    <3> HIDE DEF step
    <3> QED
      OBVIOUS
  <2>3. after = Rec(after)
    <3> HIDE DEF Rec, f0
    <3> QED
      BY <2>2
  <2>4. after[0] = base /\ after[1] = step(after[0], 1)
    <3> HIDE DEF step, after
    <3> QED
      BY <2>3
  <2>5. ReadTarget(drivers, word, q) = after[1]
    BY <2>1 DEF ReadTarget, EachBit, base
  <2> HIDE DEF after
  <2>6. after[1] = Descend(drivers, word, p[1])
    BY <2>0, <2>1, <2>4
  <2> QED
    BY <2>5, <2>6 DEF q
<1> QED
  BY <1>1, <1>2

PutBack(g, m) == Built(g.ds, Unsigned(g.out, m))
PutDeep(drivers, variable, f, s, value) ==
  LET a == Descend(drivers, variable, f)
      t == Overwriting(a.ds, a.out, s, value)
  IN Overwriting(t.ds, variable, f, t.out)

(* assign, for paths of no, one and two steps.                              *)
LEMMA AssignIs ==
  ASSUME NEW drivers, NEW variable, NEW value, NEW S, NEW p \in Seq(S)
  PROVE  /\ Len(p) = 0 => AssignGates(drivers, variable, p, value) = PutBack(Built(drivers, value), Len(variable))
         /\ Len(p) = 1 => AssignGates(drivers, variable, p, value) =
                            PutBack(Overwriting(drivers, variable, p[1], value), Len(variable))
         /\ Len(p) = 2 => AssignGates(drivers, variable, p, value) =
                            PutBack(PutDeep(drivers, variable, p[1], p[2], value), Len(variable))
<1> DEFINE n == Len(p)
           write(around, step, part) == Overwriting(around.ds, around.out, step, part)
           step(s, k) == write(ReadTarget(s.ds, variable, SubSeq(p, 1, (n - k + 1) - 1)), p[n - k + 1], s.out)
           base == Built(drivers, value)
           Rec(f) == [k \in 0 .. n |-> IF k = 0 THEN base ELSE step(f[k - 1], k)]
           after == CHOOSE f : f = Rec(f)
<1>0. base.ds = drivers /\ base.out = value
  BY DEF Built
<1> DEFINE over(around, g, part) ==
             CASE g.kind = "literal" -> Built(around.ds, Overwritten(around.out, g.offset, part))
               [] g.kind = "select" -> SelectWriteGates(around.ds, around.out, g, part)
               [] g.kind = "element" -> ElementWriteGates(around.ds, around.out, g, part)
           at(s, k) == over(ReadTarget(s.ds, variable, SubSeq(p, 1, (n - k + 1) - 1)), p[n - k + 1], s.out)
           Alike0(f) == [k \in 0 .. n |-> IF k = 0 THEN base ELSE at(f[k - 1], k)]
           other == CHOOSE f : f = Alike0(f)
<1>1. AssignGates(drivers, variable, p, value) = PutBack(after[n], Len(variable))
  <2>1. AssignGates(drivers, variable, p, value) = PutBack(other[n], Len(variable))
    BY Zenon DEF AssignGates, EachBit, Then, PutBack, Unsigned
  <2>2. \A s, k : at(s, k) = step(s, k)
    <3>1. \A around, g, part : over(around, g, part) = write(around, g, part)
      BY Zenon DEF Overwriting
    <3> HIDE DEF over, write
    <3> QED
      BY <3>1
  <2> HIDE DEF at, step
  <2>3. \A f : Alike0(f) = Rec(f)
    BY <2>2
  <2> HIDE DEF Alike0, Rec
  <2>4. other = after
    BY <2>3
  <2> QED
    BY <2>1, <2>4
<1> HIDE DEF base
<1>2. ASSUME n = 0 PROVE after[0] = base
  <2> DEFINE f0 == [k \in 0 .. 0 |-> base]
  <2>1. f0 = Rec(f0)
    <3> HIDE DEF step
    <3> QED
      BY <1>2
  <2>2. after = Rec(after)
    <3> HIDE DEF Rec, f0
    <3> QED
      BY <2>1
  <2> HIDE DEF step, after
  <2> QED
    BY <1>2, <2>2
<1>3. ASSUME n = 1 PROVE after[1] = step(base, 1)
  <2> DEFINE f0 == [k \in 0 .. 1 |-> IF k = 0 THEN base ELSE step(base, 1)]
  <2>1. f0 = Rec(f0)
    <3> HIDE DEF step
    <3> QED
      BY <1>3
  <2>2. after = Rec(after)
    <3> HIDE DEF Rec, f0
    <3> QED
      BY <2>1
  <2>3. after[0] = base /\ after[1] = step(after[0], 1)
    <3> HIDE DEF step, after
    <3> QED
      BY <1>3, <2>2
  <2> HIDE DEF step, after
  <2> QED
    BY <2>3
<1>4. ASSUME n = 2 PROVE after[2] = step(step(base, 1), 2)
  <2> DEFINE f0 == [k \in 0 .. 2 |-> IF k = 0 THEN base ELSE IF k = 1 THEN step(base, 1) ELSE step(step(base, 1), 2)]
  <2>1. f0 = Rec(f0)
    <3> HIDE DEF step
    <3>1. f0[0] = base /\ f0[1] = step(base, 1)
      OBVIOUS
    <3>2. ASSUME NEW k \in 0 .. 2 PROVE f0[k] = IF k = 0 THEN base ELSE step(f0[k - 1], k)
      <4>1. CASE k = 0
        BY <4>1
      <4>2. CASE k = 1
        BY <3>1, <4>2
      <4>3. CASE k = 2
        BY <3>1, <4>3
      <4> QED
        BY <4>1, <4>2, <4>3
    <3>3. f0 = [k \in 0 .. 2 |-> f0[k]]
      OBVIOUS
    <3> HIDE DEF f0
    <3> QED
      BY <1>4, <3>2, <3>3
  <2>2. after = Rec(after)
    <3> HIDE DEF Rec, f0
    <3> QED
      BY <2>1
  <2>3. after[0] = base /\ after[1] = step(after[0], 1) /\ after[2] = step(after[1], 2)
    <3> HIDE DEF step, after
    <3> QED
      BY <1>4, <2>2
  <2> HIDE DEF step, after
  <2> QED
    BY <2>3
<1> HIDE DEF after
<1>5. \A d : ReadTarget(d, variable, SubSeq(p, 1, 0)) = Built(d, variable)
  BY ReadTargetIs
<1>6. n >= 1 => \A d : ReadTarget(d, variable, SubSeq(p, 1, 1)) = Descend(d, variable, p[1])
  BY ReadTargetIs
<1>7. \A d : Built(d, variable).ds = d /\ Built(d, variable).out = variable
  BY DEF Built
<1>8. CASE n = 0
  BY <1>1, <1>2, <1>8 DEF base
<1>9. CASE n = 1
  <2>1. (n - 1 + 1) - 1 = 0 /\ n - 1 + 1 = 1
    BY <1>9
  <2> DEFINE q == SubSeq(p, 1, (n - 1 + 1) - 1)
             i == n - 1 + 1
  <2>2. step(base, 1) = Overwriting(drivers, variable, p[1], value)
    <3>1. q = SubSeq(p, 1, 0) /\ i = 1
      BY <2>1
    <3>2. step(base, 1) = write(ReadTarget(base.ds, variable, q), p[i], base.out)
      OBVIOUS
    <3> HIDE DEF step, q, i
    <3> QED
      BY <1>0, <1>5, <1>7, <3>1, <3>2
  <2> HIDE DEF step
  <2> QED
    BY <1>1, <1>3, <1>9, <2>2
<1>10. CASE n = 2
  <2>1. (n - 1 + 1) - 1 = 1 /\ n - 1 + 1 = 2 /\ (n - 2 + 1) - 1 = 0 /\ n - 2 + 1 = 1 /\ n >= 1
    BY <1>10
  <2> DEFINE a == Descend(drivers, variable, p[1])
             t == Overwriting(a.ds, a.out, p[2], value)
  <2>2. step(base, 1) = t
    BY <1>0, <1>6, <2>1
  <2>3. step(t, 2) = Overwriting(t.ds, variable, p[1], t.out)
    <3> HIDE DEF t
    <3> QED
      BY <1>5, <1>7, <2>1
  <2> HIDE DEF step, t
  <2>4. after[2] = Overwriting(t.ds, variable, p[1], t.out)
    BY <1>4, <1>10, <2>2, <2>3
  <2> QED
    BY <1>1, <1>10, <2>4 DEF PutDeep, t
<1> QED
  BY <1>8, <1>9, <1>10

(* The result keeps the width of the variable.                              *)
LEMMA PutBackBuilds ==
  ASSUME NEW val \in [Nat -> BOOLEAN], NEW drivers, NEW g, NEW m \in Nat, m > 0, NEW n, BuildsNumber(val, drivers, g, m, n)
  PROVE  BuildsNumber(val, drivers, PutBack(g, m), m, n)
<1> DEFINE e == g.ds
           x == g.out
           y == Unsigned(x, m)
<1>1. e \in Vectors /\ Len(e) \in Nat /\ x \in Words(m, Len(e)) /\ Follows(val, drivers, e)
  BY NumberBuilt
<1>2. Respects(val, e) => Low(val, x, m) = n
  BY DEF BuildsNumber
<1>3. PutBack(g, m) = Built(e, y)
  BY DEF PutBack
<1> HIDE DEF e, x
<1>4. y \in Words(m, Len(e)) /\ Low(val, y, m) = Low(val, x, m)
  <2> DEFINE c == Low(val, x, m)
  <2>1. y \in Words(m, Len(e)) /\ Low(val, y, m) = Wrap(c, m)
    BY <1>1, UnsignedResize
  <2>2. c \in 0 .. Pow2[m] - 1
    BY LowType
  <2> HIDE DEF c
  <2>3. Wrap(c, m) = c
    BY <2>2, WrapFits
  <2> QED
    BY <2>1, <2>3 DEF c
<1> HIDE DEF y
<1>5. BuildsNumber(val, e, Built(e, y), m, Low(val, x, m))
  BY <1>1, <1>4, WordBuilt
<1> DEFINE c == Low(val, x, m)
           h == Built(e, y)
<1> HIDE DEF c, h
<1>6. BuildsNumber(val, e, h, m, c) /\ (Respects(val, e) => c = n)
  BY <1>2, <1>5 DEF c, h
<1>7. BuildsNumber(val, drivers, h, m, n)
  BY <1>1, <1>6, NumberAfter
<1> QED
  BY <1>3, <1>7 DEF h

(* assign to the whole variable, to a part of it, and to a part of an       *)
(* element.                                                                 *)
LEMMA AssignWhole ==
  ASSUME NEW val \in [Nat -> BOOLEAN], NEW drivers \in Vectors, NEW m \in Nat, m > 0, NEW variable \in Words(m, Len(drivers)),
         NEW t \in Nat, t > 0, NEW value \in Words(t, Len(drivers)), NEW S, NEW p \in Seq(S), Len(p) = 0
  PROVE  BuildsNumber(val, drivers, AssignGates(drivers, variable, p, value), m, Wrap(Low(val, value, t), m))
<1> DEFINE n == Len(drivers)
           y == Unsigned(value, m)
           N == Wrap(Low(val, value, t), m)
<1>1. n \in Nat /\ Len(variable) = m
  BY VectorLength, WordShape
<1>2. AssignGates(drivers, variable, p, value) = Built(drivers, y)
  <2>1. AssignGates(drivers, variable, p, value) = PutBack(Built(drivers, value), m)
    BY <1>1, AssignIs
  <2> QED
    BY <2>1 DEF PutBack, Built
<1>3. y \in Words(m, n) /\ Low(val, y, m) = N
  BY <1>1, UnsignedResize
<1> HIDE DEF y, N
<1>4. BuildsNumber(val, drivers, Built(drivers, y), m, N)
  BY <1>3, WordBuilt DEF n
<1> QED
  BY <1>2, <1>4 DEF N

(* One step: the part is replaced.                                          *)
LEMMA AssignOnce ==
  ASSUME NEW val \in [Nat -> BOOLEAN], NEW drivers \in Vectors, NEW m \in Nat, m > 0, NEW variable \in Words(m, Len(drivers)),
         NEW S, NEW p \in Seq(S), Len(p) = 1, NEW g, g = p[1], StepFits(g, m, Len(drivers)),
         NEW w, w = g.width, NEW value \in Words(w, Len(drivers))
  PROVE  BuildsNumber(val, drivers, AssignGates(drivers, variable, p, value), m,
                      PutStep(Low(val, variable, m), StepAt(val, g), w, m, Low(val, value, w)))
<1> DEFINE N == PutStep(Low(val, variable, m), StepAt(val, g), w, m, Low(val, value, w))
           s == Overwriting(drivers, variable, g, value)
<1>1. Len(variable) = m
  BY VectorLength, WordShape
<1>2. AssignGates(drivers, variable, p, value) = PutBack(s, m)
  BY <1>1, AssignIs
<1>3. BuildsNumber(val, drivers, s, m, N)
  BY OverwritingBuilds
<1> HIDE DEF N, s
<1>4. BuildsNumber(val, drivers, PutBack(s, m), m, N)
  BY <1>3, PutBackBuilds
<1> QED
  BY <1>2, <1>4 DEF N

(* What is written through an element: the part of it, if both steps stay   *)
(* inside.                                                                  *)
PutBoth(a, p, w, m, q, t, v) == IF InPlace(p, w, m) /\ InPlace(q, t, w) THEN WithPart(a, p + q, t, v) ELSE a

(* Two steps: the element read, written and put back.                       *)
LEMMA PutBothIs ==
  ASSUME NEW val, NEW m \in Nat, NEW n \in Nat, NEW x \in Words(m, n), NEW A, A = Low(val, x, m),
         NEW w \in Nat, NEW t \in Nat, NEW p, p # OutOfRange => Within(p, w, m), NEW q, q # OutOfRange => q \in Nat, NEW v \in Int
  PROVE  PutStep(A, p, w, m, PutStep(TakeStep(A, p, w), q, t, w, v)) = PutBoth(A, p, w, m, q, t, v)
<1>0. A \in Int
  BY LowType
<1>1. CASE p = OutOfRange
  BY <1>1 DEF PutStep, PutBoth, InPlace
<1>2. CASE p # OutOfRange
  <2> DEFINE B == PartOf(A, p, w)
  <2>1. p \in Nat /\ Within(p, w, m) /\ InPlace(p, w, m)
    BY <1>2 DEF Within, InPlace
  <2>2. TakeStep(A, p, w) = B
    BY <1>2 DEF TakeStep
  <2>3. CASE InPlace(q, t, w)
    <3>1. q \in Nat /\ Within(q, t, w)
      BY <2>3 DEF InPlace, Within
    <3>2. PutInside(A, p, w, q, t, v) = WithPart(A, p + q, t, v)
      <4> DEFINE e == p + q
      <4>1. e = p + q
        OBVIOUS
      <4> HIDE DEF e
      <4>2. PutInside(A, p, w, q, t, v) = WithPart(A, e, t, v)
        BY <2>1, <3>1, <4>1, PutNested
      <4> QED
        BY <4>1, <4>2
    <3>3. PutStep(A, p, w, m, PutStep(B, q, t, w, v)) = PutInside(A, p, w, q, t, v)
      BY <2>1, <2>3 DEF PutStep, PutInside
    <3>4. PutBoth(A, p, w, m, q, t, v) = WithPart(A, p + q, t, v)
      BY <2>1, <2>3 DEF PutBoth
    <3> QED
      BY <2>2, <3>2, <3>3, <3>4
  <2>4. CASE ~InPlace(q, t, w)
    <3>1. PutStep(A, p, w, m, PutStep(B, q, t, w, v)) = WithPart(A, p, w, B)
      BY <2>1, <2>4 DEF PutStep
    <3>2. WithPart(A, p, w, B) = A
      BY <1>0, <2>1, SamePart
    <3>3. PutBoth(A, p, w, m, q, t, v) = A
      BY <2>4 DEF PutBoth
    <3> QED
      BY <2>2, <3>1, <3>2, <3>3
  <2> QED
    BY <2>3, <2>4
<1> QED
  BY <1>1, <1>2

(* Two steps: the part of the element is replaced.                          *)
LEMMA AssignTwice ==
  ASSUME NEW val \in [Nat -> BOOLEAN], NEW drivers \in Vectors, NEW m \in Nat, m > 0, NEW variable \in Words(m, Len(drivers)),
         NEW S, NEW p \in Seq(S), Len(p) = 2, NEW f, f = p[1], StepFits(f, m, Len(drivers)), f.kind = "element",
         NEW w, w = f.width, NEW g, g = p[2], StepFits(g, w, Len(drivers)), NEW t, t = g.width, NEW value \in Words(t, Len(drivers))
  PROVE  BuildsNumber(val, drivers, AssignGates(drivers, variable, p, value), m,
                      PutBoth(Low(val, variable, m), StepAt(val, f), w, m, StepAt(val, g), t, Low(val, value, t)))
<1> DEFINE n == Len(drivers)
           A == Low(val, variable, m)
           V == Low(val, value, t)
           c == StepAt(val, f)
           q == StepAt(val, g)
           N == PutBoth(A, c, w, m, q, t, V)
           a == Descend(drivers, variable, f)
           e == a.ds
           x == a.out
           r == Overwriting(e, x, g, value)
           s == Overwriting(r.ds, variable, f, r.out)
           B == TakeStep(A, c, w)
           C == PutStep(B, q, t, w, V)
           D == PutStep(A, c, w, m, C)
<1>1. n \in Nat /\ Len(variable) = m /\ w \in Nat /\ w > 0 /\ t \in Nat /\ t > 0
  BY VectorLength, WordShape DEF StepFits
<1>2. AssignGates(drivers, variable, p, value) = PutBack(s, m)
  BY <1>1, AssignIs DEF PutDeep
<1> HIDE DEF n
<1>3. /\ c # OutOfRange => Within(c, w, m)
      /\ q # OutOfRange => q \in Nat
  BY <1>1, StepPlaced DEF n
<1>4. A \in Nat /\ V \in Nat
  BY <1>1, LowType
<1>5. D = N
  <2> HIDE DEF A, c, q, V
  <2>1. A = Low(val, variable, m) /\ variable \in Words(m, n) /\ V \in Int
    BY <1>4 DEF A, n
  <2> QED
    BY <1>1, <1>3, <2>1, PutBothIs
<1> HIDE DEF c, q
<1>6. BuildsNumber(val, drivers, a, w, B)
  BY DescendBuilds DEF c
<1> HIDE DEF a, B
<1>7. /\ e \in Vectors /\ Len(e) \in Nat /\ x \in Words(w, Len(e)) /\ Follows(val, drivers, e)
      /\ n <= Len(e) /\ value \in Words(t, Len(e)) /\ variable \in Words(m, Len(e))
      /\ Respects(val, e) => Low(val, x, w) = B
  <2>1. e \in Vectors /\ Len(e) \in Nat /\ x \in Words(w, Len(e)) /\ Follows(val, drivers, e)
        /\ (Respects(val, e) => Low(val, x, w) = B)
    BY <1>6, NumberBuilt
  <2>2. value \in Words(t, Len(e)) /\ variable \in Words(m, Len(e))
    BY <2>1, WordsGrow DEF n
  <2>3. n <= Len(e)
    BY <2>1 DEF Follows, Grows, n
  <2> QED
    BY <2>1, <2>2, <2>3
<1> HIDE DEF e, x
<1>8. \A d \in Vectors : \A k, l : Follows(val, drivers, d) /\ StepFits(k, l, n) => StepFits(k, l, Len(d))
  <2> SUFFICES ASSUME NEW d \in Vectors, NEW k, NEW l, Follows(val, drivers, d), StepFits(k, l, n)
               PROVE  StepFits(k, l, Len(d))
    OBVIOUS
  <2>1. OffsetFits(k, n) => OffsetFits(k, Len(d))
    BY WordsGrow DEF OffsetFits, n
  <2> QED
    BY <2>1 DEF StepFits
<1>9. StepFits(g, w, Len(e))
  BY <1>7, <1>8 DEF n
<1>10. BuildsNumber(val, e, r, w, C)
  <2> DEFINE E == PutStep(Low(val, x, w), q, t, w, V)
  <2>1. BuildsNumber(val, e, r, w, E)
    BY <1>1, <1>7, <1>9, OverwritingBuilds DEF q
  <2>2. Respects(val, e) => E = C
    BY <1>7
  <2>3. Follows(val, e, e)
    BY <1>7, FollowsItself
  <2> HIDE DEF E, C, r
  <2> QED
    BY <2>1, <2>2, <2>3, NumberAfter
<1> HIDE DEF r, C
<1> DEFINE k == r.ds
           y == r.out
<1>11. /\ k \in Vectors /\ Len(k) \in Nat /\ y \in Words(w, Len(k)) /\ Follows(val, e, k)
       /\ Respects(val, k) => Low(val, y, w) = C
  BY <1>10, NumberBuilt
<1> HIDE DEF k, y
<1>12. Follows(val, drivers, k)
  BY <1>7, <1>11, FollowsOn
<1>13. variable \in Words(m, Len(k)) /\ StepFits(f, m, Len(k))
  BY <1>8, <1>11, <1>12, WordsGrow DEF n
<1>14. BuildsNumber(val, k, s, m, PutStep(A, c, w, m, Low(val, y, w)))
  <2>1. BuildsNumber(val, k, Overwriting(k, variable, f, y), m,
                     PutStep(Low(val, variable, m), StepAt(val, f), w, m, Low(val, y, w)))
    BY <1>1, <1>11, <1>13, OverwritingBuilds
  <2> QED
    BY <2>1 DEF k, y, c
<1> HIDE DEF s, A
<1>15. BuildsNumber(val, drivers, s, m, N)
  <2> DEFINE E == PutStep(A, c, w, m, Low(val, y, w))
  <2>1. BuildsNumber(val, k, s, m, E)
    BY <1>14
  <2>2. Respects(val, k) => E = N
    BY <1>5, <1>11
  <2> HIDE DEF E, N
  <2> QED
    BY <1>12, <2>1, <2>2, NumberAfter
<1> HIDE DEF N
<1>16. BuildsNumber(val, drivers, PutBack(s, m), m, N)
  BY <1>15, PutBackBuilds
<1> QED
  BY <1>2, <1>16 DEF N, A, c, q

--------------------------------------------------------------------------------
(****************************************************************************)
(* The meaning of a whole FSM under construction: the values that Settled   *)
(* finds, the words that mean something, and the operations over them.      *)
(****************************************************************************)

(* The variables that hold under an assignment.                             *)
Under(holds, e) == [n \in Nat |-> n < Len(holds) /\ e \in holds[n + 1]]
Drives(holds, e, d, k) == IF d.kind = "input" THEN BitOf(e, k - 1) ELSE Computes(Under(holds, e), d)
SettledPart(holds, drivers) ==
  /\ holds \in Seq(SUBSET Assignments) /\ Len(holds) <= Len(drivers)
  /\ \A k \in 1 .. Len(holds) : \A e \in Assignments : e \in holds[k] <=> Drives(holds, e, drivers[k], k)
OverInputs(drivers) == \A k \in DOMAIN drivers : drivers[k].kind \in {"input", "gate"}

(* Where and DrivenBy collect the assignments under which a literal and a driver*)
(* hold.                                                                    *)
LEMMA WhereSays ==
  ASSUME NEW holds \in Seq(SUBSET Assignments), NEW n \in Nat, n <= Len(holds), NEW v \in Values(n)
  PROVE  /\ Where(holds, v) \subseteq Assignments
         /\ \A e \in Assignments : e \in Where(holds, v) <=> Says(Under(holds, e), v)
<1>1. v.sign \in BOOLEAN /\ (v.index = NoVar \/ v.index \in 0 .. n - 1)
  BY DEF Values
<1>2. CASE v.index = NoVar
  BY <1>1, <1>2 DEF Where, Says
<1>3. CASE v.index # NoVar
  <2> DEFINE i == v.index
             k == i + 1
  <2>1. i \in Nat /\ k \in 1 .. Len(holds) /\ i < Len(holds)
    BY <1>1, <1>3
  <2>2. holds[k] \subseteq Assignments
    BY <2>1
  <2>3. \A e : Under(holds, e)[i] = (e \in holds[k])
    BY <2>1 DEF Under
  <2>4. Where(holds, v) = IF v.sign THEN holds[k] ELSE Assignments \ holds[k]
    BY <1>3 DEF Where
  <2>5. \A e : Says(Under(holds, e), v) = (Under(holds, e)[i] = v.sign)
    BY <1>3 DEF Says
  <2>6. \A e : Says(Under(holds, e), v) <=> (v.sign <=> e \in holds[k])
    <3> SUFFICES ASSUME NEW e PROVE Says(Under(holds, e), v) <=> (v.sign <=> e \in holds[k])
      OBVIOUS
    <3> DEFINE H == e \in holds[k]
               U == Under(holds, e)[i]
               q == v.sign
    <3>1. H \in BOOLEAN /\ U = H /\ q \in BOOLEAN
      BY <1>1, <2>3
    <3>2. Says(Under(holds, e), v) <=> U = q
      BY <2>5
    <3> HIDE DEF H, U, q
    <3>3. Says(Under(holds, e), v) <=> (q <=> H)
      BY <3>1, <3>2
    <3> QED
      BY <3>3 DEF q, H
  <2> HIDE DEF i, k
  <2>7. CASE v.sign
    BY <2>2, <2>4, <2>6, <2>7
  <2>8. CASE ~v.sign
    BY <2>2, <2>4, <2>6, <2>8
  <2> QED
    BY <2>7, <2>8
<1> QED
  BY <1>2, <1>3

(* The assignments under which a variable holds are those its gate says.    *)
LEMMA DrivenBySays ==
  ASSUME NEW drivers \in Vectors, OverInputs(drivers), NEW holds \in Seq(SUBSET Assignments), Len(holds) < Len(drivers),
         NEW k, k = Len(holds) + 1
  PROVE  /\ DrivenBy(holds, drivers[k]) \subseteq Assignments
         /\ \A e \in Assignments : e \in DrivenBy(holds, drivers[k]) <=> Drives(holds, e, drivers[k], k)
<1> DEFINE d == drivers[k]
           n == Len(holds)
           A == Where(holds, d.a)
           B == Where(holds, d.b)
           both == IF d.type = "And" THEN A \cap B ELSE A \cup B
<1>1. n \in Nat /\ n = k - 1 /\ k \in DOMAIN drivers /\ d.kind \in {"input", "gate"} /\ n <= Len(holds)
  <2>1. Len(holds) \in Nat /\ Len(drivers) \in Nat /\ DOMAIN drivers = 1 .. Len(drivers)
    BY VectorLength
  <2> QED
    BY <2>1 DEF OverInputs
<1>2. CASE d.kind = "input"
  <2>1. DrivenBy(holds, d) = {e \in Assignments : BitOf(e, n)}
    BY <1>2 DEF DrivenBy
  <2>2. \A e : Drives(holds, e, d, k) = BitOf(e, n)
    BY <1>1, <1>2 DEF Drives
  <2> HIDE DEF d, n
  <2> QED
    BY <2>1, <2>2 DEF d
<1>3. CASE d.kind = "gate"
  <2>1. d \in GateDrivers(k - 1)
    BY <1>1, <1>3 DEF Vectors
  <2>2. d.a \in Values(n) /\ d.b \in Values(n) /\ d.sign \in BOOLEAN /\ d.type \in {"And", "Or"}
    BY <1>1, <2>1 DEF GateDrivers
  <2>3. DrivenBy(holds, d) = IF d.sign THEN both ELSE Assignments \ both
    BY <1>3 DEF DrivenBy
  <2>4. \A e : Drives(holds, e, d, k) = Computes(Under(holds, e), d)
    BY <1>3 DEF Drives
  <2>5. \A e : Computes(Under(holds, e), d) = (d.sign = Joins(d.type, Says(Under(holds, e), d.a), Says(Under(holds, e), d.b)))
    BY DEF Computes
  <2>6. /\ A \subseteq Assignments /\ B \subseteq Assignments
        /\ \A e \in Assignments : /\ e \in A <=> Says(Under(holds, e), d.a)
                                  /\ e \in B <=> Says(Under(holds, e), d.b)
    <3> DEFINE a == d.a
               b == d.b
    <3> HIDE DEF a, b, d
    <3>1. a \in Values(n) /\ b \in Values(n)
      BY <2>2 DEF a, b
    <3> HIDE DEF n
    <3> QED
      BY <1>1, <3>1, WhereSays DEF a, b
  <2> HIDE DEF A, B, d, n
  <2>7. \A e \in Assignments : e \in both <=> Joins(d.type, Says(Under(holds, e), d.a), Says(Under(holds, e), d.b))
    BY <2>2, <2>6 DEF Joins
  <2>8. both \subseteq Assignments
    BY <2>6
  <2>9. \A e : Joins(d.type, Says(Under(holds, e), d.a), Says(Under(holds, e), d.b)) \in BOOLEAN
    BY DEF Joins
  <2> HIDE DEF both
  <2>10. \A e \in Assignments : e \in DrivenBy(holds, d) <=> Drives(holds, e, d, k)
    <3> SUFFICES ASSUME NEW e \in Assignments PROVE e \in DrivenBy(holds, d) <=> Drives(holds, e, d, k)
      OBVIOUS
    <3> DEFINE J == Joins(d.type, Says(Under(holds, e), d.a), Says(Under(holds, e), d.b))
    <3>1. Drives(holds, e, d, k) <=> (d.sign = J)
      BY <2>4, <2>5
    <3>2. (e \in both <=> J) /\ J \in BOOLEAN
      BY <2>7, <2>9
    <3> HIDE DEF J
    <3> QED
      BY <2>2, <2>3, <3>1, <3>2
  <2> QED
    BY <2>3, <2>8, <2>10 DEF d
<1> QED
  BY <1>1, <1>2, <1>3

Extended(holds, drivers) == Append(holds, DrivenBy(holds, drivers[Len(holds) + 1]))

(* One more driver is settled by those before it.                           *)
LEMMA ExtendedSettles ==
  ASSUME NEW drivers \in Vectors, OverInputs(drivers), NEW holds, SettledPart(holds, drivers), Len(holds) < Len(drivers)
  PROVE  /\ SettledPart(Extended(holds, drivers), drivers)
         /\ Len(Extended(holds, drivers)) = Len(holds) + 1
<1> DEFINE n == Len(holds)
           j == n + 1
           S == DrivenBy(holds, drivers[j])
           new == Append(holds, S)
<1>0. /\ holds \in Seq(SUBSET Assignments) /\ n \in Nat /\ Len(drivers) \in Nat /\ j = n + 1 /\ j <= Len(drivers)
      /\ DOMAIN drivers = 1 .. Len(drivers)
  BY VectorLength DEF SettledPart
<1>1. S \subseteq Assignments /\ \A e \in Assignments : e \in S <=> Drives(holds, e, drivers[j], j)
  BY <1>0, DrivenBySays
<1>2. Extended(holds, drivers) = new
  BY DEF Extended
<1> HIDE DEF S
<1>3. /\ new \in Seq(SUBSET Assignments) /\ Len(new) = j /\ new[j] = S /\ \A k \in 1 .. n : new[k] = holds[k]
  BY <1>0, <1>1
<1> HIDE DEF new
<1>4. ASSUME NEW k \in 1 .. j, NEW e \in Assignments
      PROVE  Drives(new, e, drivers[k], k) <=> Drives(holds, e, drivers[k], k)
  <2> DEFINE d == drivers[k]
             val == Under(new, e)
             old == Under(holds, e)
  <2>1. k \in DOMAIN drivers /\ k - 1 \in Nat
    BY <1>0
  <2>2. CASE d.kind = "input"
    BY <2>2 DEF Drives
  <2>3. CASE d.kind # "input"
    <3>1. d.kind = "gate"
      BY <2>1, <2>3 DEF OverInputs
    <3>2. d \in GateDrivers(k - 1)
      BY <2>1, <3>1 DEF Vectors
    <3>3. \A i \in 0 .. k - 2 : val[i] = old[i]
      <4> SUFFICES ASSUME NEW i \in 0 .. k - 2 PROVE val[i] = old[i]
        OBVIOUS
      <4>1. i \in Nat /\ i + 1 \in 1 .. n /\ i < n /\ i < j
        BY <1>0
      <4>2. new[i + 1] = holds[i + 1]
        BY <1>3, <4>1
      <4> QED
        BY <1>3, <4>1, <4>2 DEF Under
    <3>4. \A v \in Values(k - 1) : Says(val, v) <=> Says(old, v)
      <4> SUFFICES ASSUME NEW v \in Values(k - 1) PROVE Says(val, v) <=> Says(old, v)
        OBVIOUS
      <4>1. v.index = NoVar \/ v.index \in 0 .. k - 2
        BY DEF Values
      <4> HIDE DEF val, old
      <4> QED
        BY <3>3, <4>1 DEF Says
    <3>5. d.a \in Values(k - 1) /\ d.b \in Values(k - 1)
      BY <3>2 DEF GateDrivers
    <3> HIDE DEF d, val, old
    <3>6. (Says(val, d.a) <=> Says(old, d.a)) /\ (Says(val, d.b) <=> Says(old, d.b))
      BY <3>4, <3>5
    <3>7. Joins(d.type, Says(val, d.a), Says(val, d.b)) <=> Joins(d.type, Says(old, d.a), Says(old, d.b))
      BY <3>6 DEF Joins
    <3>8. \A p : Joins(d.type, Says(p, d.a), Says(p, d.b)) \in BOOLEAN
      BY DEF Joins
    <3>9. Computes(val, d) <=> Computes(old, d)
      BY <3>7, <3>8 DEF Computes
    <3> QED
      BY <2>3, <3>9 DEF Drives, val, old, d
  <2> QED
    BY <2>2, <2>3
<1>5. ASSUME NEW k \in 1 .. j, NEW e \in Assignments PROVE e \in new[k] <=> Drives(new, e, drivers[k], k)
  <2>1. CASE k = j
    <3>1. new[k] = S
      BY <1>3, <2>1
    <3>2. e \in S <=> Drives(holds, e, drivers[k], k)
      BY <1>1, <2>1
    <3> QED
      BY <1>4, <3>1, <3>2
  <2>2. CASE k # j
    <3>1. k \in 1 .. n
      BY <1>0, <2>2
    <3>2. e \in holds[k] <=> Drives(holds, e, drivers[k], k)
      BY <3>1 DEF SettledPart
    <3> QED
      BY <1>3, <1>4, <3>1, <3>2
  <2> QED
    BY <2>1, <2>2
<1>6. SettledPart(new, drivers)
  BY <1>0, <1>3, <1>5 DEF SettledPart
<1> QED
  BY <1>2, <1>3, <1>6

(* A group of drivers more, until all are settled.                          *)
Reaches(holds, drivers, n) == SettledPart(holds, drivers) /\ (Len(holds) = Len(drivers) \/ Len(holds) >= n)
Further(holds, drivers) ==
  EachBit(LAMBDA s, k : IF Len(s) = Len(drivers) THEN s ELSE Append(s, DrivenBy(s, drivers[Len(s) + 1])), holds, Group)

LEMMA GroupIs == Group \in Nat /\ Group = 32
  BY DEF Group

(* One round of the settling reaches one driver further.                    *)
LEMMA OneFurther ==
  ASSUME NEW drivers \in Vectors, OverInputs(drivers), NEW s, NEW n \in Nat, Reaches(s, drivers, n)
  PROVE  Reaches(IF Len(s) = Len(drivers) THEN s ELSE Extended(s, drivers), drivers, n + 1)
<1>1. CASE Len(s) = Len(drivers)
  BY <1>1 DEF Reaches
<1>2. CASE Len(s) # Len(drivers)
  <2> DEFINE t == Extended(s, drivers)
  <2>1. Len(s) \in Nat /\ Len(drivers) \in Nat /\ Len(s) < Len(drivers) /\ SettledPart(s, drivers) /\ Len(s) >= n
    <3>1. Len(drivers) \in Nat
      BY VectorLength
    <3> QED
      BY <1>2, <3>1 DEF Reaches, SettledPart
  <2>2. SettledPart(t, drivers) /\ Len(t) = Len(s) + 1
    BY <2>1, ExtendedSettles
  <2> HIDE DEF t
  <2>3. Reaches(t, drivers, n + 1)
    BY <2>1, <2>2 DEF Reaches
  <2> QED
    BY <1>2, <2>3 DEF t
<1> QED
  BY <1>1, <1>2

(* So do the rounds it runs at once.                                        *)
LEMMA FurtherReaches ==
  ASSUME NEW drivers \in Vectors, OverInputs(drivers), NEW from, NEW n \in Nat, Reaches(from, drivers, n)
  PROVE  Reaches(Further(from, drivers), drivers, n + Group)
<1> DEFINE States == Seq(SUBSET Assignments)
           step(h, k) == IF Len(h) = Len(drivers) THEN h ELSE Append(h, DrivenBy(h, drivers[Len(h) + 1]))
           base == from
           V == [k \in 0 .. Group |-> {h \in States : Reaches(h, drivers, n + k)}]
<1>0. Group \in Nat
  BY GroupIs
<1>1. base \in V[0]
  <2>1. from \in States /\ n + 0 = n /\ 0 \in 0 .. Group
    BY <1>0 DEF Reaches, SettledPart
  <2>2. Reaches(from, drivers, n + 0)
    BY <2>1
  <2> QED
    BY <2>1, <2>2
<1>2. ASSUME NEW k \in 1 .. Group, NEW h \in V[k - 1] PROVE step(h, k) \in V[k]
  <2> DEFINE t == step(h, k)
             j == n + (k - 1)
             l == n + k
  <2>1. k - 1 \in 0 .. Group /\ k \in 0 .. Group /\ j \in Nat /\ l = j + 1
    BY <1>0
  <2>2. Reaches(h, drivers, j)
    BY <2>1
  <2>3. t = IF Len(h) = Len(drivers) THEN h ELSE Extended(h, drivers)
    BY DEF Extended
  <2> HIDE DEF t, V, step, j
  <2>4. Reaches(IF Len(h) = Len(drivers) THEN h ELSE Extended(h, drivers), drivers, j + 1)
    BY <2>1, <2>2, OneFurther
  <2>5. Reaches(t, drivers, l)
    BY <2>1, <2>3, <2>4
  <2>6. t \in States
    BY <2>5 DEF Reaches, SettledPart
  <2> QED
    BY <2>1, <2>5, <2>6 DEF V, t
<1> HIDE DEF States
<1> USE <1>0
<1> DEFINE Rec(f) == [k \in 0 .. Group |-> IF k = 0 THEN base ELSE step(f[k - 1], k)]
       F == [y \in States \X (1 .. Group) |-> step(y[1], y[2])]
       after == CHOOSE f : f = Rec(f)
<1>a1. \A k \in 1 .. Group : \A s \in V[k - 1] : F[<<s, k>>] = step(s, k) /\ F[<<s, k>>] \in V[k]
  <2> SUFFICES ASSUME NEW k \in 1 .. Group, NEW s \in V[k - 1] PROVE F[<<s, k>>] = step(s, k)
    <3> HIDE DEF V, step, F
    <3> QED
      BY <1>2
  <2>1. k - 1 \in 0 .. Group
    OBVIOUS
  <2>2. s \in States
    BY <2>1
  <2> HIDE DEF V, step
  <2> QED
    BY <2>2
<1>a2. PICK run : Runs(Group, V, base, F, run)
  <2> HIDE DEF V, step, F, base
  <2> QED
    BY <1>1, <1>a1, LoopRuns
<1>a3. run = Rec(run)
  <2> SUFFICES ASSUME NEW k \in 0 .. Group PROVE run[k] = IF k = 0 THEN base ELSE step(run[k - 1], k)
    <3> HIDE DEF V, step, F, base
    <3> QED
      BY <1>a2 DEF Runs
  <2>1. CASE k = 0
    <3> HIDE DEF V, step, F, base
    <3> QED
      BY <2>1, <1>a2 DEF Runs
  <2>2. CASE k # 0
    <3>1. k \in 1 .. Group /\ k - 1 \in 0 .. Group
      BY <2>2
    <3> HIDE DEF V, step, F, base
    <3> QED
      BY <2>2, <3>1, <1>a1, <1>a2 DEF Runs
  <2> QED
    BY <2>1, <2>2
<1>a4. after = Rec(after)
  <2> HIDE DEF Rec
  <2> QED
    BY <1>a3
<1>a5. after[0] = base /\ \A k \in 1 .. Group : after[k] = step(after[k - 1], k)
  <2> HIDE DEF step, base, after, V, F
  <2>1. \A k \in 0 .. Group : after[k] = IF k = 0 THEN base ELSE step(after[k - 1], k)
    BY <1>a4
  <2>2. 0 \in 0 .. Group /\ \A k \in 1 .. Group : k \in 0 .. Group /\ k # 0
    OBVIOUS
  <2> HIDE DEF Rec
  <2> QED
    BY <2>1, <2>2
<1>a6. \A k \in 0 .. Group : after[k] \in V[k]
  <2> HIDE DEF V, step, F, base, after, Rec
  <2> QED
    BY <1>1, <1>a1, <1>a5, LoopKeeps, ZenonT(60)
<1>3. Further(from, drivers) = after[Group]
  BY DEF Further, EachBit
<1>4. Reaches(after[Group], drivers, n + Group)
  <2> HIDE DEF after
  <2>1. Group \in 0 .. Group
    BY <1>0
  <2> QED
    BY <1>a6, <2>1
<1> HIDE DEF after
<1> QED
  BY <1>3, <1>4

(* Settled gives every variable its value under every assignment.           *)
LEMMA SettledSettles ==
  ASSUME NEW drivers \in Vectors, OverInputs(drivers)
  PROVE  SettledPart(Settled(drivers), drivers) /\ Len(Settled(drivers)) = Len(drivers)
<1> DEFINE States == Seq(SUBSET Assignments)
           L == Len(drivers)
           r == L \div Group + 1
           step(h, k) == IF Len(h) = Len(drivers) THEN h ELSE Further(h, drivers)
           base == <<>>
           V == [k \in 0 .. r |-> {h \in States : Reaches(h, drivers, k * Group)}]
<1>0. Group \in Nat /\ L \in Nat /\ r \in Nat /\ r * Group >= L
  <2>1. Group = 32 /\ L \in Nat
    BY GroupIs, VectorLength
  <2> HIDE DEF L
  <2> QED
    BY <2>1
<1> HIDE DEF r
<1>1. base \in V[0]
  <2>1. base \in States /\ Len(base) = 0 /\ 0 * Group = 0 /\ 0 \in 0 .. r
    BY <1>0
  <2>2. SettledPart(base, drivers)
    BY <1>0, <2>1 DEF SettledPart
  <2> HIDE DEF base
  <2>3. Reaches(base, drivers, 0 * Group)
    BY <2>1, <2>2 DEF Reaches
  <2> QED
    BY <2>1, <2>3
<1>2. ASSUME NEW k \in 1 .. r, NEW h \in V[k - 1] PROVE step(h, k) \in V[k]
  <2> DEFINE t == step(h, k)
             j == (k - 1) * Group
             l == k * Group
  <2>1. k - 1 \in 0 .. r /\ k \in 0 .. r /\ j \in Nat /\ l = j + Group
    BY <1>0
  <2>2. Reaches(h, drivers, j)
    BY <2>1
  <2>3. t = IF Len(h) = Len(drivers) THEN h ELSE Further(h, drivers)
    OBVIOUS
  <2> HIDE DEF t, V, step, j, l, base
  <2>6. Reaches(t, drivers, l)
    <3>1. CASE Len(h) = Len(drivers)
      BY <2>2, <2>3, <3>1 DEF Reaches
    <3>2. CASE Len(h) # Len(drivers)
      BY <2>1, <2>2, <2>3, <3>2, FurtherReaches
    <3> QED
      BY <3>1, <3>2
  <2>7. t \in States
    BY <2>6 DEF Reaches, SettledPart
  <2> QED
    BY <2>1, <2>6, <2>7 DEF V, t, l
<1> HIDE DEF States
<1>b. r \in Nat
  BY <1>0
<1> USE <1>b
<1> DEFINE Rec(f) == [k \in 0 .. r |-> IF k = 0 THEN base ELSE step(f[k - 1], k)]
       F == [y \in States \X (1 .. r) |-> step(y[1], y[2])]
       after == CHOOSE f : f = Rec(f)
<1>a1. \A k \in 1 .. r : \A s \in V[k - 1] : F[<<s, k>>] = step(s, k) /\ F[<<s, k>>] \in V[k]
  <2> SUFFICES ASSUME NEW k \in 1 .. r, NEW s \in V[k - 1] PROVE F[<<s, k>>] = step(s, k)
    <3> HIDE DEF V, step, F
    <3> QED
      BY <1>2
  <2>1. k - 1 \in 0 .. r
    OBVIOUS
  <2>2. s \in States
    BY <2>1
  <2> HIDE DEF V, step
  <2> QED
    BY <2>2
<1>a2. PICK run : Runs(r, V, base, F, run)
  <2> HIDE DEF V, step, F, base
  <2> QED
    BY <1>1, <1>a1, LoopRuns
<1>a3. run = Rec(run)
  <2> SUFFICES ASSUME NEW k \in 0 .. r PROVE run[k] = IF k = 0 THEN base ELSE step(run[k - 1], k)
    <3> HIDE DEF V, step, F, base
    <3> QED
      BY <1>a2 DEF Runs
  <2>1. CASE k = 0
    <3> HIDE DEF V, step, F, base
    <3> QED
      BY <2>1, <1>a2 DEF Runs
  <2>2. CASE k # 0
    <3>1. k \in 1 .. r /\ k - 1 \in 0 .. r
      BY <2>2
    <3> HIDE DEF V, step, F, base
    <3> QED
      BY <2>2, <3>1, <1>a1, <1>a2 DEF Runs
  <2> QED
    BY <2>1, <2>2
<1>a4. after = Rec(after)
  <2> HIDE DEF Rec
  <2> QED
    BY <1>a3
<1>a5. after[0] = base /\ \A k \in 1 .. r : after[k] = step(after[k - 1], k)
  <2> HIDE DEF step, base, after, V, F
  <2>1. \A k \in 0 .. r : after[k] = IF k = 0 THEN base ELSE step(after[k - 1], k)
    BY <1>a4
  <2>2. 0 \in 0 .. r /\ \A k \in 1 .. r : k \in 0 .. r /\ k # 0
    OBVIOUS
  <2> HIDE DEF Rec
  <2> QED
    BY <2>1, <2>2
<1>a6. \A k \in 0 .. r : after[k] \in V[k]
  <2> HIDE DEF V, step, F, base, after, Rec
  <2> QED
    BY <1>1, <1>a1, <1>a5, LoopKeeps, ZenonT(60)
<1>3. Settled(drivers) = after[r]
  BY DEF Settled, EachBit, Further, r
<1>4. Reaches(after[r], drivers, r * Group)
  <2> HIDE DEF after
  <2>1. r \in 0 .. r
    BY <1>0
  <2> QED
    BY <1>a6, <2>1
<1> HIDE DEF after
<1>5. SettledPart(after[r], drivers) /\ Len(after[r]) = L
  <2> DEFINE h == after[r]
             n == r * Group
  <2>1. n >= L /\ n \in Nat
    BY <1>0
  <2>2. Len(h) <= L /\ Len(h) \in Nat
    BY <1>4 DEF Reaches, SettledPart
  <2> HIDE DEF n, h
  <2>3. Reaches(h, drivers, n)
    BY <1>4 DEF n, h
  <2> HIDE DEF L
  <2> QED
    BY <1>0, <2>1, <2>2, <2>3 DEF Reaches, h, L
<1> QED
  BY <1>3, <1>5

(* The valuations in which the inputs, the first n variables, are those of e. *)
Fixes(val, e, n) == val \in [Nat -> BOOLEAN] /\ \A i \in 0 .. n - 1 : val[i] = BitOf(e, i)
OfBits(e) == [i \in Nat |-> BitOf(e, i)]
Until(n) == 0 .. Pow2[n] - 1

Long(x, w) == Len(x) = w

(* Number is what the bits are worth.                                       *)
LEMMA NumberIs ==
  ASSUME NEW b, NEW w \in Nat, Long(b, w)
  PROVE  Number(b) = Worth(b)[w]
<1> DEFINE Rec(g) == [k \in 0 .. w |-> IF k = 0 THEN 0 ELSE g[k - 1] + (IF b[k] THEN Pow2[k - 1] ELSE 0)]
           sum == CHOOSE g : g = Rec(g)
           W == Worth(b)
           h == [k \in 0 .. w |-> W[k]]
           S == {k \in 0 .. w : sum[k] = W[k]}
<1>0. W \in [Nat -> Nat] /\ W[0] = 0 /\ \A k \in Nat : W[k + 1] = W[k] + (IF b[k + 1] THEN Pow2[k] ELSE 0)
  BY WorthDefined
<1>a. Len(b) = w
  BY DEF Long
<1>b. Number(b) = sum[w]
  BY <1>a DEF Number
<1> HIDE DEF W
<1>1. \A k \in 1 .. w : W[k] = W[k - 1] + (IF b[k] THEN Pow2[k - 1] ELSE 0)
  <2> SUFFICES ASSUME NEW k \in 1 .. w PROVE W[k] = W[k - 1] + (IF b[k] THEN Pow2[k - 1] ELSE 0)
    OBVIOUS
  <2> DEFINE j == k - 1
  <2>1. j \in Nat /\ k = j + 1
    OBVIOUS
  <2> HIDE DEF j
  <2>2. W[k] = W[j] + (IF b[k] THEN Pow2[j] ELSE 0)
    BY <1>0, <2>1
  <2> QED
    BY <2>2 DEF j
<1>2. h = Rec(h)
  <2> SUFFICES ASSUME NEW k \in 0 .. w PROVE h[k] = IF k = 0 THEN 0 ELSE h[k - 1] + (IF b[k] THEN Pow2[k - 1] ELSE 0)
    OBVIOUS
  <2>1. CASE k = 0
    BY <1>0, <2>1
  <2>2. CASE k # 0
    <3>1. k \in 1 .. w /\ k - 1 \in 0 .. w
      BY <2>2
    <3> QED
      BY <1>1, <2>2, <3>1
  <2> QED
    BY <2>1, <2>2
<1>3. sum = Rec(sum)
  <2> HIDE DEF Rec
  <2> QED
    BY <1>2
<1> HIDE DEF sum
<1>4. \A k \in 0 .. w : sum[k] = IF k = 0 THEN 0 ELSE sum[k - 1] + (IF b[k] THEN Pow2[k - 1] ELSE 0)
  BY <1>3
<1>5. 0 \in S
  BY <1>0, <1>4
<1>6. ASSUME NEW k \in 1 .. w, k - 1 \in S PROVE k \in S
  BY <1>1, <1>4, <1>6
<1>7. \A k \in 0 .. w : k \in S
  <2> HIDE DEF S
  <2> QED
    BY <1>5, <1>6, Climbs
<1>8. sum[w] = W[w]
  BY <1>7
<1> QED
  BY <1>b, <1>8 DEF W

(* A number is what the bits of a word say.                                 *)
LEMMA NumberLow ==
  ASSUME NEW val, NEW w \in Nat, NEW n \in Nat, NEW x \in Words(w, n),
         NEW b, Long(b, w), \A k \in 1 .. w : b[k] <=> Says(val, x[k])
  PROVE  Number(b) = Low(val, x, w)
<1> DEFINE s == Spoken(val, x)
<1>1. Number(b) = Worth(b)[w]
  BY NumberIs
<1>2. \A k \in 1 .. w : b[k] <=> s[k]
  <2>1. DOMAIN x = 1 .. w
    BY WordShape
  <2> QED
    BY <2>1 DEF Spoken
<1> HIDE DEF s
<1>3. w \in 0 .. w
  OBVIOUS
<1>4. Worth(b)[w] = Worth(s)[w]
  BY <1>2, <1>3, WorthOfEqual
<1> QED
  BY <1>1, <1>4 DEF Low, s

LEMMA NumberBounded ==
  ASSUME NEW b, NEW w \in Nat, Long(b, w) PROVE Number(b) \in 0 .. Pow2[w] - 1
<1>1. Number(b) = Worth(b)[w]
  BY NumberIs
<1> QED
  BY <1>1, WorthBounded

(* Every assignment fixes the inputs.                                       *)
LEMMA OfBitsFixes ==
  ASSUME NEW e, NEW n PROVE Fixes(OfBits(e), e, n)
<1>1. \A i : BitOf(e, i) \in BOOLEAN
  BY DEF BitOf
<1>2. OfBits(e) \in [Nat -> BOOLEAN]
  BY <1>1 DEF OfBits
<1>3. \A i \in 0 .. n - 1 : OfBits(e)[i] = BitOf(e, i)
  BY DEF OfBits
<1> QED
  BY <1>2, <1>3 DEF Fixes

(* The inputs are the first n variables, the others are gates.              *)
InputsFirst(drivers, n) ==
  /\ n \in Nat /\ n <= Len(drivers)
  /\ \A k \in DOMAIN drivers : drivers[k].kind = (IF k <= n THEN "input" ELSE "gate")

(* Words mean the number that their bits say in every run of the gates.     *)
MeansIn(word, drivers, n) ==
  /\ Len(word.bits) \in Nat /\ Len(word.bits) > 0
  /\ word.bits \in Words(Len(word.bits), Len(drivers))
  /\ \A e \in Until(n) : \A val : Fixes(val, e, n) /\ Respects(val, drivers) =>
       Low(val, word.bits, Len(word.bits)) = word.means[e]
SoundFor(drivers, entries, n) ==
  /\ drivers \in Vectors /\ InputsFirst(drivers, n)
  /\ \E S : entries \in Seq(S)
  /\ Len(entries) > 0
  /\ \A k \in DOMAIN entries : MeansIn(entries[k], drivers, n)
(* Gates that compute means for every assignment to the inputs.             *)
BuildsFor(drivers, built, w, means, n) ==
  \A e \in Until(n) : \A val : Fixes(val, e, n) => BuildsNumber(val, drivers, built, w, means[e])

(* What a word that means something gives to the builders.                  *)
Holds(val, drivers, word, n, w) ==
  \A e \in Until(n) : Fixes(val, e, n) /\ Respects(val, drivers) => Low(val, word.bits, w) = word.means[e]
Sized(entries, k, w) == w = Len(entries[k].bits)

(* A sound entry used as an operand.                                        *)
LEMMA OperandMeans ==
  ASSUME NEW n, NEW drivers, NEW entries, SoundFor(drivers, entries, n), NEW k \in DOMAIN entries,
         NEW w, Sized(entries, k, w)
  PROVE  /\ w \in Nat /\ w > 0 /\ entries[k].bits \in Words(w, Len(drivers))
         /\ \A val : Holds(val, drivers, entries[k], n, w)
<1>1. MeansIn(entries[k], drivers, n)
  BY DEF SoundFor
<1> DEFINE x == entries[k]
<1>2. /\ w \in Nat /\ w > 0 /\ x.bits \in Words(w, Len(drivers))
      /\ \A e \in Until(n) : \A val : Fixes(val, e, n) /\ Respects(val, drivers) => Low(val, x.bits, w) = x.means[e]
  BY <1>1 DEF MeansIn, Sized
<1> HIDE DEF x
<1>3. \A val : Holds(val, drivers, x, n, w)
  BY <1>2 DEF Holds
<1> QED
  BY <1>2, <1>3 DEF x

LEMMA SoundVector ==
  ASSUME NEW n, NEW drivers, NEW entries, SoundFor(drivers, entries, n)
  PROVE  drivers \in Vectors /\ Len(drivers) \in Nat /\ n \in Nat /\ n <= Len(drivers) /\ 0 \in Until(n)
<1>1. drivers \in Vectors /\ n \in Nat /\ n <= Len(drivers)
  BY DEF SoundFor, InputsFirst
<1>2. Pow2[n] \in Nat /\ Pow2[n] >= 1
  BY <1>1, Powers, PowersGrow
<1> QED
  BY <1>1, <1>2, VectorLength DEF Until

(* A node whose gates compute its meaning leaves all words meaningful.      *)
Outcome(x, built) == x.bits = built.out

(* A node built from sound entries is sound.                                *)
LEMMA NodeSound ==
  ASSUME NEW n, NEW drivers, NEW entries, SoundFor(drivers, entries, n), NEW built, NEW w \in Nat, w > 0,
         NEW x, Outcome(x, built), BuildsFor(drivers, built, w, x.means, n)
  PROVE  SoundFor(built.ds, Append(entries, x), n)
<1> DEFINE new == built.ds
           all == Append(entries, x)
           zero == OfBits(0)
           Zero == 0
<1>0. drivers \in Vectors /\ Len(drivers) \in Nat /\ n \in Nat /\ n <= Len(drivers) /\ 0 \in Until(n)
  BY SoundVector
<1>1. BuildsNumber(zero, drivers, built, w, x.means[Zero])
  <2>1. Fixes(zero, Zero, n) /\ Zero \in Until(n)
    BY <1>0, OfBitsFixes
  <2> HIDE DEF Zero, zero
  <2> QED
    BY <2>1 DEF BuildsFor
<1> HIDE DEF Zero, zero
<1>2. /\ new \in Vectors /\ Len(new) \in Nat /\ built.out \in Words(w, Len(new))
      /\ Follows(zero, drivers, new) /\ \A u : Words(u, Len(drivers)) \subseteq Words(u, Len(new))
  BY <1>1, NumberBuilt
<1>3. Grows(drivers, new)
  BY <1>2 DEF Follows
<1>4. InputsFirst(new, n)
  <2>1. DOMAIN new = 1 .. Len(new) /\ DOMAIN drivers = 1 .. Len(drivers)
    BY <1>0, <1>2, VectorLength
  <2>2. \A k \in DOMAIN drivers : drivers[k].kind = (IF k <= n THEN "input" ELSE "gate")
    BY DEF SoundFor, InputsFirst
  <2>3. ASSUME NEW k \in DOMAIN new PROVE new[k].kind = (IF k <= n THEN "input" ELSE "gate")
    <3> HIDE DEF new
    <3>1. CASE k <= Len(drivers)
      <4>1. k \in 1 .. Len(drivers)
        BY <1>0, <1>2, <2>1, <3>1
      <4> QED
        BY <1>3, <2>1, <2>2, <4>1 DEF Grows
    <3>2. CASE ~(k <= Len(drivers))
      <4>1. k \in Len(drivers) + 1 .. Len(new) /\ ~(k <= n)
        BY <1>0, <1>2, <2>1, <3>2
      <4>2. new[k].kind = "gate"
        BY <1>3, <4>1 DEF Grows
      <4> QED
        BY <4>1, <4>2
    <3> QED
      BY <3>1, <3>2
  <2>4. Len(drivers) <= Len(new)
    BY <1>3 DEF Grows
  <2> HIDE DEF new
  <2>5. n <= Len(new)
    BY <1>0, <1>2, <2>4
  <2> QED
    BY <1>0, <2>3, <2>5 DEF InputsFirst
<1>5. PICK S : entries \in Seq(S)
  BY DEF SoundFor
<1>6. all \in Seq(S \cup {x}) /\ Len(all) = Len(entries) + 1 /\ Len(entries) \in Nat
  <2>1. entries \in Seq(S \cup {x})
    BY <1>5
  <2> QED
    BY <2>1
<1>7. \A e \in Until(n) : \A val : Fixes(val, e, n) /\ Respects(val, new) =>
         Respects(val, drivers) /\ Low(val, built.out, w) = x.means[e]
  <2> SUFFICES ASSUME NEW e \in Until(n), NEW val, Fixes(val, e, n) /\ Respects(val, new)
               PROVE  Respects(val, drivers) /\ Low(val, built.out, w) = x.means[e]
    OBVIOUS
  <2> DEFINE m == x.means[e]
  <2>1. BuildsNumber(val, drivers, built, w, m)
    BY DEF BuildsFor
  <2> HIDE DEF m
  <2>2. Respects(val, new) => Respects(val, drivers) /\ Low(val, built.out, w) = m
    BY <2>1, NumberBuilt
  <2> QED
    BY <2>2 DEF m
<1>8. ASSUME NEW k \in DOMAIN entries PROVE MeansIn(entries[k], new, n)
  <2>1. MeansIn(entries[k], drivers, n)
    BY DEF SoundFor
  <2> DEFINE y == entries[k]
  <2> HIDE DEF y, new
  <2>2. MeansIn(y, drivers, n)
    BY <2>1 DEF y
  <2>3. MeansIn(y, new, n)
    BY <1>2, <1>7, <2>2 DEF MeansIn
  <2> QED
    BY <2>3 DEF y
<1>9. MeansIn(x, new, n)
  <2>1. Len(built.out) = w
    BY <1>2, WordShape
  <2>2. x.bits = built.out
    BY DEF Outcome
  <2> HIDE DEF new
  <2> QED
    BY <1>2, <1>7, <2>1, <2>2 DEF MeansIn
<1>10. ASSUME NEW k \in DOMAIN all PROVE MeansIn(all[k], new, n)
  <2> HIDE DEF new
  <2>1. k \in 1 .. Len(entries) + 1 /\ DOMAIN entries = 1 .. Len(entries)
    BY <1>5, <1>6
  <2>2. CASE k = Len(entries) + 1
    <3>1. all[k] = x
      BY <1>5, <2>2
    <3> QED
      BY <1>9, <3>1
  <2>3. CASE k # Len(entries) + 1
    <3>1. k \in DOMAIN entries
      BY <1>6, <2>1, <2>3
    <3>2. all[k] = entries[k]
      BY <1>5, <2>1, <3>1
    <3> QED
      BY <1>8, <3>1, <3>2
  <2> QED
    BY <2>2, <2>3
<1> HIDE DEF new
<1>11. SoundFor(new, all, n)
  <2>1. Len(all) > 0
    BY <1>6
  <2> HIDE DEF all
  <2> QED
    BY <1>2, <1>4, <1>6, <1>10, <2>1 DEF SoundFor
<1> QED
  BY <1>11 DEF new, all

InputValue(bits, e) == [k \in DOMAIN bits |-> bits[k].sign = (bits[k].index = NoVar \/ BitOf(e, bits[k].index))]
(* A word over the inputs means what its bits say.                          *)
LEMMA InputMeans ==
  ASSUME NEW n \in Nat, NEW w \in Nat, NEW bits \in Words(w, n), NEW e, NEW val, Fixes(val, e, n)
  PROVE  Number(InputValue(bits, e)) = Low(val, bits, w)
<1> DEFINE b == InputValue(bits, e)
<1>1. DOMAIN bits = 1 .. w /\ DOMAIN b = 1 .. w /\ b \in Seq(BOOLEAN) /\ Len(b) = w
  <2>1. DOMAIN bits = 1 .. w
    BY WordShape
  <2>2. b = [k \in 1 .. w |-> bits[k].sign = (bits[k].index = NoVar \/ BitOf(e, bits[k].index))]
    BY <2>1 DEF InputValue
  <2> HIDE DEF b
  <2>3. b \in [1 .. w -> BOOLEAN]
    BY <2>2
  <2>4. b \in Seq(BOOLEAN) /\ Len(b) = w /\ DOMAIN b = 1 .. w
    BY <2>3
  <2> QED
    BY <2>1, <2>4
<1>2. ASSUME NEW k \in 1 .. w PROVE b[k] <=> Says(val, bits[k])
  <2> DEFINE v == bits[k]
             i == v.index
             q == v.sign
             V == val[i]
             C == BitOf(e, i)
             N == i = NoVar
  <2>1. v \in Values(n)
    BY WordShape
  <2>2. q \in BOOLEAN /\ (i = NoVar \/ i \in 0 .. n - 1)
    BY <2>1 DEF Values
  <2>3. b[k] = (q = (N \/ C))
    BY <1>1 DEF InputValue
  <2>4. Says(val, v) = IF N THEN q ELSE V = q
    BY DEF Says
  <2>5. C \in BOOLEAN
    BY DEF BitOf
  <2>6. ~N => V = C
    BY <2>2 DEF Fixes
  <2>7. N \in BOOLEAN
    OBVIOUS
  <2> HIDE DEF N, V, C, q, i, b
  <2>8. CASE N
    BY <2>2, <2>3, <2>4, <2>5, <2>8
  <2>9. CASE ~N
    <3>1. V = C
      BY <2>6, <2>9
    <3> DEFINE B == b[k]
    <3>2. B = (q = C)
      <4>1. (N \/ C) = C
        BY <2>5, <2>9
      <4> QED
        BY <2>3, <4>1
    <3>3. Says(val, v) = (C = q)
      BY <2>4, <2>9, <3>1
    <3> HIDE DEF B
    <3> QED
      BY <2>2, <2>5, <3>2, <3>3 DEF B
  <2> QED
    BY <2>8, <2>9
<1>3. Long(b, w)
  BY <1>1 DEF Long
<1> HIDE DEF b
<1>4. Number(b) = Low(val, bits, w)
  BY <1>2, <1>3, NumberLow
<1> QED
  BY <1>4 DEF b

(* The words over the inputs mean what their bits say.                      *)
LEMMA InputsSound ==
  ASSUME NEW n \in Nat, NEW texts, NEW r \in Nat, r > 0, DOMAIN texts = 1 .. r,
         \A k \in 1 .. r : texts[k] \in Seq(Values(n)) \ {<<>>},
         NEW entries, NEW S, entries \in Seq(S), Long(entries, r),
         \A k \in 1 .. r : entries[k].bits = texts[k] /\ entries[k].means = [e \in Until(n) |-> Number(InputValue(texts[k], e))]
  PROVE  SoundFor([k \in 1 .. n |-> InputDriver], entries, n)
<1> DEFINE drivers == [k \in 1 .. n |-> InputDriver]
<1>1. drivers \in Vectors
  <2>1. InputDriver \in Drivers(0) /\ InputDriver.kind = "input"
    BY DEF Drivers, InputDriver
  <2>2. InputDriver \in UNION {Drivers(m) : m \in Nat}
    BY <2>1
  <2>3. drivers \in Seq(UNION {Drivers(m) : m \in Nat})
    BY <2>2
  <2>4. \A k \in DOMAIN drivers : drivers[k].kind # "gate"
    BY <2>1
  <2> HIDE DEF drivers
  <2> QED
    BY <2>3, <2>4 DEF Vectors
<1>2. Len(drivers) = n /\ InputsFirst(drivers, n)
  <2>1. Len(drivers) = n /\ DOMAIN drivers = 1 .. n /\ \A k \in 1 .. n : drivers[k].kind = "input"
    BY DEF InputDriver
  <2> HIDE DEF drivers
  <2> QED
    BY <2>1 DEF InputsFirst
<1>3. DOMAIN entries = 1 .. r
  BY DEF Long
<1>4. ASSUME NEW k \in 1 .. r PROVE MeansIn(entries[k], drivers, n)
  <2> DEFINE x == entries[k]
             bits == texts[k]
             w == Len(bits)
  <2>1. bits \in Seq(Values(n)) /\ bits # <<>>
    OBVIOUS
  <2>2. w \in Nat /\ w > 0 /\ bits \in Words(w, n)
    BY <2>1 DEF Words
  <2>3. x.bits = bits /\ x.means = [e \in Until(n) |-> Number(InputValue(bits, e))]
    OBVIOUS
  <2> HIDE DEF x, w, bits, drivers
  <2>4. \A e \in Until(n) : \A val : Fixes(val, e, n) => Low(val, bits, w) = x.means[e]
    BY <2>2, <2>3, InputMeans
  <2>5. Len(x.bits) = w
    BY <2>3 DEF w
  <2>6. MeansIn(x, drivers, n)
    BY <1>2, <2>2, <2>3, <2>4, <2>5 DEF MeansIn
  <2> QED
    BY <2>6 DEF x
<1> HIDE DEF drivers
<1>5. SoundFor(drivers, entries, n)
  <2>1. Len(entries) > 0
    BY DEF Long
  <2> QED
    BY <1>1, <1>2, <1>3, <1>4, <2>1 DEF SoundFor
<1> QED
  BY <1>5 DEF drivers

(* The inductive invariant.                                                 *)
Sound == SoundFor(ds, words, given.inputs)
OpsInv == given \in Operands /\ (given.front # "verilator" => Sound)

(* The inputs and the words over them satisfy it.                           *)
LEMMA InitSound == Init => Sound /\ given \in Operands
<1> SUFFICES ASSUME Init PROVE Sound /\ given \in Operands
  OBVIOUS
<1> DEFINE n == given.inputs
           texts == given.words
           r == Len(texts)
<1>1. /\ given \in Operands /\ ds = [k \in 1 .. n |-> InputDriver]
      /\ words = [k \in DOMAIN texts |-> InputWord(texts[k])]
  BY DEF Init
<1>2. n \in Nat /\ texts \in Seq(Seq(Values(n)) \ {<<>>}) /\ texts # <<>>
  BY <1>1, OperandsAssumption DEF OperandsAssumption
<1>3. r \in Nat /\ r > 0 /\ DOMAIN texts = 1 .. r /\ \A k \in 1 .. r : texts[k] \in Seq(Values(n)) \ {<<>>}
  <2> DEFINE T == Seq(Values(n)) \ {<<>>}
  <2>1. texts \in Seq(T) /\ texts # <<>>
    BY <1>2
  <2> HIDE DEF T, n, texts
  <2>2. Len(texts) \in Nat /\ Len(texts) > 0 /\ DOMAIN texts = 1 .. Len(texts) /\ \A k \in 1 .. Len(texts) : texts[k] \in T
    BY <2>1
  <2> QED
    BY <2>2 DEF T
<1>4. \A b : /\ InputWord(b).bits = b
             /\ InputWord(b).means = [e \in Until(n) |-> Number(InputValue(b, e))]
  BY DEF InputWord, InputValue, Assignments, Until
<1> HIDE DEF n, texts, r
<1> DEFINE S == {InputWord(texts[k]) : k \in 1 .. r}
<1>5. words \in Seq(S) /\ Long(words, r) /\ \A k \in 1 .. r : words[k] = InputWord(texts[k])
  <2>1. words = [k \in 1 .. r |-> InputWord(texts[k])]
    BY <1>1, <1>3
  <2>2. \A k \in 1 .. r : InputWord(texts[k]) \in S
    OBVIOUS
  <2>3. r \in Nat
    BY <1>3
  <2> HIDE DEF S
  <2>4. words \in [1 .. r -> S]
    BY <2>1, <2>2
  <2>5. words \in Seq(S) /\ Len(words) = r
    BY <2>3, <2>4
  <2> QED
    BY <2>1, <2>5 DEF Long
<1>a. \A k \in 1 .. r : /\ words[k].bits = texts[k]
                       /\ words[k].means = [e \in Until(n) |-> Number(InputValue(texts[k], e))]
  BY <1>4, <1>5
<1> HIDE DEF S
<1>6. SoundFor([k \in 1 .. n |-> InputDriver], words, n)
  <2>1. words \in Seq(S) /\ Long(words, r)
    BY <1>5
  <2> QED
    BY <1>2, <1>3, <1>a, <2>1, InputsSound
<1> QED
  BY <1>1, <1>6 DEF Sound, n

(* Each operation of the CIRCT path, over words that mean something.        *)
LEMMA ICmpSound ==
  ASSUME NEW n, NEW drivers, NEW entries, SoundFor(drivers, entries, n), NEW j \in DOMAIN entries, NEW k \in DOMAIN entries,
         NEW w, Sized(entries, j, w), Sized(entries, k, w), NEW predicate \in Predicates, NEW signed \in BOOLEAN,
         NEW means, \A e \in Until(n) : means[e] =
           Truth(Compares(predicate, Reads(signed, entries[j].means[e], w), Reads(signed, entries[k].means[e], w)))
  PROVE  BuildsFor(drivers, ICmpGate(drivers, predicate, signed, entries[j].bits, entries[k].bits), 1, means, n)
<1> DEFINE a == entries[j].bits
           b == entries[k].bits
           g == ICmpGate(drivers, predicate, signed, a, b)
           One == 1
<1>0. drivers \in Vectors
  BY SoundVector
<1>1. w \in Nat /\ w > 0 /\ a \in Words(w, Len(drivers)) /\ \A val : Holds(val, drivers, entries[j], n, w)
  BY OperandMeans
<1>2. b \in Words(w, Len(drivers)) /\ \A val : Holds(val, drivers, entries[k], n, w)
  BY OperandMeans
<1>3. ASSUME NEW e \in Until(n), NEW val, Fixes(val, e, n) PROVE BuildsNumber(val, drivers, g, One, means[e])
  <2> DEFINE p == Low(val, a, w)
             q == Low(val, b, w)
             old == Truth(Compares(predicate, Reads(signed, p, w), Reads(signed, q, w)))
             new == means[e]
  <2>1. val \in [Nat -> BOOLEAN]
    BY <1>3 DEF Fixes
  <2>2. Follows(val, drivers, drivers)
    BY <1>0, FollowsItself
  <2>3. Respects(val, drivers) => old = new
    <3>1. Respects(val, drivers) => p = entries[j].means[e] /\ q = entries[k].means[e]
      BY <1>1, <1>2, <1>3 DEF Holds
    <3> HIDE DEF p, q
    <3> QED
      BY <3>1
  <2> HIDE DEF a, b
  <2>4. BuildsNumber(val, drivers, g, One, old)
    BY <1>0, <1>1, <1>2, <2>1, ICmpBuilds DEF One
  <2> HIDE DEF g, One, old, new
  <2>5. BuildsNumber(val, drivers, g, One, new)
    BY <2>2, <2>3, <2>4, NumberAfter
  <2> QED
    BY <2>5 DEF new
<1> HIDE DEF g
<1>4. BuildsFor(drivers, g, 1, means, n)
  BY <1>3 DEF BuildsFor
<1> QED
  BY <1>4 DEF g, a, b

(* For every assignment, what each node of the CIRCT front end builds.      *)
LEMMA MuxSound ==
  ASSUME NEW n, NEW drivers, NEW entries, SoundFor(drivers, entries, n), NEW c \in DOMAIN entries,
         NEW j \in DOMAIN entries, NEW k \in DOMAIN entries,
         NEW w, Sized(entries, j, w), Sized(entries, k, w), Sized(entries, c, 1),
         NEW means, \A e \in Until(n) : means[e] = IF entries[c].means[e] = 1 THEN entries[j].means[e] ELSE entries[k].means[e]
  PROVE  BuildsFor(drivers, CombMux(drivers, entries[c].bits, entries[j].bits, entries[k].bits), w, means, n)
<1> DEFINE condition == entries[c].bits
           a == entries[j].bits
           b == entries[k].bits
           g == CombMux(drivers, condition, a, b)
           One == 1
<1>0. drivers \in Vectors
  BY SoundVector
<1>1. w \in Nat /\ w > 0 /\ a \in Words(w, Len(drivers)) /\ \A val : Holds(val, drivers, entries[j], n, w)
  BY OperandMeans
<1>2. b \in Words(w, Len(drivers)) /\ \A val : Holds(val, drivers, entries[k], n, w)
  BY OperandMeans
<1>a. Sized(entries, c, One)
  OBVIOUS
<1>b. condition \in Words(One, Len(drivers)) /\ \A val : Holds(val, drivers, entries[c], n, One)
  <2> HIDE DEF One
  <2> QED
    BY <1>a, OperandMeans
<1>3. ASSUME NEW e \in Until(n), NEW val, Fixes(val, e, n) PROVE BuildsNumber(val, drivers, g, w, means[e])
  <2> DEFINE p == Low(val, a, w)
             q == Low(val, b, w)
             s == Low(val, condition, One)
             old == IF s = 1 THEN p ELSE q
             new == means[e]
  <2>1. val \in [Nat -> BOOLEAN]
    BY <1>3 DEF Fixes
  <2>2. Follows(val, drivers, drivers)
    BY <1>0, FollowsItself
  <2>3. Respects(val, drivers) => old = new
    <3> HIDE DEF One
    <3>1. Respects(val, drivers) => p = entries[j].means[e] /\ q = entries[k].means[e] /\ s = entries[c].means[e]
      BY <1>1, <1>2, <1>3, <1>b DEF Holds
    <3> HIDE DEF p, q, s
    <3> QED
      BY <3>1
  <2> HIDE DEF a, b, condition
  <2>4. BuildsNumber(val, drivers, g, w, old)
    BY <1>0, <1>1, <1>2, <1>b, <2>1, CombMuxBuilds
  <2> HIDE DEF g, One, old, new
  <2>5. BuildsNumber(val, drivers, g, w, new)
    BY <2>2, <2>3, <2>4, NumberAfter
  <2> QED
    BY <2>5 DEF new
<1> HIDE DEF g
<1>4. BuildsFor(drivers, g, w, means, n)
  BY <1>3 DEF BuildsFor
<1> QED
  BY <1>4 DEF g, a, b, condition

LEMMA ConcatSound ==
  ASSUME NEW n, NEW drivers, NEW entries, SoundFor(drivers, entries, n), NEW j \in DOMAIN entries, NEW k \in DOMAIN entries,
         NEW u, NEW w, NEW total, Sized(entries, j, u), Sized(entries, k, w), Adds(w, u, total),
         NEW means, \A e \in Until(n) : means[e] = (entries[j].means[e] * Pow2[w]) + entries[k].means[e]
  PROVE  BuildsFor(drivers, ConcatGate(drivers, <<entries[j].bits, entries[k].bits>>), total, means, n)
<1> DEFINE a == entries[j].bits
           b == entries[k].bits
           g == ConcatGate(drivers, <<a, b>>)
<1>0. drivers \in Vectors
  BY SoundVector
<1>1. u \in Nat /\ u > 0 /\ a \in Words(u, Len(drivers)) /\ \A val : Holds(val, drivers, entries[j], n, u)
  BY OperandMeans
<1>2. w \in Nat /\ w > 0 /\ b \in Words(w, Len(drivers)) /\ \A val : Holds(val, drivers, entries[k], n, w)
  BY OperandMeans
<1>a. total \in Nat
  BY <1>1, <1>2 DEF Adds
<1>3. ASSUME NEW e \in Until(n), NEW val, Fixes(val, e, n) PROVE BuildsNumber(val, drivers, g, total, means[e])
  <2> DEFINE p == Low(val, a, u)
             q == Low(val, b, w)
             old == (p * Pow2[w]) + q
             new == means[e]
  <2>2. Follows(val, drivers, drivers)
    BY <1>0, FollowsItself
  <2>3. Respects(val, drivers) => old = new
    <3>1. Respects(val, drivers) => p = entries[j].means[e] /\ q = entries[k].means[e]
      BY <1>1, <1>2, <1>3 DEF Holds
    <3> HIDE DEF p, q
    <3> QED
      BY <3>1
  <2> HIDE DEF a, b
  <2>4. BuildsNumber(val, drivers, g, total, old)
    BY <1>0, <1>1, <1>2, <1>a, ConcatBuilds
  <2> HIDE DEF g, old, new
  <2>5. BuildsNumber(val, drivers, g, total, new)
    BY <2>2, <2>3, <2>4, NumberAfter
  <2> QED
    BY <2>5 DEF new
<1> HIDE DEF g
<1>4. BuildsFor(drivers, g, total, means, n)
  BY <1>3 DEF BuildsFor
<1> QED
  BY <1>4 DEF g, a, b

LEMMA ReplicateSound ==
  ASSUME NEW n, NEW drivers, NEW entries, SoundFor(drivers, entries, n), NEW j \in DOMAIN entries,
         NEW w, Sized(entries, j, w), NEW count \in Nat, NEW total, total = count * w,
         NEW means, \A e \in Until(n) : means[e] = Copies(entries[j].means[e], w, count)
  PROVE  BuildsFor(drivers, ReplicateGate(drivers, entries[j].bits, total), total, means, n)
<1> DEFINE a == entries[j].bits
           g == ReplicateGate(drivers, a, total)
<1>0. drivers \in Vectors
  BY SoundVector
<1>1. w \in Nat /\ w > 0 /\ a \in Words(w, Len(drivers)) /\ \A val : Holds(val, drivers, entries[j], n, w)
  BY OperandMeans
<1>3. ASSUME NEW e \in Until(n), NEW val, Fixes(val, e, n) PROVE BuildsNumber(val, drivers, g, total, means[e])
  <2> DEFINE p == Low(val, a, w)
             old == Copies(p, w, count)
             new == means[e]
  <2>2. Follows(val, drivers, drivers)
    BY <1>0, FollowsItself
  <2>3. Respects(val, drivers) => old = new
    <3>1. Respects(val, drivers) => p = entries[j].means[e]
      BY <1>1, <1>3 DEF Holds
    <3> HIDE DEF p
    <3> QED
      BY <3>1
  <2> HIDE DEF a
  <2>4. BuildsNumber(val, drivers, g, total, old)
    BY <1>0, <1>1, ReplicateBuilds
  <2> HIDE DEF g, old, new
  <2>5. BuildsNumber(val, drivers, g, total, new)
    BY <2>2, <2>3, <2>4, NumberAfter
  <2> QED
    BY <2>5 DEF new
<1> HIDE DEF g
<1>4. BuildsFor(drivers, g, total, means, n)
  BY <1>3 DEF BuildsFor
<1> QED
  BY <1>4 DEF g, a

LEMMA ExtractSound ==
  ASSUME NEW n, NEW drivers, NEW entries, SoundFor(drivers, entries, n), NEW j \in DOMAIN entries,
         NEW m, Sized(entries, j, m), NEW w \in Nat, NEW d, Within(d, w, m),
         NEW means, \A e \in Until(n) : means[e] = PartOf(entries[j].means[e], d, w)
  PROVE  BuildsFor(drivers, ExtractGate(drivers, entries[j].bits, d, w), w, means, n)
<1> DEFINE a == entries[j].bits
           g == ExtractGate(drivers, a, d, w)
<1>0. drivers \in Vectors
  BY SoundVector
<1>1. m \in Nat /\ m > 0 /\ a \in Words(m, Len(drivers)) /\ \A val : Holds(val, drivers, entries[j], n, m)
  BY OperandMeans
<1>3. ASSUME NEW e \in Until(n), NEW val, Fixes(val, e, n) PROVE BuildsNumber(val, drivers, g, w, means[e])
  <2> DEFINE p == Low(val, a, m)
             old == PartOf(p, d, w)
             new == means[e]
  <2>2. Follows(val, drivers, drivers)
    BY <1>0, FollowsItself
  <2>3. Respects(val, drivers) => old = new
    <3>1. Respects(val, drivers) => p = entries[j].means[e]
      BY <1>1, <1>3 DEF Holds
    <3> HIDE DEF p
    <3> QED
      BY <3>1
  <2> HIDE DEF a
  <2>4. BuildsNumber(val, drivers, g, w, old)
    BY <1>0, <1>1, ExtractBuilds
  <2> HIDE DEF g, old, new
  <2>5. BuildsNumber(val, drivers, g, w, new)
    BY <2>2, <2>3, <2>4, NumberAfter
  <2> QED
    BY <2>5 DEF new
<1> HIDE DEF g
<1>4. BuildsFor(drivers, g, w, means, n)
  BY <1>3 DEF BuildsFor
<1> QED
  BY <1>4 DEF g, a

LEMMA RotationSound ==
  ASSUME NEW n, NEW drivers, NEW entries, SoundFor(drivers, entries, n), NEW j \in DOMAIN entries, NEW k \in DOMAIN entries,
         NEW w, NEW u, Sized(entries, j, w), Sized(entries, k, u), NEW operation \in Rotations,
         NEW means, \A e \in Until(n) : means[e] = RotatedLeft(entries[j].means[e], Turned(operation, entries[k].means[e]), w)
  PROVE  BuildsFor(drivers, Shifter(drivers, entries[j].bits, entries[k].bits, operation), w, means, n)
<1> DEFINE a == entries[j].bits
           b == entries[k].bits
           g == Shifter(drivers, a, b, operation)
<1>0. drivers \in Vectors
  BY SoundVector
<1>1. w \in Nat /\ w > 0 /\ a \in Words(w, Len(drivers)) /\ \A val : Holds(val, drivers, entries[j], n, w)
  BY OperandMeans
<1>2. u \in Nat /\ u > 0 /\ b \in Words(u, Len(drivers)) /\ \A val : Holds(val, drivers, entries[k], n, u)
  BY OperandMeans
<1>3. ASSUME NEW e \in Until(n), NEW val, Fixes(val, e, n) PROVE BuildsNumber(val, drivers, g, w, means[e])
  <2> DEFINE p == Low(val, a, w)
             q == Low(val, b, u)
             old == RotatedLeft(p, Turned(operation, q), w)
             new == means[e]
  <2>1. val \in [Nat -> BOOLEAN]
    BY <1>3 DEF Fixes
  <2>2. Follows(val, drivers, drivers)
    BY <1>0, FollowsItself
  <2>3. Respects(val, drivers) => old = new
    <3>1. Respects(val, drivers) => p = entries[j].means[e] /\ q = entries[k].means[e]
      BY <1>1, <1>2, <1>3 DEF Holds
    <3> HIDE DEF p, q
    <3> QED
      BY <3>1
  <2> HIDE DEF a, b
  <2>4. BuildsNumber(val, drivers, g, w, old)
    BY <1>0, <1>1, <1>2, <2>1, RotationBuilds
  <2> HIDE DEF g, old, new
  <2>5. BuildsNumber(val, drivers, g, w, new)
    BY <2>2, <2>3, <2>4, NumberAfter
  <2> QED
    BY <2>5 DEF new
<1> HIDE DEF g
<1>4. BuildsFor(drivers, g, w, means, n)
  BY <1>3 DEF BuildsFor
<1> QED
  BY <1>4 DEF g, a, b

LEMMA SelectSound ==
  ASSUME NEW n, NEW drivers, NEW entries, SoundFor(drivers, entries, n), NEW j \in DOMAIN entries, NEW k \in DOMAIN entries,
         NEW w, NEW u, Sized(entries, j, w), Sized(entries, k, u), w = Pow2[u],
         NEW means, \A e \in Until(n) : means[e] = PartOf(entries[j].means[e], entries[k].means[e], 1)
  PROVE  BuildsFor(drivers, Selected(Select(drivers, entries[j].bits, entries[k].bits)), 1, means, n)
<1> DEFINE a == entries[j].bits
           b == entries[k].bits
           g == Selected(Select(drivers, a, b))
           One == 1
<1>0. drivers \in Vectors
  BY SoundVector
<1>1. w \in Nat /\ w > 0 /\ a \in Words(w, Len(drivers)) /\ \A val : Holds(val, drivers, entries[j], n, w)
  BY OperandMeans
<1>2. u \in Nat /\ u > 0 /\ b \in Words(u, Len(drivers)) /\ \A val : Holds(val, drivers, entries[k], n, u)
  BY OperandMeans
<1>3. ASSUME NEW e \in Until(n), NEW val, Fixes(val, e, n) PROVE BuildsNumber(val, drivers, g, One, means[e])
  <2> DEFINE p == Low(val, a, w)
             q == Low(val, b, u)
             old == PartOf(p, q, 1)
             new == means[e]
  <2>1. val \in [Nat -> BOOLEAN]
    BY <1>3 DEF Fixes
  <2>2. Follows(val, drivers, drivers)
    BY <1>0, FollowsItself
  <2>3. Respects(val, drivers) => old = new
    <3>1. Respects(val, drivers) => p = entries[j].means[e] /\ q = entries[k].means[e]
      BY <1>1, <1>2, <1>3 DEF Holds
    <3> HIDE DEF p, q
    <3> QED
      BY <3>1
  <2> HIDE DEF a, b
  <2>4. BuildsNumber(val, drivers, g, One, old)
    BY <1>0, <1>1, <1>2, <2>1, SelectWordBuilds DEF One
  <2> HIDE DEF g, old, new, One
  <2>5. BuildsNumber(val, drivers, g, One, new)
    BY <2>2, <2>3, <2>4, NumberAfter
  <2> QED
    BY <2>5 DEF new
<1> HIDE DEF g
<1>4. BuildsFor(drivers, g, 1, means, n)
  BY <1>3 DEF BuildsFor
<1> QED
  BY <1>4 DEF g, a, b

(* A word that has the values any.                                          *)
SpareFor(drivers, undefined, w, any, n) ==
  /\ undefined \in Words(w, Len(drivers))
  /\ \A e \in Until(n) : \A val : Fixes(val, e, n) => any[e] = Low(val, undefined, w)
LEMMA ArrayGetSound ==
  ASSUME NEW n, NEW drivers, NEW entries, SoundFor(drivers, entries, n), NEW j \in DOMAIN entries, NEW k \in DOMAIN entries,
         NEW m, NEW u, Sized(entries, j, m), Sized(entries, k, u), NEW size, Indexes(u, size), NEW w \in Nat, Slots(m, size, w),
         NEW undefined, NEW any, NeedsUndefined("ArrayGet", size) => SpareFor(drivers, undefined, w, any, n),
         NEW means, \A e \in Until(n) : means[e] =
           IF entries[k].means[e] < size THEN PartOf(entries[j].means[e], w * entries[k].means[e], w) ELSE any[e]
  PROVE  BuildsFor(drivers, ArrayGet(drivers, entries[j].bits, entries[k].bits, size, undefined), w, means, n)
<1> DEFINE a == entries[j].bits
           b == entries[k].bits
           g == ArrayGet(drivers, a, b, size, undefined)
<1>0. drivers \in Vectors
  BY SoundVector
<1>1. m \in Nat /\ m > 0 /\ a \in Words(m, Len(drivers)) /\ \A val : Holds(val, drivers, entries[j], n, m)
  BY OperandMeans
<1>2. u \in Nat /\ u > 0 /\ b \in Words(u, Len(drivers)) /\ \A val : Holds(val, drivers, entries[k], n, u)
  BY OperandMeans
<1>3. ASSUME NEW e \in Until(n), NEW val, Fixes(val, e, n) PROVE BuildsNumber(val, drivers, g, w, means[e])
  <2> DEFINE p == Low(val, a, m)
             q == Low(val, b, u)
             x == any[e]
             old == IF q < size THEN PartOf(p, w * q, w) ELSE x
             new == means[e]
  <2>1. val \in [Nat -> BOOLEAN]
    BY <1>3 DEF Fixes
  <2>2. Follows(val, drivers, drivers)
    BY <1>0, FollowsItself
  <2>3. Respects(val, drivers) => old = new
    <3>1. Respects(val, drivers) => p = entries[j].means[e] /\ q = entries[k].means[e]
      BY <1>1, <1>2, <1>3 DEF Holds
    <3> HIDE DEF p, q
    <3> QED
      BY <3>1
  <2> HIDE DEF a, b, x
  <2>a. NeedsUndefined("ArrayGet", size) => Spare(val, drivers, undefined, w, x)
    BY <1>3 DEF Spare, SpareFor, x
  <2>4. BuildsNumber(val, drivers, g, w, old)
    BY <1>0, <1>1, <1>2, <2>1, <2>a, ArrayGetBuilds
  <2> HIDE DEF g, old, new
  <2>5. BuildsNumber(val, drivers, g, w, new)
    BY <2>2, <2>3, <2>4, NumberAfter
  <2> QED
    BY <2>5 DEF new
<1> HIDE DEF g
<1>4. BuildsFor(drivers, g, w, means, n)
  BY <1>3 DEF BuildsFor
<1> QED
  BY <1>4 DEF g, a, b

LEMMA ArrayInjectSound ==
  ASSUME NEW n, NEW drivers, NEW entries, SoundFor(drivers, entries, n), NEW j \in DOMAIN entries, NEW k \in DOMAIN entries,
         NEW v \in DOMAIN entries, NEW m, NEW u, NEW w, Sized(entries, j, m), Sized(entries, k, u), Sized(entries, v, w),
         NEW size, Indexes(u, size), Slots(m, size, w),
         NEW undefined, NEW any, NeedsUndefined("ArrayInject", size) => SpareFor(drivers, undefined, m, any, n),
         NEW means, \A e \in Until(n) : means[e] =
           IF entries[k].means[e] < size
           THEN WithPart(entries[j].means[e], w * entries[k].means[e], w, entries[v].means[e]) ELSE any[e]
  PROVE  BuildsFor(drivers, ArrayInject(drivers, entries[j].bits, entries[k].bits, entries[v].bits, size, undefined), m, means, n)
<1> DEFINE a == entries[j].bits
           b == entries[k].bits
           value == entries[v].bits
           g == ArrayInject(drivers, a, b, value, size, undefined)
<1>0. drivers \in Vectors
  BY SoundVector
<1>1. m \in Nat /\ m > 0 /\ a \in Words(m, Len(drivers)) /\ \A val : Holds(val, drivers, entries[j], n, m)
  BY OperandMeans
<1>2. u \in Nat /\ u > 0 /\ b \in Words(u, Len(drivers)) /\ \A val : Holds(val, drivers, entries[k], n, u)
  BY OperandMeans
<1>b. w \in Nat /\ w > 0 /\ value \in Words(w, Len(drivers)) /\ \A val : Holds(val, drivers, entries[v], n, w)
  BY OperandMeans
<1>3. ASSUME NEW e \in Until(n), NEW val, Fixes(val, e, n) PROVE BuildsNumber(val, drivers, g, m, means[e])
  <2> DEFINE p == Low(val, a, m)
             q == Low(val, b, u)
             s == Low(val, value, w)
             x == any[e]
             old == IF q < size THEN WithPart(p, w * q, w, s) ELSE x
             new == means[e]
  <2>1. val \in [Nat -> BOOLEAN]
    BY <1>3 DEF Fixes
  <2>2. Follows(val, drivers, drivers)
    BY <1>0, FollowsItself
  <2>3. Respects(val, drivers) => old = new
    <3>1. Respects(val, drivers) => p = entries[j].means[e] /\ q = entries[k].means[e] /\ s = entries[v].means[e]
      BY <1>1, <1>2, <1>3, <1>b DEF Holds
    <3> HIDE DEF p, q, s
    <3> QED
      BY <3>1
  <2> HIDE DEF a, b, value, x
  <2>a. NeedsUndefined("ArrayInject", size) => Spare(val, drivers, undefined, m, x)
    BY <1>3 DEF Spare, SpareFor, x
  <2>4. BuildsNumber(val, drivers, g, m, old)
    BY <1>0, <1>1, <1>2, <1>b, <2>1, <2>a, ArrayInjectBuilds
  <2> HIDE DEF g, old, new
  <2>5. BuildsNumber(val, drivers, g, m, new)
    BY <2>2, <2>3, <2>4, NumberAfter
  <2> QED
    BY <2>5 DEF new
<1> HIDE DEF g
<1>4. BuildsFor(drivers, g, m, means, n)
  BY <1>3 DEF BuildsFor
<1> QED
  BY <1>4 DEF g, a, b, value

(* The operands of a comb operator.                                         *)
Picks(chosen, entries, r, w) ==
  /\ \E S : chosen \in Seq(S)
  /\ Len(chosen) = r + 1
  /\ \A i \in 0 .. r : chosen[i + 1] \in DOMAIN entries /\ Sized(entries, chosen[i + 1], w)
BitsOf(entries, chosen) == [i \in DOMAIN chosen |-> entries[chosen[i]].bits]
NumbersOf(entries, chosen, e) == [i \in DOMAIN chosen |-> entries[chosen[i]].means[e]]
Lows(val, entries, chosen, w) == [i \in DOMAIN chosen |-> Low(val, entries[chosen[i]].bits, w)]

(* The operands of a variadic gate.                                         *)
LEMMA PickedWords ==
  ASSUME NEW n, NEW drivers, NEW entries, SoundFor(drivers, entries, n), NEW r \in Nat, NEW w, NEW chosen, Picks(chosen, entries, r, w)
  PROVE  /\ DOMAIN chosen = 1 .. r + 1 /\ w \in Nat /\ w > 0
         /\ Long(BitsOf(entries, chosen), r + 1)
         /\ \A val : Long(Lows(val, entries, chosen, w), r + 1)
         /\ \A i \in 0 .. r : /\ i + 1 \in DOMAIN chosen
                              /\ BitsOf(entries, chosen)[i + 1] \in Words(w, Len(drivers))
                              /\ \A val : Lows(val, entries, chosen, w)[i + 1] = Low(val, BitsOf(entries, chosen)[i + 1], w)
         /\ \A e \in Until(n) : \A val : Fixes(val, e, n) /\ Respects(val, drivers) =>
              Lows(val, entries, chosen, w) = NumbersOf(entries, chosen, e)
<1>1. DOMAIN chosen = 1 .. r + 1
  BY DEF Picks
<1>2. ASSUME NEW i \in 1 .. r + 1
      PROVE  /\ w \in Nat /\ w > 0 /\ entries[chosen[i]].bits \in Words(w, Len(drivers))
             /\ \A val : Holds(val, drivers, entries[chosen[i]], n, w)
  <2> DEFINE k == chosen[i]
             h == i - 1
  <2>1. h \in 0 .. r /\ h + 1 = i
    OBVIOUS
  <2>2. k \in DOMAIN entries /\ Sized(entries, k, w)
    <3> HIDE DEF h, k
    <3>1. chosen[h + 1] = k
      BY <2>1 DEF k
    <3> QED
      BY <2>1, <3>1 DEF Picks
  <2> HIDE DEF k
  <2>3. /\ w \in Nat /\ w > 0 /\ entries[k].bits \in Words(w, Len(drivers))
        /\ \A val : Holds(val, drivers, entries[k], n, w)
    BY <2>2, OperandMeans
  <2> QED
    BY <2>3 DEF k
<1>3. w \in Nat /\ w > 0
  <2>1. 1 \in 1 .. r + 1
    OBVIOUS
  <2> QED
    BY <1>2, <2>1
<1>4. BitsOf(entries, chosen) = [i \in 1 .. r + 1 |-> entries[chosen[i]].bits]
  BY <1>1 DEF BitsOf
<1>5. \A val : Lows(val, entries, chosen, w) = [i \in 1 .. r + 1 |-> Low(val, entries[chosen[i]].bits, w)]
  BY <1>1 DEF Lows
<1>6. \A e : NumbersOf(entries, chosen, e) = [i \in 1 .. r + 1 |-> entries[chosen[i]].means[e]]
  BY <1>1 DEF NumbersOf
<1>7. Long(BitsOf(entries, chosen), r + 1)
  <2> DEFINE b == [i \in 1 .. r + 1 |-> entries[chosen[i]].bits]
             S == {entries[chosen[i]].bits : i \in 1 .. r + 1}
  <2>1. b \in Seq(S) /\ Len(b) = r + 1
    OBVIOUS
  <2> QED
    BY <1>4, <2>1 DEF Long
<1>8. ASSUME NEW val PROVE Long(Lows(val, entries, chosen, w), r + 1)
  <2> DEFINE b == [i \in 1 .. r + 1 |-> Low(val, entries[chosen[i]].bits, w)]
             S == {Low(val, entries[chosen[i]].bits, w) : i \in 1 .. r + 1}
  <2>1. b \in Seq(S) /\ Len(b) = r + 1
    OBVIOUS
  <2> QED
    BY <1>5, <2>1 DEF Long
<1>9. ASSUME NEW i \in 0 .. r
      PROVE  /\ i + 1 \in DOMAIN chosen
             /\ BitsOf(entries, chosen)[i + 1] \in Words(w, Len(drivers))
             /\ \A val : Lows(val, entries, chosen, w)[i + 1] = Low(val, BitsOf(entries, chosen)[i + 1], w)
  <2> DEFINE k == i + 1
  <2>1. k \in 1 .. r + 1
    OBVIOUS
  <2> HIDE DEF k
  <2>2. BitsOf(entries, chosen)[k] = entries[chosen[k]].bits
    BY <1>4, <2>1
  <2>3. \A val : Lows(val, entries, chosen, w)[k] = Low(val, entries[chosen[k]].bits, w)
    BY <1>5, <2>1
  <2>4. k \in DOMAIN chosen /\ BitsOf(entries, chosen)[k] \in Words(w, Len(drivers))
    BY <1>1, <1>2, <2>1, <2>2
  <2> QED
    BY <2>2, <2>3, <2>4 DEF k
<1>10. ASSUME NEW e \in Until(n), NEW val, Fixes(val, e, n) /\ Respects(val, drivers)
       PROVE  Lows(val, entries, chosen, w) = NumbersOf(entries, chosen, e)
  <2>1. \A i \in 1 .. r + 1 : Low(val, entries[chosen[i]].bits, w) = entries[chosen[i]].means[e]
    BY <1>2, <1>10 DEF Holds
  <2>2. [i \in 1 .. r + 1 |-> Low(val, entries[chosen[i]].bits, w)] = [i \in 1 .. r + 1 |-> entries[chosen[i]].means[e]]
    BY <2>1
  <2> QED
    BY <1>5, <1>6, <2>2
<1> QED
  BY <1>1, <1>3, <1>7, <1>8, <1>9, <1>10

LEMMA CombSound ==
  ASSUME NEW n, NEW drivers, NEW entries, SoundFor(drivers, entries, n), NEW r \in Nat, NEW w, NEW chosen, Picks(chosen, entries, r, w),
         NEW operator \in CombOperators, operator \in Divisions => r = 1, NEW undefined, NEW any,
         \A e \in Until(n) : any[e] \in 0 .. Pow2[w] - 1,
         operator \in Divisions => SpareFor(drivers, undefined, w, any, n),
         NEW means, \A e \in Until(n) : means[e] = CombMeans(operator, NumbersOf(entries, chosen, e), w, any[e])
  PROVE  BuildsFor(drivers, CombGate(drivers, operator, BitsOf(entries, chosen), undefined), w, means, n)
<1> DEFINE a == BitsOf(entries, chosen)
           g == CombGate(drivers, operator, a, undefined)
<1>0. drivers \in Vectors
  BY SoundVector
<1>1. /\ w \in Nat /\ w > 0
      /\ Long(a, r + 1)
      /\ \A val : Long(Lows(val, entries, chosen, w), r + 1)
      /\ \A i \in 0 .. r : /\ a[i + 1] \in Words(w, Len(drivers))
                           /\ \A val : Lows(val, entries, chosen, w)[i + 1] = Low(val, a[i + 1], w)
  BY PickedWords
<1>2. \A e \in Until(n) : \A val : Fixes(val, e, n) /\ Respects(val, drivers) =>
              Lows(val, entries, chosen, w) = NumbersOf(entries, chosen, e)
  BY PickedWords
<1> HIDE DEF a
<1>3. ASSUME NEW e \in Until(n), NEW val, Fixes(val, e, n) PROVE BuildsNumber(val, drivers, g, w, means[e])
  <2> DEFINE p == Lows(val, entries, chosen, w)
             x == any[e]
             old == CombMeans(operator, p, w, x)
             new == means[e]
  <2>1. val \in [Nat -> BOOLEAN]
    BY <1>3 DEF Fixes
  <2>2. Follows(val, drivers, drivers)
    BY <1>0, FollowsItself
  <2>3. Respects(val, drivers) => old = new
    <3>1. Respects(val, drivers) => p = NumbersOf(entries, chosen, e)
      BY <1>2, <1>3
    <3> HIDE DEF p
    <3> QED
      BY <3>1
  <2>4. Len(p) = r + 1 /\ \A i \in 0 .. r : p[i + 1] = Low(val, a[i + 1], w)
    BY <1>1 DEF Long
  <2>5. OperandWords(val, a, r, w, Len(drivers))
    BY <1>1 DEF OperandWords, Long
  <2> HIDE DEF p, x
  <2>6. x \in 0 .. Pow2[w] - 1 /\ (operator \in Divisions => undefined \in Words(w, Len(drivers)) /\ x = Low(val, undefined, w))
    BY <1>3 DEF SpareFor, x
  <2>7. BuildsNumber(val, drivers, g, w, old)
    BY <1>0, <1>1, <2>1, <2>4, <2>5, <2>6, CombGateBuilds
  <2> HIDE DEF g, old, new
  <2>8. BuildsNumber(val, drivers, g, w, new)
    BY <2>2, <2>3, <2>7, NumberAfter
  <2> QED
    BY <2>8 DEF new
<1> HIDE DEF g
<1>4. BuildsFor(drivers, g, w, means, n)
  BY <1>3 DEF BuildsFor
<1> QED
  BY <1>4 DEF g, a

(* The first w of the undefined inputs.                                     *)
LEMMA UndefinedSpares ==
  ASSUME NEW n, NEW drivers, NEW entries, SoundFor(drivers, entries, n), NEW undefined \in Seq(Values(n)), NEW w \in Nat,
         w <= Len(undefined), NEW word, word = SubSeq(undefined, 1, w),
         NEW any, \A e \in Until(n) : any[e] = Number(InputValue(word, e))
  PROVE  SpareFor(drivers, word, w, any, n)
<1>0. drivers \in Vectors /\ Len(drivers) \in Nat /\ n \in Nat /\ n <= Len(drivers)
  BY SoundVector
<1>1. word \in Words(w, n)
  <2> DEFINE V == Values(n)
  <2> HIDE DEF V
  <2>1. undefined \in Seq(V)
    BY DEF V
  <2>2. word = [i \in 1 .. w |-> undefined[i]]
    BY <2>1
  <2>3. \A i \in 1 .. w : undefined[i] \in V
    BY <2>1
  <2>4. word \in [1 .. w -> V]
    BY <2>2, <2>3
  <2> QED
    BY <2>4 DEF V, Words
<1>2. word \in Words(w, Len(drivers))
  <2>1. Values(n) \subseteq Values(Len(drivers))
    BY <1>0, ValuesAre
  <2> QED
    BY <1>1, <2>1 DEF Words
<1>3. \A e \in Until(n) : \A val : Fixes(val, e, n) => any[e] = Low(val, word, w)
  BY <1>0, <1>1, InputMeans
<1> QED
  BY <1>2, <1>3 DEF SpareFor

LEMMA UndefinedBounded ==
  ASSUME NEW undefined, NEW w \in Nat, NEW e, NEW m, m = Number(InputValue(SubSeq(undefined, 1, w), e))
  PROVE  m \in 0 .. Pow2[w] - 1
<1> DEFINE word == SubSeq(undefined, 1, w)
           b == InputValue(word, e)
<1>1. word = [i \in 1 .. w |-> undefined[i]]
  OBVIOUS
<1>2. DOMAIN word = 1 .. w
  BY <1>1
<1> HIDE DEF word
<1>3. b = [k \in 1 .. w |-> word[k].sign = (word[k].index = NoVar \/ BitOf(e, word[k].index))]
  BY <1>2 DEF InputValue
<1> HIDE DEF b
<1>4. b \in [1 .. w -> BOOLEAN]
  BY <1>3
<1>5. Long(b, w)
  BY <1>4 DEF Long
<1>6. Number(b) \in 0 .. Pow2[w] - 1
  BY <1>5, NumberBounded
<1> QED
  BY <1>6 DEF b, word


(* Each expression of the Verilator path, over words that mean something.   *)
LEMMA UnarySound ==
  ASSUME NEW n, NEW drivers, NEW entries, SoundFor(drivers, entries, n), NEW k \in DOMAIN entries,
         NEW w, Sized(entries, k, w),
         NEW u \in Nat, w <= u, NEW operator \in UnaryOperators \cup Extensions,
         NEW means, \A e \in Until(n) : means[e] = UnaryMeans(operator, entries[k].means[e], w, u)
  PROVE  BuildsFor(drivers, UnaryGates(drivers, operator, entries[k].bits, u), UnaryWidth(operator, w, u), means, n)
<1> DEFINE x == entries[k].bits
           g == UnaryGates(drivers, operator, x, u)
           out == UnaryWidth(operator, w, u)
<1>0. drivers \in Vectors
  BY SoundVector
<1>a. w \in Nat /\ w > 0 /\ x \in Words(w, Len(drivers)) /\ \A val : Holds(val, drivers, entries[k], n, w)
  BY OperandMeans
<1>3. ASSUME NEW e \in Until(n), NEW val, Fixes(val, e, n) PROVE BuildsNumber(val, drivers, g, out, means[e])
  <2> DEFINE p == Low(val, x, w)
             old == UnaryMeans(operator, p, w, u)
             new == means[e]
  <2>1. val \in [Nat -> BOOLEAN]
    BY <1>3 DEF Fixes
  <2>2. Follows(val, drivers, drivers)
    BY <1>0, FollowsItself
  <2>3. Respects(val, drivers) => old = new
    <3>1. Respects(val, drivers) => p = entries[k].means[e]
      BY <1>a, <1>3 DEF Holds
    <3> HIDE DEF p
    <3> QED
      BY <3>1
  <2> HIDE DEF x
  <2>4. BuildsNumber(val, drivers, g, out, old)
    BY <1>0, <1>a, <2>1, UnaryBuilds
  <2> HIDE DEF g, out, old, new
  <2>5. BuildsNumber(val, drivers, g, out, new)
    BY <2>2, <2>3, <2>4, NumberAfter
  <2> QED
    BY <2>5 DEF new
<1> HIDE DEF g, out
<1>4. BuildsFor(drivers, g, out, means, n)
  BY <1>3 DEF BuildsFor
<1> QED
  BY <1>4 DEF g, out, x

(* For every assignment, what each expression of the Verilator front end builds.  *)
LEMMA BinarySound ==
  ASSUME NEW n, NEW drivers, NEW entries, SoundFor(drivers, entries, n), NEW j \in DOMAIN entries, NEW k \in DOMAIN entries,
         NEW m, Sized(entries, j, m), NEW q, Sized(entries, k, q),
         NEW w \in Nat, w > 0, NEW operator \in BinaryOperators, operator \in Shifts => w > 1, NEW signed \in BOOLEAN,
         NEW means, \A e \in Until(n) : means[e] = BinaryMeans(operator, entries[j].means[e], m, entries[k].means[e], q, w, signed)
  PROVE  BuildsFor(drivers, BinaryGates(drivers, operator, entries[j].bits, entries[k].bits, w, signed), BinaryWidth(operator, m, q, w), means, n)
<1> DEFINE a == entries[j].bits
           b == entries[k].bits
           g == BinaryGates(drivers, operator, a, b, w, signed)
           out == BinaryWidth(operator, m, q, w)
<1>0. drivers \in Vectors
  BY SoundVector
<1>a. m \in Nat /\ m > 0 /\ a \in Words(m, Len(drivers)) /\ \A val : Holds(val, drivers, entries[j], n, m)
  BY OperandMeans
<1>b. q \in Nat /\ q > 0 /\ b \in Words(q, Len(drivers)) /\ \A val : Holds(val, drivers, entries[k], n, q)
  BY OperandMeans
<1>3. ASSUME NEW e \in Until(n), NEW val, Fixes(val, e, n) PROVE BuildsNumber(val, drivers, g, out, means[e])
  <2> DEFINE p == Low(val, a, m)
             r == Low(val, b, q)
             old == BinaryMeans(operator, p, m, r, q, w, signed)
             new == means[e]
  <2>1. val \in [Nat -> BOOLEAN]
    BY <1>3 DEF Fixes
  <2>2. Follows(val, drivers, drivers)
    BY <1>0, FollowsItself
  <2>3. Respects(val, drivers) => old = new
    <3>1. Respects(val, drivers) => p = entries[j].means[e] /\ r = entries[k].means[e]
      BY <1>a, <1>b, <1>3 DEF Holds
    <3> HIDE DEF p, r
    <3> QED
      BY <3>1
  <2> HIDE DEF a, b
  <2>4. BuildsNumber(val, drivers, g, out, old)
    BY <1>0, <1>a, <1>b, <2>1, BinaryBuilds
  <2> HIDE DEF g, out, old, new
  <2>5. BuildsNumber(val, drivers, g, out, new)
    BY <2>2, <2>3, <2>4, NumberAfter
  <2> QED
    BY <2>5 DEF new
<1> HIDE DEF g, out
<1>4. BuildsFor(drivers, g, out, means, n)
  BY <1>3 DEF BuildsFor
<1> QED
  BY <1>4 DEF g, out, a, b

LEMMA ConditionalSound ==
  ASSUME NEW n, NEW drivers, NEW entries, SoundFor(drivers, entries, n), NEW c \in DOMAIN entries, NEW j \in DOMAIN entries, NEW k \in DOMAIN entries,
         NEW t, Sized(entries, c, t), NEW m, Sized(entries, j, m), NEW q, Sized(entries, k, q),
         NEW w \in Nat,
         NEW means, \A e \in Until(n) : means[e] = Wrap(IF entries[c].means[e] # 0 THEN entries[j].means[e] ELSE entries[k].means[e], w)
  PROVE  BuildsFor(drivers, ConditionalGates(drivers, entries[c].bits, entries[j].bits, entries[k].bits, w), w, means, n)
<1> DEFINE s == entries[c].bits
           a == entries[j].bits
           b == entries[k].bits
           g == ConditionalGates(drivers, s, a, b, w)
           out == w
<1>0. drivers \in Vectors
  BY SoundVector
<1>a. t \in Nat /\ t > 0 /\ s \in Words(t, Len(drivers)) /\ \A val : Holds(val, drivers, entries[c], n, t)
  BY OperandMeans
<1>b. m \in Nat /\ m > 0 /\ a \in Words(m, Len(drivers)) /\ \A val : Holds(val, drivers, entries[j], n, m)
  BY OperandMeans
<1>c. q \in Nat /\ q > 0 /\ b \in Words(q, Len(drivers)) /\ \A val : Holds(val, drivers, entries[k], n, q)
  BY OperandMeans
<1>3. ASSUME NEW e \in Until(n), NEW val, Fixes(val, e, n) PROVE BuildsNumber(val, drivers, g, out, means[e])
  <2> DEFINE o == Low(val, s, t)
             p == Low(val, a, m)
             r == Low(val, b, q)
             old == Wrap(IF o # 0 THEN p ELSE r, w)
             new == means[e]
  <2>1. val \in [Nat -> BOOLEAN]
    BY <1>3 DEF Fixes
  <2>2. Follows(val, drivers, drivers)
    BY <1>0, FollowsItself
  <2>3. Respects(val, drivers) => old = new
    <3>1. Respects(val, drivers) => o = entries[c].means[e] /\ p = entries[j].means[e] /\ r = entries[k].means[e]
      BY <1>a, <1>b, <1>c, <1>3 DEF Holds
    <3> HIDE DEF o, p, r
    <3> QED
      BY <3>1
  <2> HIDE DEF s, a, b
  <2>4. BuildsNumber(val, drivers, g, out, old)
    BY <1>0, <1>a, <1>b, <1>c, <2>1, ConditionalBuilds
  <2> HIDE DEF g, out, old, new
  <2>5. BuildsNumber(val, drivers, g, out, new)
    BY <2>2, <2>3, <2>4, NumberAfter
  <2> QED
    BY <2>5 DEF new
<1> HIDE DEF g, out
<1>4. BuildsFor(drivers, g, out, means, n)
  BY <1>3 DEF BuildsFor
<1> QED
  BY <1>4 DEF g, out, s, a, b

LEMMA CopiesSound ==
  ASSUME NEW n, NEW drivers, NEW entries, SoundFor(drivers, entries, n), NEW k \in DOMAIN entries,
         NEW w, Sized(entries, k, w),
         NEW count \in Nat, NEW l, l = count * w,
         NEW means, \A e \in Until(n) : means[e] = Copies(entries[k].means[e], w, count)
  PROVE  BuildsFor(drivers, ReplicateGates(drivers, entries[k].bits, count), l, means, n)
<1> DEFINE x == entries[k].bits
           g == ReplicateGates(drivers, x, count)
           out == l
<1>0. drivers \in Vectors
  BY SoundVector
<1>a. w \in Nat /\ w > 0 /\ x \in Words(w, Len(drivers)) /\ \A val : Holds(val, drivers, entries[k], n, w)
  BY OperandMeans
<1>3. ASSUME NEW e \in Until(n), NEW val, Fixes(val, e, n) PROVE BuildsNumber(val, drivers, g, out, means[e])
  <2> DEFINE p == Low(val, x, w)
             old == Copies(p, w, count)
             new == means[e]
  <2>1. val \in [Nat -> BOOLEAN]
    BY <1>3 DEF Fixes
  <2>2. Follows(val, drivers, drivers)
    BY <1>0, FollowsItself
  <2>3. Respects(val, drivers) => old = new
    <3>1. Respects(val, drivers) => p = entries[k].means[e]
      BY <1>a, <1>3 DEF Holds
    <3> HIDE DEF p
    <3> QED
      BY <3>1
  <2> HIDE DEF x
  <2>4. BuildsNumber(val, drivers, g, out, old)
    BY <1>0, <1>a, <2>1, CopiesBuilds
  <2> HIDE DEF g, out, old, new
  <2>5. BuildsNumber(val, drivers, g, out, new)
    BY <2>2, <2>3, <2>4, NumberAfter
  <2> QED
    BY <2>5 DEF new
<1> HIDE DEF g, out
<1>4. BuildsFor(drivers, g, out, means, n)
  BY <1>3 DEF BuildsFor
<1> QED
  BY <1>4 DEF g, out, x

LEMMA SelectPartSound ==
  ASSUME NEW n, NEW drivers, NEW entries, SoundFor(drivers, entries, n), NEW j \in DOMAIN entries, NEW k \in DOMAIN entries,
         NEW m, Sized(entries, j, m), NEW q, Sized(entries, k, q),
         NEW w \in Nat,
         NEW means, \A e \in Until(n) : means[e] = PartOf(entries[j].means[e], entries[k].means[e], w)
  PROVE  BuildsFor(drivers, SelectGates(drivers, entries[j].bits, entries[k].bits, w), w, means, n)
<1> DEFINE a == entries[j].bits
           b == entries[k].bits
           g == SelectGates(drivers, a, b, w)
           out == w
<1>0. drivers \in Vectors
  BY SoundVector
<1>a. m \in Nat /\ m > 0 /\ a \in Words(m, Len(drivers)) /\ \A val : Holds(val, drivers, entries[j], n, m)
  BY OperandMeans
<1>b. q \in Nat /\ q > 0 /\ b \in Words(q, Len(drivers)) /\ \A val : Holds(val, drivers, entries[k], n, q)
  BY OperandMeans
<1>3. ASSUME NEW e \in Until(n), NEW val, Fixes(val, e, n) PROVE BuildsNumber(val, drivers, g, out, means[e])
  <2> DEFINE p == Low(val, a, m)
             r == Low(val, b, q)
             old == PartOf(p, r, w)
             new == means[e]
  <2>1. val \in [Nat -> BOOLEAN]
    BY <1>3 DEF Fixes
  <2>2. Follows(val, drivers, drivers)
    BY <1>0, FollowsItself
  <2>3. Respects(val, drivers) => old = new
    <3>1. Respects(val, drivers) => p = entries[j].means[e] /\ r = entries[k].means[e]
      BY <1>a, <1>b, <1>3 DEF Holds
    <3> HIDE DEF p, r
    <3> QED
      BY <3>1
  <2> HIDE DEF a, b
  <2>4. BuildsNumber(val, drivers, g, out, old)
    BY <1>0, <1>a, <1>b, <2>1, SelectGatesBuilds
  <2> HIDE DEF g, out, old, new
  <2>5. BuildsNumber(val, drivers, g, out, new)
    BY <2>2, <2>3, <2>4, NumberAfter
  <2> QED
    BY <2>5 DEF new
<1> HIDE DEF g, out
<1>4. BuildsFor(drivers, g, out, means, n)
  BY <1>3 DEF BuildsFor
<1> QED
  BY <1>4 DEF g, out, a, b

LEMMA LiteralSelectSound ==
  ASSUME NEW n, NEW drivers, NEW entries, SoundFor(drivers, entries, n), NEW j \in DOMAIN entries,
         NEW m, Sized(entries, j, m),
         NEW w \in Nat, NEW at, Within(at, w, m),
         NEW means, \A e \in Until(n) : means[e] = PartOf(entries[j].means[e], at, w)
  PROVE  BuildsFor(drivers, Built(drivers, SelectLiteral(entries[j].bits, at, w)), w, means, n)
<1> DEFINE a == entries[j].bits
           g == Built(drivers, SelectLiteral(a, at, w))
           out == w
<1>0. drivers \in Vectors
  BY SoundVector
<1>a. m \in Nat /\ m > 0 /\ a \in Words(m, Len(drivers)) /\ \A val : Holds(val, drivers, entries[j], n, m)
  BY OperandMeans
<1>3. ASSUME NEW e \in Until(n), NEW val, Fixes(val, e, n) PROVE BuildsNumber(val, drivers, g, out, means[e])
  <2> DEFINE p == Low(val, a, m)
             old == PartOf(p, at, w)
             new == means[e]
  <2>1. val \in [Nat -> BOOLEAN]
    BY <1>3 DEF Fixes
  <2>2. Follows(val, drivers, drivers)
    BY <1>0, FollowsItself
  <2>3. Respects(val, drivers) => old = new
    <3>1. Respects(val, drivers) => p = entries[j].means[e]
      BY <1>a, <1>3 DEF Holds
    <3> HIDE DEF p
    <3> QED
      BY <3>1
  <2> HIDE DEF a
  <2>4. BuildsNumber(val, drivers, g, out, old)
    BY <1>0, <1>a, <2>1, LiteralBuilds
  <2> HIDE DEF g, out, old, new
  <2>5. BuildsNumber(val, drivers, g, out, new)
    BY <2>2, <2>3, <2>4, NumberAfter
  <2> QED
    BY <2>5 DEF new
<1> HIDE DEF g, out
<1>4. BuildsFor(drivers, g, out, means, n)
  BY <1>3 DEF BuildsFor
<1> QED
  BY <1>4 DEF g, out, a

LEMMA ArraySelectSound ==
  ASSUME NEW n, NEW drivers, NEW entries, SoundFor(drivers, entries, n), NEW j \in DOMAIN entries, NEW k \in DOMAIN entries,
         NEW m, Sized(entries, j, m), NEW q, Sized(entries, k, q),
         NEW step, step.kind = "element", LaidOut(step.layout, m), Highest(step.layout) < Pow2[q],
         NEW means, \A e \in Until(n) : means[e] = ElementIn(entries[j].means[e], step, entries[k].means[e])
  PROVE  BuildsFor(drivers, ArraySelectGates(drivers, entries[j].bits, entries[k].bits, step.layout), step.layout.width, means, n)
<1> DEFINE a == entries[j].bits
           b == entries[k].bits
           g == ArraySelectGates(drivers, a, b, step.layout)
           out == step.layout.width
<1>0. drivers \in Vectors
  BY SoundVector
<1>a. m \in Nat /\ m > 0 /\ a \in Words(m, Len(drivers)) /\ \A val : Holds(val, drivers, entries[j], n, m)
  BY OperandMeans
<1>b. q \in Nat /\ q > 0 /\ b \in Words(q, Len(drivers)) /\ \A val : Holds(val, drivers, entries[k], n, q)
  BY OperandMeans
<1>3. ASSUME NEW e \in Until(n), NEW val, Fixes(val, e, n) PROVE BuildsNumber(val, drivers, g, out, means[e])
  <2> DEFINE p == Low(val, a, m)
             r == Low(val, b, q)
             old == ElementIn(p, step, r)
             new == means[e]
  <2>1. val \in [Nat -> BOOLEAN]
    BY <1>3 DEF Fixes
  <2>2. Follows(val, drivers, drivers)
    BY <1>0, FollowsItself
  <2>3. Respects(val, drivers) => old = new
    <3>1. Respects(val, drivers) => p = entries[j].means[e] /\ r = entries[k].means[e]
      BY <1>a, <1>b, <1>3 DEF Holds
    <3> HIDE DEF p, r
    <3> QED
      BY <3>1
  <2> HIDE DEF a, b
  <2>4. BuildsNumber(val, drivers, g, out, old)
    BY <1>0, <1>a, <1>b, <2>1, ArraySelectBuilds
  <2> HIDE DEF g, out, old, new
  <2>5. BuildsNumber(val, drivers, g, out, new)
    BY <2>2, <2>3, <2>4, NumberAfter
  <2> QED
    BY <2>5 DEF new
<1> HIDE DEF g, out
<1>4. BuildsFor(drivers, g, out, means, n)
  BY <1>3 DEF BuildsFor
<1> QED
  BY <1>4 DEF g, out, a, b

(* What the places of one or two steps add up to.                           *)
InStep(p, k) == Position(p[k], p[k].offset)

(* The place of a part is the sum of the places of its steps.               *)
LEMMA PlacesAdd ==
  ASSUME NEW p, NEW D, D \subseteq {1, 2}, \A k \in D : InStep(p, k) \in Int
  PROVE  MapThenSumSet(LAMBDA k : Position(p[k], p[k].offset), D) =
         (IF 1 \in D THEN InStep(p, 1) ELSE 0) + (IF 2 \in D THEN InStep(p, 2) ELSE 0)
<1> DEFINE At(k) == Position(p[k], p[k].offset)
           c(s) == CHOOSE x \in s : TRUE
           one(s) == IF 1 \in s THEN At(1) ELSE 0
           two(s) == IF 2 \in s THEN At(2) ELSE 0
           Rec(g) == [s \in SUBSET D |-> IF s = {} THEN 0 ELSE At(c(s)) + g[s \ {c(s)}]]
           total == CHOOSE g : g = Rec(g)
           h == [s \in SUBSET D |-> one(s) + two(s)]
<1>1. MapThenSumSet(At, D) = total[D]
  BY DEF MapThenSumSet, MapThenFoldSet
<1>2. \A k \in D : At(k) \in Int
  BY DEF InStep
<1>3. \A s \in SUBSET D : s # {} => c(s) \in s
  <2> SUFFICES ASSUME NEW s \in SUBSET D, s # {} PROVE c(s) \in s
    OBVIOUS
  <2>1. \E x \in s : TRUE
    OBVIOUS
  <2> QED
    BY <2>1, Zenon
<1> HIDE DEF At, c, one, two
<1>4. \A s \in SUBSET D : /\ 1 \in s => one(s) = At(1) /\ At(1) \in Int
                          /\ 1 \notin s => one(s) = 0
                          /\ 2 \in s => two(s) = At(2) /\ At(2) \in Int
                          /\ 2 \notin s => two(s) = 0
  BY <1>2 DEF one, two
<1>5. ASSUME NEW s \in SUBSET D PROVE one(s) + two(s) = IF s = {} THEN 0 ELSE At(c(s)) + h[s \ {c(s)}]
  <2>1. CASE s = {}
    BY <1>4, <2>1
  <2>2. CASE s # {}
    <3> DEFINE x == c(s)
               t == s \ {x}
    <3>1. x \in s /\ t \in SUBSET D /\ x \in {1, 2}
      BY <1>3, <2>2
    <3>2. h[t] = one(t) + two(t)
      BY <3>1
    <3>3. CASE x = 1
      <4>1. 1 \in s /\ 1 \notin t /\ (2 \in t <=> 2 \in s)
        BY <3>1, <3>3
      <4> HIDE DEF x, t, h
      <4>2. one(s) = At(x) /\ At(x) \in Int /\ one(t) = 0
        BY <1>4, <3>1, <3>3, <4>1
      <4>3. two(s) = two(t) /\ two(t) \in Int
        BY <1>4, <3>1, <4>1
      <4>4. one(s) + two(s) = At(x) + h[t]
        BY <3>2, <4>2, <4>3
      <4> QED
        BY <2>2, <4>4 DEF x, t
    <3>4. CASE x = 2
      <4>1. 2 \in s /\ 2 \notin t /\ (1 \in t <=> 1 \in s)
        BY <3>1, <3>4
      <4> HIDE DEF x, t, h
      <4>2. two(s) = At(x) /\ At(x) \in Int /\ two(t) = 0
        BY <1>4, <3>1, <3>4, <4>1
      <4>3. one(s) = one(t) /\ one(t) \in Int
        BY <1>4, <3>1, <4>1
      <4>4. one(s) + two(s) = At(x) + h[t]
        BY <3>2, <4>2, <4>3
      <4> QED
        BY <2>2, <4>4 DEF x, t
    <3> QED
      BY <3>1, <3>3, <3>4
  <2> QED
    BY <2>1, <2>2
<1>6. h = Rec(h)
  BY <1>5
<1>7. total = Rec(total)
  <2> HIDE DEF Rec, h
  <2> QED
    BY <1>6
<1>8. \A s \in SUBSET D : total[s] = IF s = {} THEN 0 ELSE At(c(s)) + total[s \ {c(s)}]
  <2> HIDE DEF total
  <2> QED
    BY <1>7
<1> HIDE DEF total, Rec
<1>9. total[{}] = h[{}]
  <2>1. {} \in SUBSET D
    OBVIOUS
  <2> QED
    BY <1>5, <1>8, <2>1
<1>10. \A s \in SUBSET D : h[s] = IF s = {} THEN 0 ELSE At(c(s)) + h[s \ {c(s)}]
  BY <1>5
<1> HIDE DEF h
<1>11. ASSUME NEW s \in SUBSET D, NEW k, s \subseteq {k} PROVE total[s] = h[s]
  <2>1. CASE s = {}
    BY <1>9, <2>1
  <2>2. CASE s # {}
    <3>1. c(s) \in s
      BY <1>3, <2>2
    <3>2. s \ {c(s)} = {}
      BY <1>11, <3>1
    <3>3. total[s] = At(c(s)) + total[{}] /\ h[s] = At(c(s)) + h[{}]
      BY <1>8, <1>10, <2>2, <3>2
    <3> QED
      BY <1>9, <3>3
  <2> QED
    BY <2>1, <2>2
<1>12. total[D] = h[D]
  <2>1. CASE D = {}
    BY <1>9, <2>1
  <2>2. CASE D # {}
    <3>1. c(D) \in D
      BY <1>3, <2>2
    <3>2. PICK k : D \ {c(D)} \subseteq {k}
      BY <3>1
    <3>3. total[D \ {c(D)}] = h[D \ {c(D)}]
      BY <1>11, <3>2
    <3> QED
      BY <1>8, <1>10, <2>2, <3>3
  <2> QED
    BY <2>1, <2>2
<1>13. h[D] = one(D) + two(D)
  BY DEF h
<1>14. total[D] = (IF 1 \in D THEN InStep(p, 1) ELSE 0) + (IF 2 \in D THEN InStep(p, 2) ELSE 0)
  BY <1>12, <1>13 DEF one, two, At, InStep
<1> QED
  BY <1>1, <1>14 DEF At

(* Where the part begins that one step, or two, lead to.                    *)
Through(p, w, m, q, t) == IF InPlace(p, w, m) /\ InPlace(q, t, w) THEN p + q ELSE OutOfRange

(* The place after one step.                                                *)
LEMMA PlaceOnce ==
  ASSUME NEW S, NEW p \in Seq(S), Len(p) = 1, NEW m, InStep(p, 1) \in Int, NEW w, w = p[1].width
  PROVE  PlaceOfPart(p, m) = IF InPlace(InStep(p, 1), w, m) THEN InStep(p, 1) ELSE OutOfRange
<1> DEFINE At(k) == Position(p[k], p[k].offset)
           sum == MapThenSumSet(At, DOMAIN p)
           a == InStep(p, 1)
<1>1. DOMAIN p = {1}
  OBVIOUS
<1>2. sum = a
  <2>1. MapThenSumSet(At, {1}) = a + 0
    <3>1. \A k \in {1} : InStep(p, k) \in Int
      OBVIOUS
    <3>2. MapThenSumSet(At, {1}) = (IF 1 \in {1} THEN InStep(p, 1) ELSE 0) + (IF 2 \in {1} THEN InStep(p, 2) ELSE 0)
      BY <3>1, PlacesAdd
    <3> QED
      BY <3>2
  <2> QED
    BY <1>1, <2>1
<1>3. PlaceOfPart(p, m) = IF \A k \in DOMAIN p : At(k) # OutOfRange /\ At(k) + p[k].width <= (IF k = 1 THEN m ELSE p[k - 1].width)
                          THEN sum ELSE OutOfRange
  BY DEF PlaceOfPart
<1> HIDE DEF sum
<1>4. PlaceOfPart(p, m) = IF At(1) # OutOfRange /\ At(1) + p[1].width <= m THEN sum ELSE OutOfRange
  <2> HIDE DEF At
  <2> QED
    BY <1>1, <1>3
<1> QED
  BY <1>2, <1>4 DEF InStep, InPlace

(* The place after two steps.                                               *)
LEMMA PlaceTwice ==
  ASSUME NEW S, NEW p \in Seq(S), Len(p) = 2, NEW m, InStep(p, 1) \in Int, InStep(p, 2) \in Int,
         NEW w, w = p[1].width, NEW t, t = p[2].width
  PROVE  PlaceOfPart(p, m) = Through(InStep(p, 1), w, m, InStep(p, 2), t)
<1> DEFINE At(k) == Position(p[k], p[k].offset)
           sum == MapThenSumSet(At, DOMAIN p)
           a == InStep(p, 1)
           b == InStep(p, 2)
<1>1. DOMAIN p = {1, 2}
  OBVIOUS
<1>2. sum = a + b
  <2>1. MapThenSumSet(At, {1, 2}) = a + b
    <3>1. \A k \in {1, 2} : InStep(p, k) \in Int
      OBVIOUS
    <3>2. MapThenSumSet(At, {1, 2}) = (IF 1 \in {1, 2} THEN InStep(p, 1) ELSE 0) + (IF 2 \in {1, 2} THEN InStep(p, 2) ELSE 0)
      BY <3>1, PlacesAdd
    <3> QED
      BY <3>2
  <2> QED
    BY <1>1, <2>1
<1>3. PlaceOfPart(p, m) = IF \A k \in DOMAIN p : At(k) # OutOfRange /\ At(k) + p[k].width <= (IF k = 1 THEN m ELSE p[k - 1].width)
                          THEN sum ELSE OutOfRange
  BY DEF PlaceOfPart
<1> HIDE DEF sum
<1>4. PlaceOfPart(p, m) = IF (At(1) # OutOfRange /\ At(1) + p[1].width <= m) /\ (At(2) # OutOfRange /\ At(2) + p[2].width <= p[1].width)
                          THEN sum ELSE OutOfRange
  <2> HIDE DEF At
  <2> QED
    BY <1>1, <1>3
<1> QED
  BY <1>2, <1>4 DEF InStep, InPlace, Through

(* A step whose offset is the number of a word, and what becomes of it.     *)
IsStep(s) == \E kind, offset, w, l : s = Step(kind, offset, w, l)
Redirected(s, z) == IF s.kind = "literal" THEN s ELSE [s EXCEPT !.offset = z]

(* A step with another offset is otherwise the same.                        *)
LEMMA RedirectedIs ==
  ASSUME NEW s, IsStep(s), NEW z
  PROVE  /\ Redirected(s, z).kind = s.kind /\ Redirected(s, z).width = s.width /\ Redirected(s, z).layout = s.layout
         /\ Redirected(s, z).offset = IF s.kind = "literal" THEN s.offset ELSE z
<1>1. PICK kind, offset, w, l : s = [kind |-> kind, offset |-> offset, width |-> w, layout |-> l]
  BY DEF IsStep, Step
<1> QED
  BY <1>1 DEF Redirected

StepOver(entries, s, m) ==
  /\ IsStep(s) /\ s.kind \in StepKinds /\ s.width \in Nat /\ s.width > 0
  /\ s.kind = "literal" => Within(s.offset, s.width, m)
  /\ s.kind # "literal" => s.offset \in DOMAIN entries
  /\ s.kind = "select" => s.width <= m /\ m - s.width < Pow2[Len(entries[s.offset].bits)]
  /\ s.kind = "element" => LaidOut(s.layout, m) /\ s.width = s.layout.width /\ Highest(s.layout) < Pow2[Len(entries[s.offset].bits)]

LEMMA PositionSame ==
  ASSUME NEW s, NEW t, s.kind = t.kind, s.layout = t.layout, NEW n PROVE Position(s, n) = Position(t, n)
BY DEF Position

(* The step over gates, and the same step over numbers, have the same place.*)
LEMMA StepAgrees ==
  ASSUME NEW n, NEW drivers, NEW entries, SoundFor(drivers, entries, n), NEW m \in Nat, NEW s, StepOver(entries, s, m),
         NEW g, g = Redirected(s, entries[s.offset].bits)
  PROVE  /\ StepFits(g, m, Len(drivers)) /\ g.kind = s.kind /\ g.width = s.width
         /\ \A e \in Until(n) : \A val : Fixes(val, e, n) /\ Respects(val, drivers) =>
              \A h : h = Redirected(s, entries[s.offset].means[e]) => StepAt(val, g) = Position(h, h.offset)
<1> DEFINE k == s.offset
           b == entries[k].bits
           u == Len(b)
<1>1. IsStep(s) /\ s.kind \in StepKinds /\ s.width \in Nat /\ s.width > 0
  BY DEF StepOver
<1>2. g.kind = s.kind /\ g.width = s.width /\ g.layout = s.layout /\ g.offset = IF s.kind = "literal" THEN s.offset ELSE b
  BY <1>1, RedirectedIs
<1>3. s.kind # "literal" => /\ u \in Nat /\ u > 0 /\ b \in Words(u, Len(drivers))
                            /\ \A val : Holds(val, drivers, entries[k], n, u)
  <2> SUFFICES ASSUME s.kind # "literal"
               PROVE  u \in Nat /\ u > 0 /\ b \in Words(u, Len(drivers)) /\ \A val : Holds(val, drivers, entries[k], n, u)
    OBVIOUS
  <2>1. k \in DOMAIN entries /\ Sized(entries, k, u)
    BY DEF StepOver, Sized
  <2> HIDE DEF u, k
  <2> QED
    BY <2>1, OperandMeans
<1>4. StepFits(g, m, Len(drivers))
  <2>1. g.kind # "literal" => OffsetFits(g, Len(drivers))
    BY <1>2, <1>3 DEF OffsetFits
  <2>2. g.kind # "literal" => Len(g.offset) = u
    BY <1>2
  <2> QED
    BY <1>1, <1>2, <2>1, <2>2 DEF StepFits, StepOver
<1>5. ASSUME NEW e \in Until(n), NEW val, Fixes(val, e, n), Respects(val, drivers), NEW h, h = Redirected(s, entries[k].means[e])
      PROVE  StepAt(val, g) = Position(h, h.offset)
  <2> DEFINE z == entries[k].means[e]
  <2>1. h.kind = s.kind /\ h.layout = s.layout /\ h.offset = IF s.kind = "literal" THEN s.offset ELSE z
    BY <1>1, <1>5, RedirectedIs
  <2>2. AmountIn(val, g) = h.offset
    <3>1. CASE s.kind = "literal"
      BY <1>2, <2>1, <3>1 DEF AmountIn
    <3>2. CASE s.kind # "literal"
      <4>1. Low(val, b, u) = z
        BY <1>3, <1>5, <3>2 DEF Holds
      <4>2. g.offset = b /\ h.offset = z /\ g.kind # "literal"
        BY <1>2, <2>1, <3>2
      <4> QED
        BY <4>1, <4>2 DEF AmountIn
    <3> QED
      BY <3>1, <3>2
  <2> DEFINE y == h.offset
  <2>3. StepAt(val, g) = Position(g, y)
    BY <2>2 DEF StepAt
  <2> HIDE DEF y
  <2>4. Position(g, y) = Position(h, y)
    BY <1>2, <2>1, PositionSame
  <2> QED
    BY <2>3, <2>4 DEF y
<1> QED
  BY <1>2, <1>4, <1>5

(* Targets over gates and over numbers.                                     *)
GatesAlong(entries, path) == With(path, LAMBDA k : entries[k].bits)
NumbersAlong(entries, path, e) == With(path, LAMBDA k : entries[k].means[e])

(* A function over the places of a path is a sequence.                      *)
LEMMA TableIs ==
  ASSUME NEW size \in Nat, NEW A, A = [k \in 1 .. size |-> A[k]]
  PROVE  (\E T : A \in Seq(T)) /\ Len(A) = size
<1> DEFINE T == {A[k] : k \in 1 .. size}
<1>1. \A k \in 1 .. size : A[k] \in T
  OBVIOUS
<1> HIDE DEF T
<1>2. A \in [1 .. size -> T]
  BY <1>1
<1>3. A \in Seq(T) /\ Len(A) = size
  BY <1>2
<1> QED
  BY <1>3
(* Both tables are as long as the path: one entry for each step of it.      *)
LEMMA AlongIs ==
  ASSUME NEW entries, NEW S, NEW path \in Seq(S), NEW e
  PROVE  /\ \E T : GatesAlong(entries, path) \in Seq(T)
         /\ \E T : NumbersAlong(entries, path, e) \in Seq(T)
<1> DEFINE size == Len(path)
<1>0. size \in Nat /\ DOMAIN path = 1 .. size
  OBVIOUS
<1> HIDE DEF size
<1> DEFINE A == GatesAlong(entries, path)
           B == NumbersAlong(entries, path, e)
<1>1. A = [k \in 1 .. size |-> A[k]]
  BY <1>0 DEF GatesAlong, With, Redirected
<1>2. B = [k \in 1 .. size |-> B[k]]
  BY <1>0 DEF NumbersAlong, With, Redirected
<1> HIDE DEF A, B
<1>3. \E T : A \in Seq(T)
  BY <1>0, <1>1, TableIs
<1>4. \E T : B \in Seq(T)
  BY <1>0, <1>2, TableIs
<1> QED
  BY <1>3, <1>4 DEF A, B

(* The gates of each step of the path.                                      *)
LEMMA AlongBits ==
  ASSUME NEW entries, NEW S, NEW path \in Seq(S)
  PROVE  /\ Len(GatesAlong(entries, path)) = Len(path)
         /\ \A k \in 1 .. Len(path) : GatesAlong(entries, path)[k] = Redirected(path[k], entries[path[k].offset].bits)
<1> DEFINE size == Len(path)
<1>1. size = Len(path)
  OBVIOUS
<1> HIDE DEF size
<1>2. size \in Nat /\ DOMAIN path = 1 .. size
  BY <1>1
<1> DEFINE A == GatesAlong(entries, path)
<1>3. A = [k \in 1 .. size |-> Redirected(path[k], entries[path[k].offset].bits)]
  BY <1>2 DEF GatesAlong, With, Redirected
<1>4. \A k \in 1 .. size : A[k] = Redirected(path[k], entries[path[k].offset].bits)
  BY <1>3
<1>5. A = [k \in 1 .. size |-> A[k]]
  BY <1>3
<1> HIDE DEF A
<1>6. Len(A) = size
  BY <1>2, <1>5, TableIs
<1> QED
  BY <1>1, <1>4, <1>6 DEF A

(* The numbers of each step of the path.                                    *)
LEMMA AlongAt ==
  ASSUME NEW entries, NEW S, NEW path \in Seq(S), NEW e
  PROVE  /\ Len(NumbersAlong(entries, path, e)) = Len(path)
         /\ \A k \in 1 .. Len(path) : NumbersAlong(entries, path, e)[k] = Redirected(path[k], entries[path[k].offset].means[e])
<1> DEFINE size == Len(path)
<1>1. size = Len(path)
  OBVIOUS
<1> HIDE DEF size
<1>2. size \in Nat /\ DOMAIN path = 1 .. size
  BY <1>1
<1> DEFINE B == NumbersAlong(entries, path, e)
<1>3. B = [k \in 1 .. size |-> Redirected(path[k], entries[path[k].offset].means[e])]
  BY <1>2 DEF NumbersAlong, With, Redirected
<1>4. \A k \in 1 .. size : B[k] = Redirected(path[k], entries[path[k].offset].means[e])
  BY <1>3
<1>5. B = [k \in 1 .. size |-> B[k]]
  BY <1>3
<1> HIDE DEF B
<1>6. Len(B) = size
  BY <1>2, <1>5, TableIs
<1> QED
  BY <1>1, <1>4, <1>6 DEF B

(* What variable j is after the assignment of v to the part at the end of   *)
(* path.                                                                    *)
Written(place, a, t, m, b, path) ==
  IF path = <<>> THEN ReadAs(b, t, m, FALSE) ELSE IF place = OutOfRange THEN a ELSE WithPart(a, place, t, b)
PlaceIn(entries, path, m, e) == PlaceOfPart(NumbersAlong(entries, path, e), m)

(* An assignment to the whole variable.                                     *)
LEMMA AssignWholeSound ==
  ASSUME NEW n, NEW drivers, NEW entries, SoundFor(drivers, entries, n), NEW j \in DOMAIN entries, NEW v \in DOMAIN entries,
         NEW m, Sized(entries, j, m), NEW t, Sized(entries, v, t),
         NEW S, NEW path \in Seq(S), Len(path) = 0,
         NEW means, \A e \in Until(n) :
           means[e] = Written(PlaceIn(entries, path, m, e), entries[j].means[e], t, m, entries[v].means[e], path)
  PROVE  BuildsFor(drivers, AssignGates(drivers, entries[j].bits, GatesAlong(entries, path), entries[v].bits), m, means, n)
<1> DEFINE a == entries[j].bits
           b == entries[v].bits
           p == GatesAlong(entries, path)
           g == AssignGates(drivers, a, p, b)
<1>0. drivers \in Vectors
  BY SoundVector
<1>a. m \in Nat /\ m > 0 /\ a \in Words(m, Len(drivers)) /\ \A val : Holds(val, drivers, entries[j], n, m)
  BY OperandMeans
<1>b. t \in Nat /\ t > 0 /\ b \in Words(t, Len(drivers)) /\ \A val : Holds(val, drivers, entries[v], n, t)
  BY OperandMeans
<1>c. PICK T : p \in Seq(T)
  BY AlongIs
<1>d. Len(p) = 0
  BY AlongBits
<1>e. path = <<>>
  OBVIOUS
<1>3. ASSUME NEW e \in Until(n), NEW val, Fixes(val, e, n) PROVE BuildsNumber(val, drivers, g, m, means[e])
  <2> DEFINE q == Low(val, b, t)
             old == Wrap(q, m)
             new == means[e]
  <2>1. val \in [Nat -> BOOLEAN]
    BY <1>3 DEF Fixes
  <2>2. Follows(val, drivers, drivers)
    BY <1>0, FollowsItself
  <2>3. Respects(val, drivers) => old = new
    <3>1. Respects(val, drivers) => q = entries[v].means[e]
      BY <1>b, <1>3 DEF Holds
    <3>2. \A x : ReadAs(x, t, m, FALSE) = Wrap(x, m)
      BY ReadIs
    <3>3. new = Wrap(entries[v].means[e], m)
      BY <1>e, <3>2 DEF Written
    <3> HIDE DEF q, new
    <3> QED
      BY <3>1, <3>3
  <2> HIDE DEF a, b, p
  <2>4. BuildsNumber(val, drivers, g, m, old)
    BY <1>0, <1>a, <1>b, <1>c, <1>d, <2>1, AssignWhole
  <2> HIDE DEF g, old, new
  <2>5. BuildsNumber(val, drivers, g, m, new)
    BY <2>2, <2>3, <2>4, NumberAfter
  <2> QED
    BY <2>5 DEF new
<1> HIDE DEF g
<1>4. BuildsFor(drivers, g, m, means, n)
  BY <1>3 DEF BuildsFor
<1> QED
  BY <1>4 DEF g, a, b, p

(* An assignment through one step.                                          *)
LEMMA AssignOnceSound ==
  ASSUME NEW n, NEW drivers, NEW entries, SoundFor(drivers, entries, n), NEW j \in DOMAIN entries, NEW v \in DOMAIN entries,
         NEW m, Sized(entries, j, m), NEW t, Sized(entries, v, t),
         NEW S, NEW path \in Seq(S), Len(path) = 1, NEW s, s = path[1], StepOver(entries, s, m), t = s.width,
         NEW means, \A e \in Until(n) :
           means[e] = Written(PlaceIn(entries, path, m, e), entries[j].means[e], t, m, entries[v].means[e], path)
  PROVE  BuildsFor(drivers, AssignGates(drivers, entries[j].bits, GatesAlong(entries, path), entries[v].bits), m, means, n)
<1> DEFINE a == entries[j].bits
           b == entries[v].bits
           p == GatesAlong(entries, path)
           x == p[1]
           g == AssignGates(drivers, a, p, b)
<1>0. drivers \in Vectors /\ Len(drivers) \in Nat
  BY SoundVector
<1>a. m \in Nat /\ m > 0 /\ a \in Words(m, Len(drivers)) /\ \A val : Holds(val, drivers, entries[j], n, m)
  BY OperandMeans
<1>b. t \in Nat /\ t > 0 /\ b \in Words(t, Len(drivers)) /\ \A val : Holds(val, drivers, entries[v], n, t)
  BY OperandMeans
<1>c. PICK T : p \in Seq(T)
  BY AlongIs
<1>d. Len(p) = 1 /\ 1 \in 1 .. Len(path)
  BY AlongBits
<1>e. path # <<>>
  OBVIOUS
<1>i. \A e : Len(NumbersAlong(entries, path, e)) = 1 /\ \A k \in 1 .. Len(path) : NumbersAlong(entries, path, e)[k] = Redirected(path[k], entries[path[k].offset].means[e])
  BY AlongAt
<1>f. x = Redirected(s, entries[s.offset].bits)
  <2>1. \A k \in 1 .. Len(path) : p[k] = Redirected(path[k], entries[path[k].offset].bits)
    BY AlongBits
  <2> HIDE DEF p
  <2>2. p[1] = Redirected(path[1], entries[path[1].offset].bits)
    BY <1>d, <2>1
  <2> QED
    BY <2>2
<1> HIDE DEF p, x
<1>g. /\ StepFits(x, m, Len(drivers)) /\ x.kind = s.kind /\ x.width = t
      /\ \A e \in Until(n) : \A val : Fixes(val, e, n) /\ Respects(val, drivers) =>
           \A h : h = Redirected(s, entries[s.offset].means[e]) => StepAt(val, x) = Position(h, h.offset)
  BY <1>a, <1>f, StepAgrees
<1>3. ASSUME NEW e \in Until(n), NEW val, Fixes(val, e, n) PROVE BuildsNumber(val, drivers, g, m, means[e])
  <2> DEFINE A == Low(val, a, m)
             V == Low(val, b, t)
             c == StepAt(val, x)
             old == PutStep(A, c, t, m, V)
             new == means[e]
  <2>1. val \in [Nat -> BOOLEAN]
    BY <1>3 DEF Fixes
  <2>2. Follows(val, drivers, drivers)
    BY <1>0, FollowsItself
  <2>3. Respects(val, drivers) => old = new
    <3> SUFFICES ASSUME Respects(val, drivers) PROVE old = new
      OBVIOUS
    <3>1. A = entries[j].means[e] /\ V = entries[v].means[e]
      BY <1>a, <1>b, <1>3 DEF Holds
    <3> DEFINE q == NumbersAlong(entries, path, e)
               h == q[1]
    <3>2. PICK Q : q \in Seq(Q)
      BY AlongIs
    <3>3. Len(q) = 1 /\ h = Redirected(s, entries[s.offset].means[e])
      <4>1. Len(q) = 1 /\ \A k \in 1 .. Len(path) : q[k] = Redirected(path[k], entries[path[k].offset].means[e])
        BY <1>i
      <4> HIDE DEF q
      <4>2. q[1] = Redirected(path[1], entries[path[1].offset].means[e])
        BY <1>d, <4>1
      <4> QED
        BY <4>1, <4>2
    <3>4. h.width = t
      BY <3>3, RedirectedIs DEF StepOver
    <3>5. c = InStep(q, 1)
      <4> HIDE DEF q
      <4>1. c = Position(h, h.offset)
        <5> HIDE DEF h, c
        <5> QED
          BY <1>3, <1>g, <3>3 DEF c
      <4> QED
        BY <4>1 DEF InStep
    <3>6. c \in Int
      BY <1>0, <1>a, <1>g, StepPlaced
    <3> HIDE DEF c, q
    <3>7. PlaceOfPart(q, m) = IF InPlace(c, t, m) THEN c ELSE OutOfRange
      BY <3>2, <3>3, <3>4, <3>5, <3>6, PlaceOnce
    <3>8. PlaceIn(entries, path, m, e) = IF InPlace(c, t, m) THEN c ELSE OutOfRange
      BY <3>7 DEF PlaceIn, q
    <3> DEFINE z == PlaceIn(entries, path, m, e)
    <3>9. new = Written(z, A, t, m, V, path)
      BY <3>1
    <3>10. new = IF z = OutOfRange THEN A ELSE WithPart(A, z, t, V)
      <4> HIDE DEF z, A, V, new
      <4> QED
        BY <1>e, <3>9 DEF Written
    <3>11. InPlace(c, t, m) => c # OutOfRange
      BY DEF InPlace
    <3>12. z = IF InPlace(c, t, m) THEN c ELSE OutOfRange
      BY <3>8
    <3> HIDE DEF z, A, V, new
    <3> QED
      BY <3>10, <3>11, <3>12 DEF PutStep
  <2> HIDE DEF a, b
  <2>4. BuildsNumber(val, drivers, g, m, old)
    BY <1>0, <1>a, <1>b, <1>c, <1>d, <1>g, <2>1, AssignOnce DEF x
  <2> HIDE DEF g, old, new
  <2>5. BuildsNumber(val, drivers, g, m, new)
    BY <2>2, <2>3, <2>4, NumberAfter
  <2> QED
    BY <2>5 DEF new
<1> HIDE DEF g
<1>4. BuildsFor(drivers, g, m, means, n)
  BY <1>3 DEF BuildsFor
<1> QED
  BY <1>4 DEF g, a, b, p

(* An assignment through two steps.                                         *)
LEMMA AssignTwiceSound ==
  ASSUME NEW n, NEW drivers, NEW entries, SoundFor(drivers, entries, n), NEW j \in DOMAIN entries, NEW v \in DOMAIN entries,
         NEW m, Sized(entries, j, m), NEW t, Sized(entries, v, t),
         NEW S, NEW path \in Seq(S), Len(path) = 2, NEW f, f = path[1], StepOver(entries, f, m), f.kind = "element",
         NEW w, w = f.width, NEW s, s = path[2], StepOver(entries, s, w), t = s.width,
         NEW means, \A e \in Until(n) :
           means[e] = Written(PlaceIn(entries, path, m, e), entries[j].means[e], t, m, entries[v].means[e], path)
  PROVE  BuildsFor(drivers, AssignGates(drivers, entries[j].bits, GatesAlong(entries, path), entries[v].bits), m, means, n)
<1> DEFINE a == entries[j].bits
           b == entries[v].bits
           p == GatesAlong(entries, path)
           x == p[1]
           y == p[2]
           g == AssignGates(drivers, a, p, b)
<1>0. drivers \in Vectors /\ Len(drivers) \in Nat
  BY SoundVector
<1>a. m \in Nat /\ m > 0 /\ a \in Words(m, Len(drivers)) /\ \A val : Holds(val, drivers, entries[j], n, m)
  BY OperandMeans
<1>b. t \in Nat /\ t > 0 /\ b \in Words(t, Len(drivers)) /\ \A val : Holds(val, drivers, entries[v], n, t)
  BY OperandMeans
<1>c. PICK T : p \in Seq(T)
  BY AlongIs
<1>d. Len(p) = 2 /\ 1 \in 1 .. Len(path) /\ 2 \in 1 .. Len(path)
  BY AlongBits
<1>e. path # <<>>
  OBVIOUS
<1>i. \A e : Len(NumbersAlong(entries, path, e)) = 2 /\ \A k \in 1 .. Len(path) : NumbersAlong(entries, path, e)[k] = Redirected(path[k], entries[path[k].offset].means[e])
  BY AlongAt
<1>f. x = Redirected(f, entries[f.offset].bits) /\ y = Redirected(s, entries[s.offset].bits)
  <2>1. \A k \in 1 .. Len(path) : p[k] = Redirected(path[k], entries[path[k].offset].bits)
    BY AlongBits
  <2> HIDE DEF p
  <2>2. p[1] = Redirected(path[1], entries[path[1].offset].bits) /\ p[2] = Redirected(path[2], entries[path[2].offset].bits)
    BY <1>d, <2>1
  <2> QED
    BY <2>2
<1>w. w \in Nat
  BY DEF StepOver
<1> HIDE DEF p, x, y
<1>g. /\ StepFits(x, m, Len(drivers)) /\ x.kind = f.kind /\ x.width = w
      /\ \A e \in Until(n) : \A val : Fixes(val, e, n) /\ Respects(val, drivers) =>
           \A h : h = Redirected(f, entries[f.offset].means[e]) => StepAt(val, x) = Position(h, h.offset)
  BY <1>a, <1>f, StepAgrees
<1>h. /\ StepFits(y, w, Len(drivers)) /\ y.kind = s.kind /\ y.width = t
      /\ \A e \in Until(n) : \A val : Fixes(val, e, n) /\ Respects(val, drivers) =>
           \A h : h = Redirected(s, entries[s.offset].means[e]) => StepAt(val, y) = Position(h, h.offset)
  BY <1>w, <1>f, StepAgrees
<1>3. ASSUME NEW e \in Until(n), NEW val, Fixes(val, e, n) PROVE BuildsNumber(val, drivers, g, m, means[e])
  <2> DEFINE A == Low(val, a, m)
             V == Low(val, b, t)
             c == StepAt(val, x)
             d == StepAt(val, y)
             old == PutBoth(A, c, w, m, d, t, V)
             new == means[e]
  <2>1. val \in [Nat -> BOOLEAN]
    BY <1>3 DEF Fixes
  <2>2. Follows(val, drivers, drivers)
    BY <1>0, FollowsItself
  <2>3. Respects(val, drivers) => old = new
    <3> SUFFICES ASSUME Respects(val, drivers) PROVE old = new
      OBVIOUS
    <3>1. A = entries[j].means[e] /\ V = entries[v].means[e]
      BY <1>a, <1>b, <1>3 DEF Holds
    <3> DEFINE q == NumbersAlong(entries, path, e)
               h == q[1]
               i == q[2]
    <3>2. PICK Q : q \in Seq(Q)
      BY AlongIs
    <3>3. Len(q) = 2 /\ h = Redirected(f, entries[f.offset].means[e]) /\ i = Redirected(s, entries[s.offset].means[e])
      <4>1. Len(q) = 2 /\ \A k \in 1 .. Len(path) : q[k] = Redirected(path[k], entries[path[k].offset].means[e])
        BY <1>i
      <4> HIDE DEF q
      <4>2. q[1] = Redirected(path[1], entries[path[1].offset].means[e]) /\ q[2] = Redirected(path[2], entries[path[2].offset].means[e])
        BY <1>d, <4>1
      <4> QED
        BY <4>1, <4>2
    <3>4. h.width = w /\ i.width = t
      BY <3>3, RedirectedIs DEF StepOver
    <3>5. c = InStep(q, 1) /\ d = InStep(q, 2)
      <4> HIDE DEF q
      <4>1. c = Position(h, h.offset)
        <5> HIDE DEF h, c
        <5> QED
          BY <1>3, <1>g, <3>3 DEF c
      <4>2. d = Position(i, i.offset)
        <5> HIDE DEF i, d
        <5> QED
          BY <1>3, <1>h, <3>3 DEF d
      <4> QED
        BY <4>1, <4>2 DEF InStep
    <3>6. /\ c \in Int /\ (c # OutOfRange => c \in Nat)
          /\ d \in Int /\ (d # OutOfRange => d \in Nat)
      <4>1. c \in Int /\ (c # OutOfRange => c \in Nat)
        BY <1>0, <1>a, <1>g, StepPlaced
      <4>2. d \in Int /\ (d # OutOfRange => d \in Nat)
        BY <1>0, <1>w, <1>h, StepPlaced
      <4> QED
        BY <4>1, <4>2
    <3> HIDE DEF c, d, q
    <3>7. PlaceOfPart(q, m) = Through(c, w, m, d, t)
      BY <3>2, <3>3, <3>4, <3>5, <3>6, PlaceTwice
    <3> DEFINE z == PlaceIn(entries, path, m, e)
    <3>8. z = Through(c, w, m, d, t)
      BY <3>7 DEF PlaceIn, q
    <3>9. new = Written(z, A, t, m, V, path)
      BY <3>1
    <3>10. new = IF z = OutOfRange THEN A ELSE WithPart(A, z, t, V)
      <4> HIDE DEF z, A, V, new
      <4> QED
        BY <1>e, <3>9 DEF Written
    <3>11. InPlace(c, w, m) /\ InPlace(d, t, w) => c + d # OutOfRange
      <4>1. InPlace(c, w, m) /\ InPlace(d, t, w) => c \in Nat /\ d \in Nat
        BY <3>6 DEF InPlace
      <4> QED
        BY <4>1 DEF OutOfRange
    <3> HIDE DEF z, A, V, new
    <3> DEFINE both == InPlace(c, w, m) /\ InPlace(d, t, w)
               y1 == c + d
    <3>12. z = IF both THEN y1 ELSE OutOfRange
      BY <3>8 DEF Through
    <3>13. old = IF both THEN WithPart(A, y1, t, V) ELSE A
      BY DEF PutBoth
    <3>14. both => y1 # OutOfRange
      BY <3>11
    <3> HIDE DEF both, y1, old
    <3> QED
      BY <3>10, <3>12, <3>13, <3>14
  <2> HIDE DEF a, b
  <2>4. BuildsNumber(val, drivers, g, m, old)
    BY <1>0, <1>a, <1>b, <1>c, <1>d, <1>g, <1>h, <2>1, AssignTwice DEF x, y
  <2> HIDE DEF g, old, new
  <2>5. BuildsNumber(val, drivers, g, m, new)
    BY <2>2, <2>3, <2>4, NumberAfter
  <2> QED
    BY <2>5 DEF new
<1> HIDE DEF g
<1>4. BuildsFor(drivers, g, m, means, n)
  BY <1>3 DEF BuildsFor
<1> QED
  BY <1>4 DEF g, a, b, p

(* The steps and the targets that Assign may take.                          *)
LEMMA StepsFit ==
  ASSUME NEW m \in Nat, NEW s \in StepsOn(m), Buildable(s, m)
  PROVE  StepOver(words, s, m)
<1> DEFINE literals == {Step("literal", at, part, <<>>) : at \in 0 .. m - 1, part \in 1 .. m}
           selects == {Step("select", k, part, <<>>) : k \in DOMAIN words, part \in 1 .. m}
           elements == {Step("element", k, layout.width, layout) : k \in DOMAIN words, layout \in Arrays(m)}
<1>1. s \in literals \cup selects \cup elements
  BY DEF StepsOn
<1>2. CASE s \in literals
  <2>1. PICK at \in 0 .. m - 1, part \in 1 .. m : s = Step("literal", at, part, <<>>)
    BY <1>2
  <2>2. s.kind = "literal" /\ s.offset = at /\ s.width = part /\ IsStep(s)
    BY <2>1 DEF Step, IsStep
  <2>3. s.offset + s.width <= m
    BY <2>2 DEF Buildable
  <2>4. Within(s.offset, s.width, m)
    BY <2>1, <2>2, <2>3 DEF Within
  <2> QED
    BY <2>1, <2>2, <2>4 DEF StepOver, StepKinds
<1>3. CASE s \in selects
  <2>1. PICK k \in DOMAIN words, part \in 1 .. m : s = Step("select", k, part, <<>>)
    BY <1>3
  <2>2. s.kind = "select" /\ s.offset = k /\ s.width = part /\ IsStep(s)
    BY <2>1 DEF Step, IsStep
  <2>3. WideEnough(s.offset, m - s.width)
    BY <2>2 DEF Buildable
  <2>4. m - s.width < Pow2[Len(words[s.offset].bits)]
    BY <2>3 DEF WideEnough, Width
  <2> QED
    BY <2>1, <2>2, <2>4 DEF StepOver, StepKinds
<1>4. CASE s \in elements
  <2>1. PICK k \in DOMAIN words, layout \in Arrays(m) : s = Step("element", k, layout.width, layout)
    BY <1>4
  <2>2. s.kind = "element" /\ s.offset = k /\ s.width = layout.width /\ s.layout = layout /\ IsStep(s)
    BY <2>1 DEF Step, IsStep
  <2>3. WideEnough(s.offset, Highest(s.layout))
    BY <2>2 DEF Buildable
  <2>4. Highest(s.layout) < Pow2[Len(words[s.offset].bits)]
    BY <2>3 DEF WideEnough, Width
  <2>5. LaidOut(s.layout, m)
    BY <2>2, ArraysAre
  <2>6. s.width \in Nat /\ s.width > 0
    BY <2>2, <2>5 DEF LaidOut
  <2> QED
    BY <2>1, <2>2, <2>4, <2>5, <2>6 DEF StepOver, StepKinds
<1> QED
  BY <1>1, <1>2, <1>3, <1>4

OneStep(path, m) == Len(path) = 1 /\ StepOver(words, path[1], m)
TwoSteps(path, m) == /\ Len(path) = 2 /\ StepOver(words, path[1], m) /\ path[1].kind = "element"
                     /\ StepOver(words, path[2], path[1].width)

(* A path that fits has no, one or two steps.                               *)
LEMMA PathsAre ==
  ASSUME NEW m \in Nat, NEW path \in Paths(m)
  PROVE  /\ \E S : path \in Seq(S)
         /\ path = <<>> \/ OneStep(path, m) \/ TwoSteps(path, m)
<1> DEFINE first == {s \in StepsOn(m) : Buildable(s, m)}
           Second(f) == {s \in StepsOn(f.width) : s.kind # "element" /\ Buildable(s, f.width)}
           ones == {<<f>> : f \in first}
           twos == UNION {{<<f, s>> : s \in Second(f)} : f \in {x \in first : x.kind = "element"}}
<1>1. path \in {<<>>} \cup ones \cup twos
  BY DEF Paths
<1>2. \A s \in first : StepOver(words, s, m)
  BY StepsFit
<1>3. CASE path = <<>>
  <2>1. path \in Seq({})
    BY <1>3
  <2> QED
    BY <1>3, <2>1
<1>4. CASE path \in ones
  <2>1. PICK f \in first : path = <<f>>
    BY <1>4
  <2>2. path \in Seq({f}) /\ Len(path) = 1 /\ path[1] = f
    BY <2>1
  <2>3. OneStep(path, m)
    BY <1>2, <2>2 DEF OneStep
  <2> QED
    BY <2>2, <2>3
<1>5. CASE path \in twos
  <2>1. PICK f \in {x \in first : x.kind = "element"} : path \in {<<f, s>> : s \in Second(f)}
    BY <1>5
  <2>2. PICK s \in Second(f) : path = <<f, s>>
    BY <2>1
  <2>3. path \in Seq({f, s}) /\ Len(path) = 2 /\ path[1] = f /\ path[2] = s
    BY <2>2
  <2>4. StepOver(words, f, m) /\ f.kind = "element" /\ f.width \in Nat
    <3>1. StepOver(words, f, m) /\ f.kind = "element"
      BY <1>2
    <3> QED
      BY <3>1 DEF StepOver
  <2>5. s \in StepsOn(f.width) /\ Buildable(s, f.width)
    OBVIOUS
  <2>6. StepOver(words, s, f.width)
    BY <2>4, <2>5, StepsFit
  <2>7. TwoSteps(path, m)
    BY <2>3, <2>4, <2>6 DEF TwoSteps
  <2> QED
    BY <2>3, <2>7
<1> QED
  BY <1>1, <1>3, <1>4, <1>5

(* So every assignment computes what it means.                              *)
LEMMA AssignSound ==
  ASSUME NEW n, NEW drivers, SoundFor(drivers, words, n), NEW j \in DOMAIN words, NEW v \in DOMAIN words,
         NEW m, Sized(words, j, m), NEW t, Sized(words, v, t), NEW path \in Paths(m), path # <<>> => t = Last(path).width,
         NEW means, \A e \in Until(n) :
           means[e] = Written(PlaceIn(words, path, m, e), words[j].means[e], t, m, words[v].means[e], path)
  PROVE  BuildsFor(drivers, AssignGates(drivers, words[j].bits, GatesAlong(words, path), words[v].bits), m, means, n)
<1>1. m \in Nat
  BY OperandMeans
<1>2. PICK S : path \in Seq(S)
  BY <1>1, PathsAre
<1>3. path = <<>> \/ OneStep(path, m) \/ TwoSteps(path, m)
  BY <1>1, PathsAre
<1>4. CASE path = <<>>
  <2>1. Len(path) = 0
    BY <1>4
  <2> QED
    BY <1>2, <2>1, AssignWholeSound
<1>5. CASE OneStep(path, m)
  <2> DEFINE s == path[1]
  <2>1. Len(path) = 1 /\ StepOver(words, s, m)
    BY <1>5 DEF OneStep
  <2>2. t = s.width
    <3>1. Last(path) = s
      <4>1. Last(path) = path[Len(path)]
        BY DEF Last
      <4> QED
        BY <2>1, <4>1
    <3>2. path # <<>>
      <4>1. Len(<<>>) = 0
        OBVIOUS
      <4>2. Len(path) # 0
        BY <2>1
      <4> QED
        BY <4>1, <4>2
    <3> QED
      BY <3>1, <3>2
  <2>3. s = path[1]
    OBVIOUS
  <2> HIDE DEF s
  <2> QED
    BY <1>2, <2>1, <2>2, <2>3, AssignOnceSound
<1>6. CASE TwoSteps(path, m)
  <2> DEFINE f == path[1]
             s == path[2]
             w == f.width
  <2>1. Len(path) = 2 /\ StepOver(words, f, m) /\ f.kind = "element" /\ StepOver(words, s, w)
    BY <1>6 DEF TwoSteps
  <2>2. t = s.width
    <3>1. Last(path) = s
      <4>1. Last(path) = path[Len(path)]
        BY DEF Last
      <4> QED
        BY <2>1, <4>1
    <3>2. path # <<>>
      <4>1. Len(<<>>) = 0
        OBVIOUS
      <4>2. Len(path) # 0
        BY <2>1
      <4> QED
        BY <4>1, <4>2
    <3> QED
      BY <3>1, <3>2
  <2>3. f = path[1] /\ s = path[2] /\ w = f.width
    OBVIOUS
  <2> HIDE DEF f, s, w
  <2> QED
    BY <1>2, <2>1, <2>2, <2>3, AssignTwiceSound
<1> QED
  BY <1>3, <1>4, <1>5, <1>6

--------------------------------------------------------------------------------
(****************************************************************************)
(* The actions keep the invariants.                                         *)
(****************************************************************************)

(* From gates that compute the meaning of a node to the invariant after it. *)
LEMMA NodeKeeps ==
  ASSUME OpsInv, given.front # "verilator", NEW built, NEW x, NEW w \in Nat, w > 0, Outcome(x, built),
         BuildsFor(ds, built, w, x.means, given.inputs),
         ds' = built.ds, words' = Append(words, x), given' = given
  PROVE  OpsInv'
<1>1. SoundFor(ds, words, given.inputs)
  BY DEF OpsInv, Sound
<1>2. SoundFor(built.ds, Append(words, x), given.inputs)
  BY <1>1, NodeSound
<1>3. Sound'
  BY <1>2 DEF Sound
<1> QED
  BY <1>3 DEF OpsInv

(* Each action of the CIRCT path keeps the invariant.                       *)
LEMMA ICmpKeeps == OpsInv /\ ICmp => OpsInv'
<1> SUFFICES ASSUME OpsInv, ICmp PROVE OpsInv'
  OBVIOUS
<1>1. PICK predicate \in {"Equals", "NotEquals", "LessThan", "GreaterThan", "LessThanOrEqual", "GreaterThanOrEqual"},
           signed \in BOOLEAN, j \in DOMAIN words, k \in DOMAIN words :
        /\ CanBuild("circt") /\ Width(j) = Width(k)
        /\ CirctNode(predicate, ICmpGate(ds, predicate, signed, words[j].bits, words[k].bits),
             LAMBDA e : Truth(Compares(predicate, IF signed THEN SignedOf(M(j, e), Width(j)) ELSE M(j, e),
                                                  IF signed THEN SignedOf(M(k, e), Width(k)) ELSE M(k, e))))
  BY DEF ICmp
<1> DEFINE n == given.inputs
           w == Len(words[j].bits)
           built == ICmpGate(ds, predicate, signed, words[j].bits, words[k].bits)
           means == [e \in Until(n) |-> Truth(Compares(predicate, Reads(signed, words[j].means[e], w), Reads(signed, words[k].means[e], w)))]
           x == [bits |-> built.out, means |-> means, calls |-> [e \in Until(n) |-> Panic], outside |-> {}]
<1>2. given.front # "verilator" /\ w = Len(words[k].bits)
  BY <1>1 DEF CanBuild, Width
<1>3. ds' = built.ds /\ words' = Append(words, x) /\ given' = given
  BY <1>1, <1>2 DEF CirctNode, Node, Assignments, Until, Reads, M, Width
<1>4. SoundFor(ds, words, n)
  BY <1>2 DEF OpsInv, Sound
<1>5. Sized(words, j, w) /\ Sized(words, k, w) /\ predicate \in Predicates
  BY <1>2 DEF Sized, Predicates
<1>6. \A e \in Until(n) : means[e] = Truth(Compares(predicate, Reads(signed, words[j].means[e], w), Reads(signed, words[k].means[e], w)))
  OBVIOUS
<1>7. Outcome(x, built) /\ x.means = means
  BY DEF Outcome
<1> HIDE DEF w, means, x, n
<1>8. BuildsFor(ds, built, 1, means, n)
  BY <1>4, <1>5, <1>6, ICmpSound
<1> DEFINE One == 1
<1>9. One \in Nat /\ One > 0
  OBVIOUS
<1> HIDE DEF One, built
<1>10. BuildsFor(ds, built, One, x.means, given.inputs)
  BY <1>7, <1>8 DEF One, n
<1> QED
  BY <1>2, <1>3, <1>7, <1>9, <1>10, NodeKeeps

(* The actions of the CIRCT front end, one by one.                          *)
LEMMA MuxKeeps == OpsInv /\ MuxNode => OpsInv'
<1> SUFFICES ASSUME OpsInv, MuxNode PROVE OpsInv'
  OBVIOUS
<1>1. PICK c \in DOMAIN words, j \in DOMAIN words, k \in DOMAIN words :
        /\ CanBuild("circt") /\ Width(c) = 1 /\ Width(j) = Width(k)
        /\ CirctNode("Mux", CombMux(ds, words[c].bits, words[j].bits, words[k].bits),
                     LAMBDA e : IF M(c, e) = 1 THEN M(j, e) ELSE M(k, e))
  BY DEF MuxNode
<1> DEFINE n == given.inputs
           w == Len(words[j].bits)
           built == CombMux(ds, words[c].bits, words[j].bits, words[k].bits)
           means == [e \in Until(n) |-> IF words[c].means[e] = 1 THEN words[j].means[e] ELSE words[k].means[e]]
           x == [bits |-> built.out, means |-> means, calls |-> [e \in Until(n) |-> Panic], outside |-> {}]
<1>2. given.front # "verilator" /\ w = Len(words[k].bits) /\ 1 = Len(words[c].bits)
  BY <1>1 DEF CanBuild, Width
<1>3. ds' = built.ds /\ words' = Append(words, x) /\ given' = given
  BY <1>1 DEF CirctNode, Node, Assignments, Until, M
<1>4. SoundFor(ds, words, n)
  BY <1>2 DEF OpsInv, Sound
<1>5. Sized(words, j, w) /\ Sized(words, k, w) /\ Sized(words, c, 1)
  BY <1>2 DEF Sized
<1>6. \A e \in Until(n) : means[e] = IF words[c].means[e] = 1 THEN words[j].means[e] ELSE words[k].means[e]
  OBVIOUS
<1>7. Outcome(x, built) /\ x.means = means
  BY DEF Outcome
<1> HIDE DEF w, means, x, n
<1>8. BuildsFor(ds, built, w, means, n)
  BY <1>4, <1>5, <1>6, MuxSound
<1>9. w \in Nat /\ w > 0
  BY <1>4, <1>5, OperandMeans
<1> HIDE DEF built
<1>10. BuildsFor(ds, built, w, x.means, given.inputs)
  BY <1>7, <1>8 DEF n
<1> QED
  BY <1>2, <1>3, <1>7, <1>9, <1>10, NodeKeeps

LEMMA AddsUp ==
  ASSUME NEW w \in Nat, NEW u \in Nat, w > 0, NEW total, Adds(w, u, total) PROVE total \in Nat /\ total > 0
  BY DEF Adds

LEMMA ConcatKeeps ==
  ASSUME OpsInv, CanBuild("circt"), NEW j \in DOMAIN words, NEW k \in DOMAIN words,
         CirctNode("Concat", ConcatGate(ds, <<words[j].bits, words[k].bits>>),
                  LAMBDA e : M(j, e) * Pow2[Width(k)] + M(k, e))
  PROVE  OpsInv'
<1> DEFINE n == given.inputs
           u == Len(words[j].bits)
           w == Len(words[k].bits)
           total == w + u
           built == ConcatGate(ds, <<words[j].bits, words[k].bits>>)
           means == [e \in Until(n) |-> (words[j].means[e] * Pow2[w]) + words[k].means[e]]
           x == [bits |-> built.out, means |-> means, calls |-> [e \in Until(n) |-> Panic], outside |-> {}]
<1>2. given.front # "verilator"
  BY DEF CanBuild
<1>3. ds' = built.ds /\ words' = Append(words, x) /\ given' = given
  BY DEF CirctNode, Node, Assignments, Until, M, Width
<1>4. SoundFor(ds, words, n)
  BY <1>2 DEF OpsInv, Sound
<1>5. Sized(words, j, u) /\ Sized(words, k, w) /\ Adds(w, u, total)
  BY DEF Sized, Adds
<1>6. \A e \in Until(n) : means[e] = (words[j].means[e] * Pow2[w]) + words[k].means[e]
  OBVIOUS
<1>7. Outcome(x, built) /\ x.means = means
  BY DEF Outcome
<1> HIDE DEF means, x, n, u, w, total
<1>9. total \in Nat /\ total > 0
  <2>1. u \in Nat /\ u > 0
    BY <1>4, <1>5, OperandMeans
  <2>2. w \in Nat /\ w > 0
    BY <1>4, <1>5, OperandMeans
  <2> QED
    BY <1>5, <2>1, <2>2, AddsUp
<1>8. BuildsFor(ds, built, total, means, n)
  BY <1>4, <1>5, <1>6, ConcatSound
<1> HIDE DEF built
<1>10. BuildsFor(ds, built, total, x.means, given.inputs)
  BY <1>7, <1>8 DEF n
<1> QED
  BY <1>2, <1>3, <1>7, <1>9, <1>10, NodeKeeps

LEMMA ReplicateKeeps ==
  ASSUME OpsInv, CanBuild("circt"), NEW j \in DOMAIN words, NEW count \in 1 .. 3,
         CirctNode("Replicate", ReplicateGate(ds, words[j].bits, count * Width(j)),
                   LAMBDA e : Copies(M(j, e), Width(j), count))
  PROVE  OpsInv'
<1> DEFINE n == given.inputs
           w == Len(words[j].bits)
           total == count * w
           built == ReplicateGate(ds, words[j].bits, total)
           means == [e \in Until(n) |-> Copies(words[j].means[e], w, count)]
           x == [bits |-> built.out, means |-> means, calls |-> [e \in Until(n) |-> Panic], outside |-> {}]
<1>2. given.front # "verilator"
  BY DEF CanBuild
<1>3. ds' = built.ds /\ words' = Append(words, x) /\ given' = given
  BY DEF CirctNode, Node, Assignments, Until, M, Width
<1>4. SoundFor(ds, words, n)
  BY <1>2 DEF OpsInv, Sound
<1>5. Sized(words, j, w)
  BY DEF Sized
<1>6. \A e \in Until(n) : means[e] = Copies(words[j].means[e], w, count)
  OBVIOUS
<1>7. Outcome(x, built) /\ x.means = means
  BY DEF Outcome
<1> HIDE DEF means, x, n, w
<1>9. total \in Nat /\ total > 0
  <2>1. w \in Nat /\ w > 0
    BY <1>4, <1>5, OperandMeans
  <2>2. count = 1 \/ count = 2 \/ count = 3
    OBVIOUS
  <2> QED
    BY <2>1, <2>2
<1>a. total = count * w /\ count \in Nat
  OBVIOUS
<1> HIDE DEF total
<1>8. BuildsFor(ds, built, total, means, n)
  BY <1>4, <1>5, <1>6, <1>a, ReplicateSound
<1> HIDE DEF built
<1>10. BuildsFor(ds, built, total, x.means, given.inputs)
  BY <1>7, <1>8 DEF n
<1> QED
  BY <1>2, <1>3, <1>7, <1>9, <1>10, NodeKeeps

LEMMA ExtractKeeps ==
  ASSUME OpsInv, CanBuild("circt"), NEW j \in DOMAIN words, NEW at \in 0 .. Width(j) - 1, NEW w \in 1 .. Width(j) - at,
         CirctNode("Extract", ExtractGate(ds, words[j].bits, at, w), LAMBDA e : PartOf(M(j, e), at, w))
  PROVE  OpsInv'
<1> DEFINE n == given.inputs
           m == Len(words[j].bits)
           built == ExtractGate(ds, words[j].bits, at, w)
           means == [e \in Until(n) |-> PartOf(words[j].means[e], at, w)]
           x == [bits |-> built.out, means |-> means, calls |-> [e \in Until(n) |-> Panic], outside |-> {}]
<1>2. given.front # "verilator"
  BY DEF CanBuild
<1>3. ds' = built.ds /\ words' = Append(words, x) /\ given' = given
  BY DEF CirctNode, Node, Assignments, Until, M
<1>4. SoundFor(ds, words, n)
  BY <1>2 DEF OpsInv, Sound
<1>5. Sized(words, j, m) /\ at \in 0 .. m - 1 /\ w \in 1 .. m - at
  BY DEF Sized, Width
<1>6. \A e \in Until(n) : means[e] = PartOf(words[j].means[e], at, w)
  OBVIOUS
<1>7. Outcome(x, built) /\ x.means = means
  BY DEF Outcome
<1> HIDE DEF means, x, n, m
<1>9. w \in Nat /\ w > 0 /\ Within(at, w, m)
  <2>1. m \in Nat /\ m > 0
    BY <1>4, <1>5, OperandMeans
  <2> QED
    BY <1>5, <2>1 DEF Within
<1>8. BuildsFor(ds, built, w, means, n)
  BY <1>4, <1>5, <1>6, <1>9, ExtractSound
<1> HIDE DEF built
<1>10. BuildsFor(ds, built, w, x.means, given.inputs)
  BY <1>7, <1>8 DEF n
<1> QED
  BY <1>2, <1>3, <1>7, <1>9, <1>10, NodeKeeps

LEMMA WiringKeeps == OpsInv /\ Wiring => OpsInv'
<1> SUFFICES ASSUME OpsInv, Wiring PROVE OpsInv'
  OBVIOUS
<1>1. PICK j \in DOMAIN words, k \in DOMAIN words :
  /\ CanBuild("circt") /\ Fresh({j, k})
  /\ \/ CirctNode("Concat", ConcatGate(ds, <<words[j].bits, words[k].bits>>),
                  LAMBDA e : M(j, e) * Pow2[Width(k)] + M(k, e))
     \/ \E count \in 1 .. 3 :
          /\ j = k
          /\ CirctNode("Replicate", ReplicateGate(ds, words[j].bits, count * Width(j)),
                       LAMBDA e : Copies(M(j, e), Width(j), count))
     \/ \E at \in 0 .. Width(j) - 1 : \E w \in 1 .. Width(j) - at :
          /\ j = k
          /\ CirctNode("Extract", ExtractGate(ds, words[j].bits, at, w),
                       LAMBDA e : PartOf(M(j, e), at, w))
  BY DEF Wiring
<1>2. CASE CirctNode("Concat", ConcatGate(ds, <<words[j].bits, words[k].bits>>),
                  LAMBDA e : M(j, e) * Pow2[Width(k)] + M(k, e))
  BY <1>1, <1>2, ConcatKeeps
<1>3. CASE \E count \in 1 .. 3 :
          /\ j = k
          /\ CirctNode("Replicate", ReplicateGate(ds, words[j].bits, count * Width(j)),
                       LAMBDA e : Copies(M(j, e), Width(j), count))
  BY <1>1, <1>3, ReplicateKeeps
<1>4. CASE \E at \in 0 .. Width(j) - 1 : \E w \in 1 .. Width(j) - at :
          /\ j = k
          /\ CirctNode("Extract", ExtractGate(ds, words[j].bits, at, w),
                       LAMBDA e : PartOf(M(j, e), at, w))
  BY <1>1, <1>4, ExtractKeeps
<1> QED
  BY <1>1, <1>2, <1>3, <1>4

(* The undefined word of an array operation: inputs of its own.             *)
LEMMA SlotsAre ==
  ASSUME NEW m \in Nat, NEW size \in Nat, size > 0, size <= m, m % size = 0, NEW w, w = m \div size
  PROVE  w \in Nat /\ w > 0 /\ Slots(m, size, w)
<1>1. w \in Int /\ m = (size * w) + (m % size)
  OBVIOUS
<1> DEFINE p == size * w
<1>2. p = m /\ p \in Int
  BY <1>1
<1>3. w > 0
  <2>1. CASE w <= 0
    <3>1. p <= 0
      BY <1>1, <2>1
    <3> QED
      BY <1>2, <3>1
  <2> QED
    BY <1>1, <2>1
<1> QED
  BY <1>1, <1>2, <1>3 DEF Slots

(* The width of an index reaches every element.                             *)
LEMMA IndexWidthIs ==
  ASSUME NEW size \in Nat, size > 0 PROVE Indexes(IndexWidth(size), size)
<1> DEFINE P(u) == size <= Pow2[u] /\ (u = 1 \/ size > Pow2[u - 1])
           u == CHOOSE v \in 1 .. size : P(v)
<1>1. \E v \in 1 .. size : P(v)
  BY IndexExists
<1> HIDE DEF P
<1>2. u \in 1 .. size /\ P(u)
  BY <1>1
<1>3. IndexWidth(size) = u
  BY DEF IndexWidth, P
<1> HIDE DEF u
<1>4. Indexes(u, size)
  BY <1>2 DEF Indexes, P
<1> QED
  BY <1>3, <1>4

LEMMA AnyValueIs ==
  ASSUME NEW w, NEW e \in Until(given.inputs) PROVE AnyValue(w, e) = Number(InputValue(Undefined(w), e))
  BY DEF AnyValue, InputWord, InputValue, Assignments, Until

(* The undefined values are inputs no gate reads otherwise.                 *)
LEMMA UndefinedIsSpare ==
  ASSUME OpsInv, given.front # "verilator", NEW w \in Nat, w <= Len(given.undefined),
         NEW any, \A e \in Until(given.inputs) : any[e] = AnyValue(w, e)
  PROVE  SpareFor(ds, Undefined(w), w, any, given.inputs)
<1> DEFINE n == given.inputs
           undefined == given.undefined
           word == Undefined(w)
<1>1. SoundFor(ds, words, n)
  BY DEF OpsInv, Sound
<1>2. undefined \in Seq(Values(n))
  BY OperandsAssumption DEF OperandsAssumption, OpsInv
<1>3. word = SubSeq(undefined, 1, w)
  BY DEF Undefined
<1>4. \A e \in Until(n) : any[e] = Number(InputValue(word, e))
  BY AnyValueIs
<1>5. w <= Len(undefined)
  OBVIOUS
<1> HIDE DEF n, undefined, word
<1>6. SpareFor(ds, word, w, any, n)
  BY <1>1, <1>2, <1>3, <1>4, <1>5, UndefinedSpares
<1> QED
  BY <1>6 DEF word, n

LEMMA ArrayGetKeeps ==
  ASSUME OpsInv, CanBuild("circt"), NEW j \in DOMAIN words, NEW k \in DOMAIN words, NEW size, size \in 1 .. Width(j),
         Width(j) % size = 0, Width(k) = IndexWidth(size), NEW w, w = Width(j) \div size,
         NeedsUndefined("ArrayGet", size) => w <= Len(given.undefined),
         CirctNode("ArrayGet", ArrayGet(ds, words[j].bits, words[k].bits, size, Undefined(w)),
                   LAMBDA e : IF M(k, e) < size THEN PartOf(M(j, e), w * M(k, e), w) ELSE AnyValue(w, e))
  PROVE  OpsInv'
<1> DEFINE n == given.inputs
           m == Len(words[j].bits)
           u == Len(words[k].bits)
           undefined == Undefined(w)
           any == [e \in Until(n) |-> AnyValue(w, e)]
           built == ArrayGet(ds, words[j].bits, words[k].bits, size, undefined)
           means == [e \in Until(n) |->
             IF words[k].means[e] < size THEN PartOf(words[j].means[e], w * words[k].means[e], w) ELSE AnyValue(w, e)]
           x == [bits |-> built.out, means |-> means, calls |-> [e \in Until(n) |-> Panic], outside |-> {}]
<1>2. given.front # "verilator"
  BY DEF CanBuild
<1>3. ds' = built.ds /\ words' = Append(words, x) /\ given' = given
  BY DEF CirctNode, Node, Assignments, Until, M
<1>4. SoundFor(ds, words, n)
  BY <1>2 DEF OpsInv, Sound
<1>5. Sized(words, j, m) /\ Sized(words, k, u) /\ size \in 1 .. m /\ m % size = 0 /\ u = IndexWidth(size) /\ w = m \div size
  BY DEF Sized, Width
<1>6. \A e \in Until(n) : means[e] =
        IF words[k].means[e] < size THEN PartOf(words[j].means[e], w * words[k].means[e], w) ELSE any[e]
  OBVIOUS
<1>a. \A e \in Until(n) : any[e] = AnyValue(w, e)
  OBVIOUS
<1>7. Outcome(x, built) /\ x.means = means
  BY DEF Outcome
<1> HIDE DEF means, x, m, u, any, undefined, n
<1>9. size \in Nat /\ size > 0 /\ w \in Nat /\ w > 0 /\ Slots(m, size, w)
  <2>1. m \in Nat /\ m > 0
    BY <1>4, <1>5, OperandMeans
  <2>2. size \in Nat /\ size > 0 /\ size <= m
    BY <1>5, <2>1
  <2> QED
    BY <1>5, <2>1, <2>2, SlotsAre
<1>b. Indexes(u, size)
  BY <1>5, <1>9, IndexWidthIs
<1>c. NeedsUndefined("ArrayGet", size) => SpareFor(ds, undefined, w, any, n)
  BY <1>2, <1>9, <1>a, UndefinedIsSpare DEF undefined, n
<1>8. BuildsFor(ds, built, w, means, n)
  BY <1>4, <1>5, <1>6, <1>9, <1>b, <1>c, ArrayGetSound
<1> HIDE DEF built
<1>10. BuildsFor(ds, built, w, x.means, given.inputs)
  BY <1>7, <1>8 DEF n
<1> QED
  BY <1>2, <1>3, <1>7, <1>9, <1>10, NodeKeeps

LEMMA ArrayInjectKeeps ==
  ASSUME OpsInv, CanBuild("circt"), NEW j \in DOMAIN words, NEW k \in DOMAIN words, NEW v \in DOMAIN words,
         NEW size, size \in 1 .. Width(j),
         Width(j) % size = 0, Width(k) = IndexWidth(size), Width(v) = Width(j) \div size,
         NeedsUndefined("ArrayInject", size) => Width(j) <= Len(given.undefined),
         CirctNode("ArrayInject",
             ArrayInject(ds, words[j].bits, words[k].bits, words[v].bits, size, Undefined(Width(j))),
             LAMBDA e : IF M(k, e) < size
                        THEN WithPart(M(j, e), (Width(j) \div size) * M(k, e), Width(j) \div size, M(v, e))
                        ELSE AnyValue(Width(j), e))
  PROVE  OpsInv'
<1> DEFINE n == given.inputs
           m == Len(words[j].bits)
           w == m \div size
           u == Len(words[k].bits)
           undefined == Undefined(m)
           any == [e \in Until(n) |-> AnyValue(m, e)]
           built == ArrayInject(ds, words[j].bits, words[k].bits, words[v].bits, size, undefined)
           means == [e \in Until(n) |->
             IF words[k].means[e] < size THEN WithPart(words[j].means[e], w * words[k].means[e], w, words[v].means[e])
             ELSE AnyValue(m, e)]
           x == [bits |-> built.out, means |-> means, calls |-> [e \in Until(n) |-> Panic], outside |-> {}]
<1>2. given.front # "verilator"
  BY DEF CanBuild
<1>3. ds' = built.ds /\ words' = Append(words, x) /\ given' = given
  BY DEF CirctNode, Node, Assignments, Until, M, Width
<1>4. SoundFor(ds, words, n)
  BY <1>2 DEF OpsInv, Sound
<1>5. /\ Sized(words, j, m) /\ Sized(words, k, u) /\ size \in 1 .. m /\ m % size = 0 /\ u = IndexWidth(size) /\ w = m \div size
      /\ Sized(words, v, w) /\ (NeedsUndefined("ArrayInject", size) => m <= Len(given.undefined))
  BY DEF Sized, Width
<1>6. \A e \in Until(n) : means[e] =
        IF words[k].means[e] < size THEN WithPart(words[j].means[e], w * words[k].means[e], w, words[v].means[e]) ELSE any[e]
  OBVIOUS
<1>a. \A e \in Until(n) : any[e] = AnyValue(m, e)
  OBVIOUS
<1>7. Outcome(x, built) /\ x.means = means
  BY DEF Outcome
<1> HIDE DEF means, x, m, u, w, any, undefined, n
<1>9. size \in Nat /\ size > 0 /\ w \in Nat /\ w > 0 /\ Slots(m, size, w) /\ m \in Nat /\ m > 0
  <2>1. m \in Nat /\ m > 0
    BY <1>4, <1>5, OperandMeans
  <2>2. size \in Nat /\ size > 0 /\ size <= m
    BY <1>5, <2>1
  <2> QED
    BY <1>5, <2>1, <2>2, SlotsAre
<1>b. Indexes(u, size)
  BY <1>5, <1>9, IndexWidthIs
<1>c. NeedsUndefined("ArrayInject", size) => SpareFor(ds, undefined, m, any, n)
  BY <1>2, <1>5, <1>9, <1>a, UndefinedIsSpare DEF undefined, n
<1>8. BuildsFor(ds, built, m, means, n)
  BY <1>4, <1>5, <1>6, <1>9, <1>b, <1>c, ArrayInjectSound, ZenonT(60)
<1> HIDE DEF built
<1>10. BuildsFor(ds, built, m, x.means, given.inputs)
  BY <1>7, <1>8 DEF n
<1> QED
  BY <1>2, <1>3, <1>7, <1>9, <1>10, NodeKeeps

LEMMA ArrayNodeKeeps == OpsInv /\ ArrayNode => OpsInv'
<1> SUFFICES ASSUME OpsInv, ArrayNode PROVE OpsInv'
  OBVIOUS
<1>1. PICK j \in DOMAIN words, k \in DOMAIN words, v \in DOMAIN words : \E size \in {n \in 1 .. Width(j) : Width(j) % n = 0} :
  LET w == Width(j) \div size IN
  /\ CanBuild("circt") /\ Fresh({j, k, v}) /\ Width(k) = IndexWidth(size)
  /\ \/ /\ v = k
        /\ NeedsUndefined("ArrayGet", size) => w <= Len(given.undefined)
        /\ CirctNode("ArrayGet", ArrayGet(ds, words[j].bits, words[k].bits, size, Undefined(w)),
                     LAMBDA e : IF M(k, e) < size THEN PartOf(M(j, e), w * M(k, e), w) ELSE AnyValue(w, e))
     \/ /\ Width(v) = w
        /\ NeedsUndefined("ArrayInject", size) => Width(j) <= Len(given.undefined)
        /\ CirctNode("ArrayInject",
             ArrayInject(ds, words[j].bits, words[k].bits, words[v].bits, size, Undefined(Width(j))),
             LAMBDA e : IF M(k, e) < size THEN WithPart(M(j, e), w * M(k, e), w, M(v, e))
                        ELSE AnyValue(Width(j), e))
  BY DEF ArrayNode
<1>2. PICK size \in {n \in 1 .. Width(j) : Width(j) % n = 0} :
  LET w == Width(j) \div size IN
  /\ CanBuild("circt") /\ Fresh({j, k, v}) /\ Width(k) = IndexWidth(size)
  /\ \/ /\ v = k
        /\ NeedsUndefined("ArrayGet", size) => w <= Len(given.undefined)
        /\ CirctNode("ArrayGet", ArrayGet(ds, words[j].bits, words[k].bits, size, Undefined(w)),
                     LAMBDA e : IF M(k, e) < size THEN PartOf(M(j, e), w * M(k, e), w) ELSE AnyValue(w, e))
     \/ /\ Width(v) = w
        /\ NeedsUndefined("ArrayInject", size) => Width(j) <= Len(given.undefined)
        /\ CirctNode("ArrayInject",
             ArrayInject(ds, words[j].bits, words[k].bits, words[v].bits, size, Undefined(Width(j))),
             LAMBDA e : IF M(k, e) < size THEN WithPart(M(j, e), w * M(k, e), w, M(v, e))
                        ELSE AnyValue(Width(j), e))
  BY <1>1
<1>3. size \in 1 .. Width(j) /\ Width(j) % size = 0
  OBVIOUS
<1> DEFINE w == Width(j) \div size
<1>4. CASE /\ NeedsUndefined("ArrayGet", size) => w <= Len(given.undefined)
           /\ CirctNode("ArrayGet", ArrayGet(ds, words[j].bits, words[k].bits, size, Undefined(w)),
                        LAMBDA e : IF M(k, e) < size THEN PartOf(M(j, e), w * M(k, e), w) ELSE AnyValue(w, e))
  BY <1>2, <1>3, <1>4, ArrayGetKeeps
<1>5. CASE /\ Width(v) = w
           /\ NeedsUndefined("ArrayInject", size) => Width(j) <= Len(given.undefined)
           /\ CirctNode("ArrayInject",
                ArrayInject(ds, words[j].bits, words[k].bits, words[v].bits, size, Undefined(Width(j))),
                LAMBDA e : IF M(k, e) < size THEN WithPart(M(j, e), w * M(k, e), w, M(v, e))
                           ELSE AnyValue(Width(j), e))
  BY <1>2, <1>3, <1>5, ArrayInjectKeeps
<1> QED
  BY <1>2, <1>4, <1>5

(* The operators of ops.rs that the front ends do not call.                 *)
LEMMA RotationKeeps ==
  ASSUME OpsInv, CanBuild("library"), NEW j \in DOMAIN words, NEW k \in DOMAIN words, NEW operation \in Rotations,
         CirctNode(operation, Shifter(ds, words[j].bits, words[k].bits, operation),
                   LAMBDA e : RotatedLeft(M(j, e), Turned(operation, M(k, e)), Width(j)))
  PROVE  OpsInv'
<1> DEFINE n == given.inputs
           w == Len(words[j].bits)
           u == Len(words[k].bits)
           built == Shifter(ds, words[j].bits, words[k].bits, operation)
           means == [e \in Until(n) |-> RotatedLeft(words[j].means[e], Turned(operation, words[k].means[e]), w)]
           x == [bits |-> built.out, means |-> means, calls |-> [e \in Until(n) |-> Panic], outside |-> {}]
<1>2. given.front # "verilator"
  BY DEF CanBuild
<1>3. ds' = built.ds /\ words' = Append(words, x) /\ given' = given
  BY DEF CirctNode, Node, Assignments, Until, M, Width
<1>4. SoundFor(ds, words, n)
  BY <1>2 DEF OpsInv, Sound
<1>5. Sized(words, j, w) /\ Sized(words, k, u)
  BY DEF Sized
<1>6. \A e \in Until(n) : means[e] = RotatedLeft(words[j].means[e], Turned(operation, words[k].means[e]), w)
  OBVIOUS
<1>7. Outcome(x, built) /\ x.means = means
  BY DEF Outcome
<1> HIDE DEF w, means, x, n, u
<1>8. BuildsFor(ds, built, w, means, n)
  BY <1>4, <1>5, <1>6, RotationSound
<1>9. w \in Nat /\ w > 0
  BY <1>4, <1>5, OperandMeans
<1> HIDE DEF built
<1>10. BuildsFor(ds, built, w, x.means, given.inputs)
  BY <1>7, <1>8 DEF n
<1> QED
  BY <1>2, <1>3, <1>7, <1>9, <1>10, NodeKeeps

LEMMA SelectKeeps ==
  ASSUME OpsInv, CanBuild("library"), NEW j \in DOMAIN words, NEW k \in DOMAIN words, Width(j) = Pow2[Width(k)],
         CirctNode("Select", Built(Select(ds, words[j].bits, words[k].bits).ds, <<Select(ds, words[j].bits, words[k].bits).out>>),
                   LAMBDA e : PartOf(M(j, e), M(k, e), 1))
  PROVE  OpsInv'
<1> DEFINE n == given.inputs
           w == Len(words[j].bits)
           u == Len(words[k].bits)
           bit == Select(ds, words[j].bits, words[k].bits)
           built == Selected(bit)
           means == [e \in Until(n) |-> PartOf(words[j].means[e], words[k].means[e], 1)]
           x == [bits |-> built.out, means |-> means, calls |-> [e \in Until(n) |-> Panic], outside |-> {}]
<1>2. given.front # "verilator"
  BY DEF CanBuild
<1>3. ds' = built.ds /\ words' = Append(words, x) /\ given' = given
  BY DEF CirctNode, Node, Assignments, Until, M, Selected
<1>4. SoundFor(ds, words, n)
  BY <1>2 DEF OpsInv, Sound
<1>5. Sized(words, j, w) /\ Sized(words, k, u) /\ w = Pow2[u]
  BY DEF Sized, Width
<1>6. \A e \in Until(n) : means[e] = PartOf(words[j].means[e], words[k].means[e], 1)
  OBVIOUS
<1>7. Outcome(x, built) /\ x.means = means
  BY DEF Outcome
<1> HIDE DEF w, means, x, n, u
<1>8. BuildsFor(ds, built, 1, means, n)
  BY <1>4, <1>5, <1>6, SelectSound
<1> DEFINE One == 1
<1>9. One \in Nat /\ One > 0
  OBVIOUS
<1> HIDE DEF One, built
<1>10. BuildsFor(ds, built, One, x.means, given.inputs)
  BY <1>7, <1>8 DEF One, n
<1> QED
  BY <1>2, <1>3, <1>7, <1>9, <1>10, NodeKeeps

LEMMA UncalledKeeps == OpsInv /\ Uncalled => OpsInv'
<1> SUFFICES ASSUME OpsInv, Uncalled PROVE OpsInv'
  OBVIOUS
<1>1. PICK j \in DOMAIN words, k \in DOMAIN words :
  /\ CanBuild("library") /\ Fresh({j, k})
  /\ \/ CirctNode("RotateLeft", Shifter(ds, words[j].bits, words[k].bits, "RotateLeft"),
                  LAMBDA e : RotatedLeft(M(j, e), M(k, e), Width(j)))
     \/ CirctNode("RotateRight", Shifter(ds, words[j].bits, words[k].bits, "RotateRight"),
                  LAMBDA e : RotatedLeft(M(j, e), -M(k, e), Width(j)))
     \/ LET bit == Select(ds, words[j].bits, words[k].bits) IN
        /\ Width(j) = Pow2[Width(k)]
        /\ CirctNode("Select", Built(bit.ds, <<bit.out>>),
                     LAMBDA e : PartOf(M(j, e), M(k, e), 1))
  BY DEF Uncalled
<1>2. CASE CirctNode("RotateLeft", Shifter(ds, words[j].bits, words[k].bits, "RotateLeft"),
                     LAMBDA e : RotatedLeft(M(j, e), M(k, e), Width(j)))
  <2> DEFINE operation == "RotateLeft"
  <2>1. operation \in Rotations
    BY DEF Rotations
  <2>2. CirctNode(operation, Shifter(ds, words[j].bits, words[k].bits, operation),
                  LAMBDA e : RotatedLeft(M(j, e), Turned(operation, M(k, e)), Width(j)))
    BY <1>2 DEF Turned, CirctNode, Node
  <2> HIDE DEF operation
  <2> QED
    BY <1>1, <2>1, <2>2, RotationKeeps
<1>3. CASE CirctNode("RotateRight", Shifter(ds, words[j].bits, words[k].bits, "RotateRight"),
                     LAMBDA e : RotatedLeft(M(j, e), -M(k, e), Width(j)))
  <2> DEFINE operation == "RotateRight"
  <2>1. operation \in Rotations
    BY DEF Rotations
  <2>2. CirctNode(operation, Shifter(ds, words[j].bits, words[k].bits, operation),
                  LAMBDA e : RotatedLeft(M(j, e), Turned(operation, M(k, e)), Width(j)))
    BY <1>3 DEF Turned, CirctNode, Node
  <2> HIDE DEF operation
  <2> QED
    BY <1>1, <2>1, <2>2, RotationKeeps
<1>4. CASE LET bit == Select(ds, words[j].bits, words[k].bits) IN
        /\ Width(j) = Pow2[Width(k)]
        /\ CirctNode("Select", Built(bit.ds, <<bit.out>>),
                     LAMBDA e : PartOf(M(j, e), M(k, e), 1))
  BY <1>1, <1>4, SelectKeeps
<1> QED
  BY <1>1, <1>2, <1>3, <1>4

LEMMA CombKeeps == OpsInv /\ Comb => OpsInv'
<1> SUFFICES ASSUME OpsInv, Comb PROVE OpsInv'
  OBVIOUS
<1>1. PICK operator \in Variadic \cup Dyadic, j \in DOMAIN words, k \in DOMAIN words, l \in DOMAIN words, count \in 1 .. 3 :
  LET operands == SubSeq(<<j, k, l>>, 1, count)
      w == Width(j)
  IN /\ CanBuild("circt") /\ Fresh({j, k, l}) /\ Width(k) = w /\ Width(l) = w
     /\ operator \in Dyadic => count = 2
     /\ operator \in Divisions => w <= Len(given.undefined)
     /\ CirctNode(operator,
          CombGate(ds, operator, [i \in DOMAIN operands |-> words[operands[i]].bits], Undefined(w)),
          LAMBDA e : CombMeans(operator, [i \in DOMAIN operands |-> M(operands[i], e)], w, AnyValue(w, e)))
  BY DEF Comb
<1> DEFINE n == given.inputs
           w == Len(words[j].bits)
           r == count - 1
           chosen == SubSeq(<<j, k, l>>, 1, count)
           undefined == Undefined(w)
           any == [e \in Until(n) |-> AnyValue(w, e)]
           built == CombGate(ds, operator, BitsOf(words, chosen), undefined)
           means == [e \in Until(n) |-> CombMeans(operator, NumbersOf(words, chosen, e), w, AnyValue(w, e))]
           x == [bits |-> built.out, means |-> means, calls |-> [e \in Until(n) |-> Panic], outside |-> {}]
<1>2. /\ given.front # "verilator" /\ Len(words[k].bits) = w /\ Len(words[l].bits) = w
      /\ operator \in Dyadic => count = 2
      /\ operator \in Divisions => w <= Len(given.undefined)
  BY <1>1 DEF CanBuild, Width
<1>3. ds' = built.ds /\ words' = Append(words, x) /\ given' = given
  BY <1>1 DEF CirctNode, Node, Assignments, Until, M, Width, BitsOf, NumbersOf
<1>4. SoundFor(ds, words, n)
  BY <1>2 DEF OpsInv, Sound
<1>5. Sized(words, j, w) /\ Sized(words, k, w) /\ Sized(words, l, w)
  BY <1>2 DEF Sized
<1>6. r \in Nat /\ r + 1 = count
  OBVIOUS
<1>7. Picks(chosen, words, r, w)
  <2> DEFINE t == <<j, k, l>>
  <2>1. t \in Seq({j, k, l}) /\ Len(t) = 3 /\ t[1] = j /\ t[2] = k /\ t[3] = l
    OBVIOUS
  <2>2. \A i \in 1 .. 3 : t[i] \in DOMAIN words /\ Sized(words, t[i], w)
    BY <1>5, <2>1
  <2> HIDE DEF t
  <2>3. chosen = [i \in 1 .. count |-> t[i]]
    BY <2>1 DEF t
  <2> HIDE DEF chosen
  <2>4. chosen \in Seq({j, k, l}) /\ Len(chosen) = count
    <3>1. \A i \in 1 .. count : t[i] \in {j, k, l}
      BY <2>1
    <3> QED
      BY <2>3, <3>1
  <2>5. \A i \in 0 .. r : i + 1 \in 1 .. 3 /\ chosen[i + 1] = t[i + 1]
    BY <1>6, <2>3
  <2> HIDE DEF r, w
  <2> QED
    BY <1>6, <2>2, <2>4, <2>5 DEF Picks
<1>8. operator \in CombOperators /\ (operator \in Divisions => r = 1)
  <2>1. operator \in CombOperators
    BY DEF CombOperators, Variadic, Dyadic, Divisions
  <2>2. operator \in Divisions => operator \in Dyadic
    BY DEF Dyadic
  <2> QED
    BY <1>2, <2>1, <2>2
<1>9. \A e \in Until(n) : any[e] = AnyValue(w, e) /\ means[e] = CombMeans(operator, NumbersOf(words, chosen, e), w, any[e])
  OBVIOUS
<1>10. Outcome(x, built) /\ x.means = means
  BY DEF Outcome
<1> HIDE DEF means, x, n, any, undefined, w, chosen, r
<1>11. w \in Nat /\ w > 0
  BY <1>4, <1>5, OperandMeans
<1>12. \A e \in Until(n) : any[e] \in 0 .. Pow2[w] - 1
  <2> SUFFICES ASSUME NEW e \in Until(n) PROVE any[e] \in 0 .. Pow2[w] - 1
    OBVIOUS
  <2>1. any[e] = Number(InputValue(SubSeq(given.undefined, 1, w), e))
    BY <1>9, AnyValueIs DEF Undefined, n
  <2> QED
    BY <1>11, <2>1, UndefinedBounded
<1>13. operator \in Divisions => SpareFor(ds, undefined, w, any, n)
  BY <1>2, <1>9, <1>11, UndefinedIsSpare DEF undefined, n
<1>14. BuildsFor(ds, built, w, means, n)
  BY <1>4, <1>6, <1>7, <1>8, <1>9, <1>12, <1>13, CombSound
<1> HIDE DEF built
<1>15. BuildsFor(ds, built, w, x.means, given.inputs)
  BY <1>10, <1>14 DEF n
<1> QED
  BY <1>2, <1>3, <1>10, <1>11, <1>15, NodeKeeps

(* The Verilator path leaves the invariant alone.                           *)
LEMMA VerilatorKeeps ==
  ASSUME OpsInv,
         Unary \/ Binary \/ Conditional \/ Replicate \/ SelectPart \/ LiteralSelect \/ ArraySelect \/ Assign
  PROVE  OpsInv'
<1>1. Unary => given.front = "verilator" /\ given' = given
  BY DEF Unary, CanBuild, Node
<1>2. Binary => given.front = "verilator" /\ given' = given
  <2>1. \A operator, j, k, w, signed : BinaryNode(operator, j, k, w, signed) => given.front = "verilator" /\ given' = given
    BY DEF BinaryNode, CanBuild, Node
  <2> QED
    BY <2>1 DEF Binary
<1>3. Conditional => given.front = "verilator" /\ given' = given
  BY SMTT(90) DEF Conditional, CanBuild, Node
<1>4. Replicate => given.front = "verilator" /\ given' = given
  BY DEF Replicate, CanBuild, Node
<1>5. SelectPart => given.front = "verilator" /\ given' = given
  BY DEF SelectPart, CanBuild, Node
<1>6. LiteralSelect => given.front = "verilator" /\ given' = given
  BY DEF LiteralSelect, CanBuild, Node
<1>7. ArraySelect => given.front = "verilator" /\ given' = given
  BY DEF ArraySelect, CanBuild, Node
<1>8. Assign => given.front = "verilator" /\ given' = given
  BY DEF Assign, CanBuild, Node
<1>9. given.front = "verilator" /\ given' = given
  BY <1>1, <1>2, <1>3, <1>4, <1>5, <1>6, <1>7, <1>8
<1> QED
  BY <1>9 DEF OpsInv

(* The inductive invariant of the Verilator path: as long as no node lost a *)
(* shift amount, every word means what its bits compute.                    *)
FormalInv == given \in Operands /\ (given.front = "verilator" /\ ~node.loses => Sound)

(* A node, with its values as functions of the assignment.                  *)
NodeAs(operator, built, means, calls, outside) ==
  /\ ds' = built.ds
  /\ words' = Append(words, [bits |-> built.out, means |-> means, calls |-> calls, outside |-> outside])
  /\ node' = [operator |-> operator, loses |-> node.loses \/ LosesAmount(operator, Len(built.out))]
  /\ given' = given
NodeOf(operator, built, means) == \E calls, outside : NodeAs(operator, built, means, calls, outside)

(* A node whose word means its number keeps the invariant.                  *)
LEMMA VerilatorNodeKeeps ==
  ASSUME FormalInv, CanBuild("verilator"), NEW operator, NEW built, NEW means, NodeOf(operator, built, means),
         NEW w, Sound /\ ~LosesAmount(operator, Len(built.out)) => w \in Nat /\ w > 0 /\ BuildsFor(ds, built, w, means, given.inputs)
  PROVE  FormalInv'
<1>1. PICK calls, outside : NodeAs(operator, built, means, calls, outside)
  BY DEF NodeOf
<1> DEFINE x == [bits |-> built.out, means |-> means, calls |-> calls, outside |-> outside]
<1>2. /\ ds' = built.ds /\ words' = Append(words, x) /\ given' = given
      /\ node'.loses = (node.loses \/ LosesAmount(operator, Len(built.out)))
  BY <1>1 DEF NodeAs
<1>3. Outcome(x, built) /\ x.means = means
  BY DEF Outcome
<1>4. given.front = "verilator" /\ given \in Operands
  BY DEF CanBuild, FormalInv
<1> HIDE DEF x
<1>5. ASSUME ~node'.loses PROVE Sound'
  <2>1. ~node.loses /\ ~LosesAmount(operator, Len(built.out))
    BY <1>2, <1>5
  <2>2. Sound
    BY <1>4, <2>1 DEF FormalInv
  <2>3. w \in Nat /\ w > 0 /\ BuildsFor(ds, built, w, means, given.inputs)
    BY <2>1, <2>2
  <2>4. SoundFor(ds, words, given.inputs)
    BY <2>2 DEF Sound
  <2>5. SoundFor(built.ds, Append(words, x), given.inputs)
    BY <1>3, <2>3, <2>4, NodeSound
  <2> QED
    BY <1>2, <2>5 DEF Sound
<1> QED
  BY <1>2, <1>4, <1>5 DEF FormalInv

(* The Verilator expressions, action by action.                             *)
LEMMA UnaryKeeps == FormalInv /\ Unary => FormalInv'
<1> SUFFICES ASSUME FormalInv, Unary PROVE FormalInv'
  OBVIOUS
<1>1. PICK k \in DOMAIN words, operator \in UnaryOperators \cup {"ZeroExtend", "SignExtend"} :
        \E w \in IF operator \in UnaryOperators THEN {Width(k)} ELSE Width(k) .. 3 :
          /\ CanBuild("verilator")
          /\ NodeOf(operator, UnaryGates(ds, operator, words[k].bits, w),
                    [e \in Assignments |-> UnaryMeans(operator, M(k, e), Width(k), w)])
  BY DEF Unary, Node, NodeOf, NodeAs
<1>2. PICK w \in IF operator \in UnaryOperators THEN {Width(k)} ELSE Width(k) .. 3 :
          /\ CanBuild("verilator")
          /\ NodeOf(operator, UnaryGates(ds, operator, words[k].bits, w),
                    [e \in Assignments |-> UnaryMeans(operator, M(k, e), Width(k), w)])
  BY <1>1
<1> DEFINE n == given.inputs
           u == Width(k)
           built == UnaryGates(ds, operator, words[k].bits, w)
           means == [e \in Assignments |-> UnaryMeans(operator, M(k, e), u, w)]
           out == UnaryWidth(operator, u, w)
<1>3. ASSUME Sound PROVE out \in Nat /\ out > 0 /\ BuildsFor(ds, built, out, means, n)
  <2>1. SoundFor(ds, words, n)
    BY <1>3 DEF Sound
  <2>2. Sized(words, k, u)
    BY DEF Sized, Width
  <2>3. \A e \in Until(n) : means[e] = UnaryMeans(operator, words[k].means[e], u, w)
    BY DEF M, Assignments, Until
  <2> HIDE DEF u, means, n
  <2>4. u \in Nat /\ u > 0
    BY <2>1, <2>2, OperandMeans
  <2>5. w \in Nat /\ u <= w
    BY <2>4 DEF u
  <2>6. out \in Nat /\ out > 0
    BY <2>4, <2>5 DEF UnaryWidth
  <2>7. operator \in UnaryOperators \cup Extensions
    BY DEF Extensions
  <2> QED
    BY <2>1, <2>2, <2>3, <2>5, <2>6, <2>7, UnarySound
<1>4. NodeOf(operator, built, means)
  BY <1>2
<1> HIDE DEF built, means, out
<1> QED
  BY <1>2, <1>3, <1>4, VerilatorNodeKeeps

(* A shift of one bit, the case that loses its amount, is one bit wide.     *)
LEMMA OneBitShift ==
  ASSUME NEW drivers, NEW operator \in Shifts, NEW a, NEW b, NEW signed
  PROVE  Len(BinaryGates(drivers, operator, a, b, 1, signed).out) = 1
<1> DEFINE x == ResizeValues(a, 1, FALSE)
<1>1. PowerAtLeast[1] = 0
  BY PowerCovers
<1>2. ShiftGates(drivers, operator, a, b, 1) = Built(drivers, x)
  BY <1>1 DEF ShiftGates
<1>3. Len(x) = 1
  <2>1. x = [k \in 1 .. 1 |-> x[k]]
    BY DEF ResizeValues
  <2> HIDE DEF x
  <2> QED
    BY <2>1, TableIs
<1>4. Built(drivers, x).out = x
  BY DEF Built
<1>5. BinaryGates(drivers, operator, a, b, 1, signed) = ShiftGates(drivers, operator, a, b, 1)
  BY ArmsShared
<1> QED
  BY <1>2, <1>3, <1>4, <1>5

LEMMA BinaryNodeKeeps ==
  ASSUME FormalInv, NEW j \in DOMAIN words, NEW k \in DOMAIN words, NEW operator \in BinaryOperators, NEW signed \in BOOLEAN,
         NEW w, Sound => w \in Nat /\ w > 0, BinaryNode(operator, j, k, w, signed)
  PROVE  FormalInv'
<1> DEFINE n == given.inputs
           p == Width(j)
           q == Width(k)
           built == BinaryGates(ds, operator, words[j].bits, words[k].bits, w, signed)
           means == [e \in Assignments |-> BinaryMeans(operator, M(j, e), p, M(k, e), q, w, signed)]
           out == BinaryWidth(operator, p, q, w)
<1>1. CanBuild("verilator") /\ NodeOf(operator, built, means)
  BY DEF BinaryNode, Node, NodeOf, NodeAs
<1>2. ASSUME Sound, ~LosesAmount(operator, Len(built.out)) PROVE out \in Nat /\ out > 0 /\ BuildsFor(ds, built, out, means, n)
  <2>1. SoundFor(ds, words, n) /\ w \in Nat /\ w > 0
    BY <1>2 DEF Sound
  <2>2. Sized(words, j, p) /\ Sized(words, k, q)
    BY DEF Sized, Width
  <2>3. \A e \in Until(n) : means[e] = BinaryMeans(operator, words[j].means[e], p, words[k].means[e], q, w, signed)
    BY DEF M, Assignments, Until
  <2>4. operator \in Shifts => w > 1
    <3> SUFFICES ASSUME operator \in Shifts, w = 1 PROVE FALSE
      BY <2>1
    <3>1. Len(built.out) = 1
      BY OneBitShift
    <3>2. given.front = "verilator"
      BY <1>1 DEF CanBuild
    <3> HIDE DEF built
    <3> QED
      BY <1>2, <3>1, <3>2, ShiftsAre DEF LosesAmount, ShiftOperators
  <2> HIDE DEF p, q, means, n
  <2>5. p \in Nat /\ p > 0 /\ q \in Nat /\ q > 0
    BY <2>1, <2>2, OperandMeans
  <2>6. out \in Nat /\ out > 0
    BY <2>1, <2>5 DEF BinaryWidth
  <2> QED
    BY <2>1, <2>2, <2>3, <2>4, <2>6, BinarySound
<1> HIDE DEF built, means, out
<1> QED
  BY <1>1, <1>2, VerilatorNodeKeeps

LEMMA WidthIs ==
  ASSUME Sound, NEW k \in DOMAIN words PROVE Width(k) \in Nat /\ Width(k) > 0
<1>1. SoundFor(ds, words, given.inputs) /\ Sized(words, k, Width(k))
  BY DEF Sound, Sized, Width
<1> QED
  BY <1>1, OperandMeans

LEMMA BinaryKeeps == FormalInv /\ Binary => FormalInv'
<1> SUFFICES ASSUME FormalInv, Binary PROVE FormalInv'
  OBVIOUS
<1>1. PICK j \in DOMAIN words, k \in DOMAIN words :
        \/ \E operator \in SignlessOperators \cup ShiftOperators, w \in {Width(j), Width(k)} :
             BinaryNode(operator, j, k, w, FALSE)
        \/ \E operator \in {"Add", "Subtract"}, signed \in BOOLEAN, w \in {Width(j), Width(k), 3} :
             BinaryNode(operator, j, k, w, signed)
        \/ \E operator \in Comparisons \cup LogicalOperators : BinaryNode(operator, j, k, 1, FALSE)
        \/ BinaryNode("Concat", j, k, Width(j) + Width(k), FALSE)
  BY DEF Binary
<1>2. Sound => Width(j) \in Nat /\ Width(j) > 0 /\ Width(k) \in Nat /\ Width(k) > 0
  BY WidthIs
<1>3. ASSUME NEW operator \in SignlessOperators \cup ShiftOperators, NEW w \in {Width(j), Width(k)},
             BinaryNode(operator, j, k, w, FALSE)
      PROVE  FormalInv'
  <2>1. operator \in BinaryOperators
    BY ShiftsAre DEF BinaryOperators
  <2>2. Sound => w \in Nat /\ w > 0
    BY <1>2
  <2> DEFINE signed == FALSE
  <2>3. signed \in BOOLEAN /\ BinaryNode(operator, j, k, w, signed)
    BY <1>3
  <2> HIDE DEF signed
  <2> QED
    BY <2>1, <2>2, <2>3, BinaryNodeKeeps
<1>4. ASSUME NEW operator \in {"Add", "Subtract"}, NEW signed \in BOOLEAN, NEW w \in {Width(j), Width(k), 3},
             BinaryNode(operator, j, k, w, signed)
      PROVE  FormalInv'
  <2>1. operator \in BinaryOperators
    BY DEF BinaryOperators
  <2>2. Sound => w \in Nat /\ w > 0
    BY <1>2
  <2> QED
    BY <1>4, <2>1, <2>2, BinaryNodeKeeps
<1>5. ASSUME NEW operator \in Comparisons \cup LogicalOperators, BinaryNode(operator, j, k, 1, FALSE) PROVE FormalInv'
  <2>1. operator \in BinaryOperators
    BY DEF BinaryOperators
  <2> DEFINE signed == FALSE
             w == 1
  <2>2. Sound => w \in Nat /\ w > 0
    OBVIOUS
  <2>3. signed \in BOOLEAN /\ BinaryNode(operator, j, k, w, signed)
    BY <1>5
  <2> HIDE DEF signed, w
  <2> QED
    BY <2>1, <2>2, <2>3, BinaryNodeKeeps
<1>6. ASSUME BinaryNode("Concat", j, k, Width(j) + Width(k), FALSE) PROVE FormalInv'
  <2> DEFINE signed == FALSE
             w == Width(j) + Width(k)
             operator == "Concat"
  <2>1. operator \in BinaryOperators
    BY DEF BinaryOperators
  <2>2. Sound => w \in Nat /\ w > 0
    BY <1>2
  <2>3. signed \in BOOLEAN /\ BinaryNode(operator, j, k, w, signed)
    BY <1>6
  <2> HIDE DEF signed, w, operator
  <2> QED
    BY <2>1, <2>2, <2>3, BinaryNodeKeeps
<1> QED
  BY <1>1, <1>3, <1>4, <1>5, <1>6

LEMMA ConditionalKeeps == FormalInv /\ Conditional => FormalInv'
<1> SUFFICES ASSUME FormalInv, Conditional PROVE FormalInv'
  OBVIOUS
<1>1. PICK c \in DOMAIN words, j \in DOMAIN words, k \in DOMAIN words : \E w \in {Width(j), Width(k)} :
        /\ CanBuild("verilator")
        /\ NodeOf("Conditional", ConditionalGates(ds, words[c].bits, words[j].bits, words[k].bits, w),
                  [e \in Assignments |-> Wrap(IF M(c, e) # 0 THEN M(j, e) ELSE M(k, e), w)])
  BY ZenonT(90) DEF Conditional, Node, NodeOf, NodeAs
<1>2. PICK w \in {Width(j), Width(k)} :
        /\ CanBuild("verilator")
        /\ NodeOf("Conditional", ConditionalGates(ds, words[c].bits, words[j].bits, words[k].bits, w),
                  [e \in Assignments |-> Wrap(IF M(c, e) # 0 THEN M(j, e) ELSE M(k, e), w)])
  BY <1>1
<1> DEFINE n == given.inputs
           t == Width(c)
           p == Width(j)
           q == Width(k)
           built == ConditionalGates(ds, words[c].bits, words[j].bits, words[k].bits, w)
           means == [e \in Assignments |-> Wrap(IF M(c, e) # 0 THEN M(j, e) ELSE M(k, e), w)]
<1>3. ASSUME Sound PROVE w \in Nat /\ w > 0 /\ BuildsFor(ds, built, w, means, n)
  <2>1. SoundFor(ds, words, n) /\ w \in Nat /\ w > 0
    BY <1>3, WidthIs DEF Sound
  <2>2. Sized(words, c, t) /\ Sized(words, j, p) /\ Sized(words, k, q)
    BY DEF Sized, Width
  <2>3. \A e \in Until(n) : means[e] = Wrap(IF words[c].means[e] # 0 THEN words[j].means[e] ELSE words[k].means[e], w)
    BY DEF M, Assignments, Until
  <2> HIDE DEF t, p, q, means, n
  <2> QED
    BY <2>1, <2>2, <2>3, ConditionalSound
<1>4. NodeOf("Conditional", built, means)
  BY <1>2
<1> DEFINE operator == "Conditional"
<1> HIDE DEF built, means, operator
<1> QED
  BY <1>2, <1>3, <1>4, VerilatorNodeKeeps DEF operator

LEMMA CopiesKeeps == FormalInv /\ Replicate => FormalInv'
<1> SUFFICES ASSUME FormalInv, Replicate PROVE FormalInv'
  OBVIOUS
<1>1. PICK k \in DOMAIN words, count \in 1 .. 3 :
        /\ CanBuild("verilator")
        /\ NodeOf("Replicate", ReplicateGates(ds, words[k].bits, count),
                  [e \in Assignments |-> Copies(M(k, e), Width(k), count)])
  BY DEF Replicate, Node, NodeOf, NodeAs
<1> DEFINE n == given.inputs
           w == Width(k)
           l == count * w
           built == ReplicateGates(ds, words[k].bits, count)
           means == [e \in Assignments |-> Copies(M(k, e), w, count)]
<1>2. ASSUME Sound PROVE l \in Nat /\ l > 0 /\ BuildsFor(ds, built, l, means, n)
  <2>1. SoundFor(ds, words, n)
    BY <1>2 DEF Sound
  <2>2. Sized(words, k, w)
    BY DEF Sized, Width
  <2>3. \A e \in Until(n) : means[e] = Copies(words[k].means[e], w, count)
    BY DEF M, Assignments, Until
  <2>4. w \in Nat /\ w > 0
    BY <1>2, WidthIs
  <2>5. count \in {1, 2, 3} /\ count \in Nat
    OBVIOUS
  <2> HIDE DEF w, means, n
  <2>6. l \in Nat /\ l > 0
    BY <2>4, <2>5
  <2>7. l = count * w
    OBVIOUS
  <2> HIDE DEF l
  <2> QED
    BY <2>1, <2>2, <2>3, <2>5, <2>6, <2>7, CopiesSound
<1>3. NodeOf("Replicate", built, means)
  BY <1>1
<1> HIDE DEF built, means, l
<1> QED
  BY <1>1, <1>2, <1>3, VerilatorNodeKeeps

LEMMA SelectPartKeeps == FormalInv /\ SelectPart => FormalInv'
<1> SUFFICES ASSUME FormalInv, SelectPart PROVE FormalInv'
  OBVIOUS
<1>1. PICK j \in DOMAIN words, k \in DOMAIN words : \E w \in 1 .. Width(j) :
        /\ CanBuild("verilator")
        /\ NodeOf("Select", SelectGates(ds, words[j].bits, words[k].bits, w),
                  [e \in Assignments |-> PartOf(M(j, e), M(k, e), w)])
  BY DEF SelectPart, Node, NodeOf, NodeAs
<1>2. PICK w \in 1 .. Width(j) :
        /\ CanBuild("verilator")
        /\ NodeOf("Select", SelectGates(ds, words[j].bits, words[k].bits, w),
                  [e \in Assignments |-> PartOf(M(j, e), M(k, e), w)])
  BY <1>1
<1> DEFINE n == given.inputs
           p == Width(j)
           q == Width(k)
           built == SelectGates(ds, words[j].bits, words[k].bits, w)
           means == [e \in Assignments |-> PartOf(M(j, e), M(k, e), w)]
<1>3. ASSUME Sound PROVE w \in Nat /\ w > 0 /\ BuildsFor(ds, built, w, means, n)
  <2>1. SoundFor(ds, words, n) /\ w \in Nat /\ w > 0
    BY <1>3, WidthIs DEF Sound
  <2>2. Sized(words, j, p) /\ Sized(words, k, q)
    BY DEF Sized, Width
  <2>3. \A e \in Until(n) : means[e] = PartOf(words[j].means[e], words[k].means[e], w)
    BY DEF M, Assignments, Until
  <2> HIDE DEF p, q, means, n
  <2> QED
    BY <2>1, <2>2, <2>3, SelectPartSound
<1>4. NodeOf("Select", built, means)
  BY <1>2
<1> HIDE DEF built, means
<1> QED
  BY <1>2, <1>3, <1>4, VerilatorNodeKeeps

LEMMA LiteralSelectKeeps == FormalInv /\ LiteralSelect => FormalInv'
<1> SUFFICES ASSUME FormalInv, LiteralSelect PROVE FormalInv'
  OBVIOUS
<1>1. PICK j \in DOMAIN words : \E at \in 0 .. Width(j) - 1 : \E w \in 1 .. Width(j) - at :
        /\ CanBuild("verilator")
        /\ NodeOf("LiteralSelect", Built(ds, SelectLiteral(words[j].bits, at, w)),
                  [e \in Assignments |-> PartOf(M(j, e), at, w)])
  BY DEF LiteralSelect, Node, NodeOf, NodeAs
<1>a. PICK at \in 0 .. Width(j) - 1 : \E w \in 1 .. Width(j) - at :
        /\ CanBuild("verilator")
        /\ NodeOf("LiteralSelect", Built(ds, SelectLiteral(words[j].bits, at, w)),
                  [e \in Assignments |-> PartOf(M(j, e), at, w)])
  BY <1>1
<1>2. PICK w \in 1 .. Width(j) - at :
        /\ CanBuild("verilator")
        /\ NodeOf("LiteralSelect", Built(ds, SelectLiteral(words[j].bits, at, w)),
                  [e \in Assignments |-> PartOf(M(j, e), at, w)])
  BY <1>a
<1> DEFINE n == given.inputs
           p == Width(j)
           built == Built(ds, SelectLiteral(words[j].bits, at, w))
           means == [e \in Assignments |-> PartOf(M(j, e), at, w)]
<1>3. ASSUME Sound PROVE w \in Nat /\ w > 0 /\ BuildsFor(ds, built, w, means, n)
  <2>1. SoundFor(ds, words, n) /\ p \in Nat
    BY <1>3, WidthIs DEF Sound
  <2>2. Sized(words, j, p)
    BY DEF Sized, Width
  <2>3. \A e \in Until(n) : means[e] = PartOf(words[j].means[e], at, w)
    BY DEF M, Assignments, Until
  <2>4. w \in Nat /\ w > 0 /\ Within(at, w, p)
    BY <2>1 DEF Within
  <2> HIDE DEF p, means, n
  <2> QED
    BY <2>1, <2>2, <2>3, <2>4, LiteralSelectSound
<1>4. NodeOf("LiteralSelect", built, means)
  BY <1>2
<1> HIDE DEF built, means
<1> QED
  BY <1>2, <1>3, <1>4, VerilatorNodeKeeps

LEMMA ArraySelectKeeps == FormalInv /\ ArraySelect => FormalInv'
<1> SUFFICES ASSUME FormalInv, ArraySelect PROVE FormalInv'
  OBVIOUS
<1>1. PICK j \in DOMAIN words, k \in DOMAIN words : \E layout \in Arrays(Width(j)) :
        LET At(e) == Position([kind |-> "element", layout |-> layout], M(k, e)) IN
        /\ CanBuild("verilator") /\ WideEnough(k, Highest(layout))
        /\ NodeOf("ArraySelect", ArraySelectGates(ds, words[j].bits, words[k].bits, layout),
                  [e \in Assignments |-> IF At(e) = OutOfRange THEN 0 ELSE PartOf(M(j, e), At(e), layout.width)])
  BY DEF ArraySelect, Node, NodeOf, NodeAs
<1>2. PICK layout \in Arrays(Width(j)) :
        LET At(e) == Position([kind |-> "element", layout |-> layout], M(k, e)) IN
        /\ CanBuild("verilator") /\ WideEnough(k, Highest(layout))
        /\ NodeOf("ArraySelect", ArraySelectGates(ds, words[j].bits, words[k].bits, layout),
                  [e \in Assignments |-> IF At(e) = OutOfRange THEN 0 ELSE PartOf(M(j, e), At(e), layout.width)])
  BY <1>1
<1> DEFINE n == given.inputs
           p == Width(j)
           q == Width(k)
           step == [kind |-> "element", layout |-> layout]
           w == step.layout.width
           built == ArraySelectGates(ds, words[j].bits, words[k].bits, step.layout)
           means == [e \in Assignments |-> ElementIn(M(j, e), step, M(k, e))]
<1>3. ASSUME Sound PROVE w \in Nat /\ w > 0 /\ BuildsFor(ds, built, w, means, n)
  <2>1. SoundFor(ds, words, n) /\ p \in Nat
    BY <1>3, WidthIs DEF Sound
  <2>2. Sized(words, j, p) /\ Sized(words, k, q)
    BY DEF Sized, Width
  <2>3. \A e \in Until(n) : means[e] = ElementIn(words[j].means[e], step, words[k].means[e])
    BY DEF M, Assignments, Until
  <2>4. step.kind = "element" /\ step.layout = layout
    OBVIOUS
  <2>5. Highest(step.layout) < Pow2[q]
    BY <1>2 DEF WideEnough
  <2> HIDE DEF step
  <2>6. LaidOut(step.layout, p)
    BY <2>1, <2>4, ArraysAre
  <2>7. w \in Nat /\ w > 0
    BY <2>6 DEF LaidOut
  <2> HIDE DEF p, q, means, n
  <2> QED
    BY <2>1, <2>2, <2>3, <2>4, <2>5, <2>6, <2>7, ArraySelectSound
<1>4. CanBuild("verilator") /\ NodeOf("ArraySelect", built, means)
  BY <1>2 DEF ElementIn
<1> HIDE DEF built, means, w
<1> QED
  BY <1>3, <1>4, VerilatorNodeKeeps

LEMMA AssignKeeps == FormalInv /\ Assign => FormalInv'
<1> SUFFICES ASSUME FormalInv, Assign PROVE FormalInv'
  OBVIOUS
<1>1. PICK j \in DOMAIN words, v \in DOMAIN words : \E path \in Paths(Width(j)) :
        LET In(e) == With(path, LAMBDA k : M(k, e))
            place == [e \in Assignments |-> PlaceOfPart(In(e), Width(j))]
        IN /\ CanBuild("verilator")
           /\ path # <<>> => Width(v) = Last(path).width
           /\ NodeOf("Assign", AssignGates(ds, words[j].bits, With(path, LAMBDA k : words[k].bits), words[v].bits),
                     [e \in Assignments |->
                        IF path = <<>> THEN ReadAs(M(v, e), Width(v), Width(j), FALSE)
                        ELSE IF place[e] = OutOfRange THEN M(j, e)
                        ELSE WithPart(M(j, e), place[e], Width(v), M(v, e))])
  BY ZenonT(90) DEF Assign, Node, NodeOf, NodeAs
<1>2. PICK path \in Paths(Width(j)) :
        LET In(e) == With(path, LAMBDA k : M(k, e))
            place == [e \in Assignments |-> PlaceOfPart(In(e), Width(j))]
        IN /\ CanBuild("verilator")
           /\ path # <<>> => Width(v) = Last(path).width
           /\ NodeOf("Assign", AssignGates(ds, words[j].bits, With(path, LAMBDA k : words[k].bits), words[v].bits),
                     [e \in Assignments |->
                        IF path = <<>> THEN ReadAs(M(v, e), Width(v), Width(j), FALSE)
                        ELSE IF place[e] = OutOfRange THEN M(j, e)
                        ELSE WithPart(M(j, e), place[e], Width(v), M(v, e))])
  BY <1>1
<1> DEFINE n == given.inputs
           m == Width(j)
           t == Width(v)
           place == [e \in Assignments |-> PlaceOfPart(With(path, LAMBDA k : M(k, e)), m)]
           built == AssignGates(ds, words[j].bits, GatesAlong(words, path), words[v].bits)
           means == [e \in Assignments |-> IF path = <<>> THEN ReadAs(M(v, e), t, m, FALSE)
                                           ELSE IF place[e] = OutOfRange THEN M(j, e)
                                           ELSE WithPart(M(j, e), place[e], t, M(v, e))]
<1>3. ASSUME Sound PROVE m \in Nat /\ m > 0 /\ BuildsFor(ds, built, m, means, n)
  <2>1. SoundFor(ds, words, n) /\ m \in Nat /\ m > 0
    BY <1>3, WidthIs DEF Sound
  <2>2. Sized(words, j, m) /\ Sized(words, v, t)
    BY DEF Sized, Width
  <2>3. \A e \in Assignments : place[e] = PlaceIn(words, path, m, e)
    BY DEF PlaceIn, NumbersAlong, M
  <2>4. Assignments = Until(n)
    BY DEF Assignments, Until
  <2> HIDE DEF place
  <2>5. \A e \in Until(n) : means[e] = Written(PlaceIn(words, path, m, e), words[j].means[e], t, m, words[v].means[e], path)
    <3> SUFFICES ASSUME NEW e \in Until(n)
                 PROVE  means[e] = Written(PlaceIn(words, path, m, e), words[j].means[e], t, m, words[v].means[e], path)
      OBVIOUS
    <3>1. place[e] = PlaceIn(words, path, m, e)
      BY <2>3, <2>4
    <3> QED
      BY <2>4, <3>1 DEF Written, M
  <2>6. path \in Paths(m) /\ (path # <<>> => t = Last(path).width)
    BY <1>2
  <2> HIDE DEF m, t, means, n
  <2> QED
    BY <2>1, <2>2, <2>5, <2>6, AssignSound
<1>4. CanBuild("verilator") /\ NodeOf("Assign", built, means)
  BY <1>2 DEF GatesAlong
<1> HIDE DEF built, means, m
<1> QED
  BY <1>3, <1>4, VerilatorNodeKeeps

(* So every step keeps it.                                                  *)
LEMMA NextKeeps == OpsInv /\ [Next]_vars => OpsInv'
<1> SUFFICES ASSUME OpsInv, [Next]_vars PROVE OpsInv'
  OBVIOUS
<1>1. CASE Unary \/ Binary \/ Conditional \/ Replicate \/ SelectPart \/ LiteralSelect \/ ArraySelect \/ Assign
  BY <1>1, VerilatorKeeps
<1>2. CASE Comb
  BY <1>2, CombKeeps
<1>3. CASE ICmp
  BY <1>3, ICmpKeeps
<1>4. CASE MuxNode
  BY <1>4, MuxKeeps
<1>5. CASE Wiring
  BY <1>5, WiringKeeps
<1>6. CASE ArrayNode
  BY <1>6, ArrayNodeKeeps
<1>7. CASE Uncalled
  BY <1>7, UncalledKeeps
<1>8. CASE Complete \/ UNCHANGED vars
  BY <1>8 DEF Complete, vars, OpsInv, Sound
<1> QED
  BY <1>1, <1>2, <1>3, <1>4, <1>5, <1>6, <1>7, <1>8 DEF Next

(* The other paths leave the invariant alone, and so does every step.       *)
LEMMA OthersKeep ==
  ASSUME FormalInv, Comb \/ ICmp \/ MuxNode \/ Wiring \/ ArrayNode \/ Uncalled
  PROVE  FormalInv'
<1>1. Comb => given.front # "verilator" /\ given' = given
  <2> SUFFICES ASSUME Comb PROVE given.front # "verilator" /\ given' = given
    OBVIOUS
  <2>1. PICK operator \in Variadic \cup Dyadic, j \in DOMAIN words, k \in DOMAIN words, l \in DOMAIN words, count \in 1 .. 3 :
    LET operands == SubSeq(<<j, k, l>>, 1, count)
        w == Width(j)
    IN /\ CanBuild("circt") /\ Fresh({j, k, l}) /\ Width(k) = w /\ Width(l) = w
       /\ operator \in Dyadic => count = 2
       /\ operator \in Divisions => w <= Len(given.undefined)
       /\ CirctNode(operator,
            CombGate(ds, operator, [i \in DOMAIN operands |-> words[operands[i]].bits], Undefined(w)),
            LAMBDA e : CombMeans(operator, [i \in DOMAIN operands |-> M(operands[i], e)], w, AnyValue(w, e)))
    BY DEF Comb
  <2>2. given.front = "circt"
    BY <2>1 DEF CanBuild
  <2>3. given' = given
    BY <2>1 DEF CirctNode, Node
  <2> QED
    BY <2>2, <2>3
<1>2. ICmp => given.front # "verilator" /\ given' = given
  BY DEF ICmp, CanBuild, CirctNode, Node
<1>3. MuxNode => given.front # "verilator" /\ given' = given
  BY DEF MuxNode, CanBuild, CirctNode, Node
<1>4. Wiring => given.front # "verilator" /\ given' = given
  BY DEF Wiring, CanBuild, CirctNode, Node
<1>5. ArrayNode => given.front # "verilator" /\ given' = given
  BY DEF ArrayNode, CanBuild, CirctNode, Node
<1>6. Uncalled => given.front # "verilator" /\ given' = given
  BY DEF Uncalled, CanBuild, CirctNode, Node
<1>7. given.front # "verilator" /\ given' = given
  BY <1>1, <1>2, <1>3, <1>4, <1>5, <1>6
<1> QED
  BY <1>7 DEF FormalInv

LEMMA FormalNextKeeps == FormalInv /\ [Next]_vars => FormalInv'
<1> SUFFICES ASSUME FormalInv, [Next]_vars PROVE FormalInv'
  OBVIOUS
<1>1. CASE Unary
  BY <1>1, UnaryKeeps
<1>2. CASE Binary
  BY <1>2, BinaryKeeps
<1>3. CASE Conditional
  BY <1>3, ConditionalKeeps
<1>4. CASE Replicate
  BY <1>4, CopiesKeeps
<1>5. CASE SelectPart
  BY <1>5, SelectPartKeeps
<1>6. CASE LiteralSelect
  BY <1>6, LiteralSelectKeeps
<1>7. CASE ArraySelect
  BY <1>7, ArraySelectKeeps
<1>8. CASE Assign
  BY <1>8, AssignKeeps
<1>9. CASE Comb \/ ICmp \/ MuxNode \/ Wiring \/ ArrayNode \/ Uncalled
  BY <1>9, OthersKeep
<1>10. CASE Complete \/ UNCHANGED vars
  BY <1>10 DEF Complete, vars, FormalInv, Sound
<1> QED
  BY <1>1, <1>2, <1>3, <1>4, <1>5, <1>6, <1>7, <1>8, <1>9, <1>10 DEF Next

(* The values that Settled finds are those of a run of the gates.           *)
LEMMA SettledRuns ==
  ASSUME NEW drivers \in Vectors, NEW n, n = given.inputs, InputsFirst(drivers, n), NEW e \in Assignments
  PROVE  Fixes(Under(Settled(drivers), e), e, n) /\ Respects(Under(Settled(drivers), e), drivers)
<1> DEFINE holds == Settled(drivers)
           val == Under(holds, e)
<1>1. Len(drivers) \in Nat /\ DOMAIN drivers = 1 .. Len(drivers) /\ n \in Nat /\ n <= Len(drivers)
  BY VectorLength DEF InputsFirst
<1>2. \A k \in DOMAIN drivers : drivers[k].kind = (IF k <= n THEN "input" ELSE "gate")
  BY DEF InputsFirst
<1>3. OverInputs(drivers)
  BY <1>2 DEF OverInputs
<1>4. SettledPart(holds, drivers) /\ Len(holds) = Len(drivers)
  BY <1>3, SettledSettles
<1> HIDE DEF holds
<1>5. \A k \in 1 .. Len(drivers) : e \in holds[k] <=> Drives(holds, e, drivers[k], k)
  BY <1>4 DEF SettledPart
<1>6. val \in [Nat -> BOOLEAN]
  BY DEF Under
<1>7. \A k \in 1 .. Len(drivers) : val[k - 1] = (e \in holds[k])
  <2> SUFFICES ASSUME NEW k \in 1 .. Len(drivers) PROVE val[k - 1] = (e \in holds[k])
    OBVIOUS
  <2> DEFINE i == k - 1
  <2>1. i \in Nat /\ i + 1 = k /\ i < Len(holds)
    BY <1>1, <1>4
  <2> HIDE DEF i
  <2>2. val[i] = (e \in holds[k])
    BY <2>1 DEF Under
  <2> QED
    BY <2>2 DEF i
<1>8. Fixes(val, e, n)
  <2>1. ASSUME NEW i \in 0 .. n - 1 PROVE val[i] = BitOf(e, i)
    <3> DEFINE k == i + 1
    <3>1. k \in 1 .. Len(drivers) /\ k <= n /\ k - 1 = i
      BY <1>1
    <3> HIDE DEF k
    <3>2. drivers[k].kind = "input"
      BY <1>1, <1>2, <3>1
    <3>3. Drives(holds, e, drivers[k], k) = BitOf(e, i)
      BY <3>1, <3>2 DEF Drives
    <3>4. BitOf(e, i) \in BOOLEAN
      BY DEF BitOf
    <3>5. val[i] = (e \in holds[k]) /\ (e \in holds[k] <=> BitOf(e, i))
      BY <1>5, <1>7, <3>1, <3>3
    <3> HIDE DEF val
    <3> QED
      BY <3>4, <3>5
  <2> HIDE DEF val
  <2> QED
    BY <1>6, <2>1 DEF Fixes
<1>9. Respects(val, drivers)
  <2>1. ASSUME NEW k \in DOMAIN drivers, drivers[k].kind = "gate" PROVE val[k - 1] = Computes(val, drivers[k])
    <3>1. Drives(holds, e, drivers[k], k) = Computes(val, drivers[k])
      BY <2>1 DEF Drives
    <3>2. Computes(val, drivers[k]) \in BOOLEAN
      BY DEF Computes
    <3>3. val[k - 1] = (e \in holds[k]) /\ (e \in holds[k] <=> Computes(val, drivers[k]))
      BY <1>1, <1>5, <1>7, <3>1
    <3> HIDE DEF val
    <3> QED
      BY <3>2, <3>3
  <2> HIDE DEF val
  <2> QED
    BY <2>1 DEF Respects
<1> QED
  BY <1>8, <1>9 DEF holds

(* ValueIn is the number that the bits say in that run.                     *)
LEMMA ValueInIs ==
  ASSUME NEW holds, NEW e, NEW w \in Nat, NEW n \in Nat, n <= Len(holds), NEW bits \in Words(w, n)
  PROVE  ValueIn(holds, bits, e) = Low(Under(holds, e), bits, w)
<1> DEFINE val == Under(holds, e)
           b == [k \in DOMAIN bits |-> bits[k].sign = (bits[k].index = NoVar \/ e \in holds[bits[k].index + 1])]
<1>1. DOMAIN bits = 1 .. w
  BY WordShape
<1>2. Long(b, w)
  <2>1. b = [k \in 1 .. w |-> bits[k].sign = (bits[k].index = NoVar \/ e \in holds[bits[k].index + 1])]
    BY <1>1
  <2> HIDE DEF b
  <2>2. b \in [1 .. w -> BOOLEAN]
    BY <2>1
  <2> QED
    BY <2>2 DEF Long
<1>3. ASSUME NEW k \in 1 .. w PROVE b[k] <=> Says(val, bits[k])
  <2> DEFINE v == bits[k]
             i == v.index
             q == v.sign
             V == val[i]
             C == e \in holds[i + 1]
             N == i = NoVar
  <2>1. v \in Values(n)
    BY WordShape
  <2>2. q \in BOOLEAN /\ (i = NoVar \/ i \in 0 .. n - 1)
    BY <2>1 DEF Values
  <2>3. b[k] = (q = (N \/ C))
    BY <1>1
  <2>4. Says(val, v) = IF N THEN q ELSE V = q
    BY DEF Says
  <2>5. C \in BOOLEAN /\ N \in BOOLEAN
    OBVIOUS
  <2>6. ~N => V = C
    <3> SUFFICES ASSUME ~N PROVE V = C
      OBVIOUS
    <3>1. i \in 0 .. n - 1
      BY <2>2
    <3> HIDE DEF i
    <3>2. i \in Nat /\ i < n
      BY <3>1
    <3>3. n <= Len(holds)
      OBVIOUS
    <3>4. V = (i < Len(holds) /\ C)
      BY <3>2 DEF Under
    <3> QED
      BY <3>2, <3>3, <3>4
  <2> HIDE DEF N, V, C, q, i, b, val
  <2>8. CASE N
    BY <2>2, <2>3, <2>4, <2>5, <2>8
  <2>9. CASE ~N
    <3>1. V = C
      BY <2>6, <2>9
    <3> DEFINE B == b[k]
    <3>2. B = (q = C)
      <4>1. (N \/ C) = C
        BY <2>5, <2>9
      <4> QED
        BY <2>3, <4>1
    <3>3. Says(val, v) = (C = q)
      BY <2>4, <2>9, <3>1
    <3> HIDE DEF B
    <3> QED
      BY <2>2, <2>5, <3>2, <3>3 DEF B
  <2> QED
    BY <2>8, <2>9
<1>4. ValueIn(holds, bits, e) = Number(b)
  BY DEF ValueIn
<1> HIDE DEF b, val
<1>5. Number(b) = Low(val, bits, w)
  BY <1>2, <1>3, NumberLow
<1> QED
  BY <1>4, <1>5 DEF val

(* The values of the run that Settled finds are those that the invariant is *)
(* about.                                                                   *)
LEMMA SoundAgrees == Sound => Agrees
<1> SUFFICES ASSUME Sound, NEW e \in Assignments
             PROVE  ValueIn(Settled(ds), LastWord.bits, e) = LastWord.means[e]
  BY DEF Agrees
<1> DEFINE n == given.inputs
           k == Len(words)
           w == Len(words[k].bits)
           holds == Settled(ds)
           val == Under(holds, e)
<1>1. SoundFor(ds, words, n)
  BY DEF Sound
<1>2. k \in DOMAIN words
  <2>1. PICK S : words \in Seq(S)
    BY <1>1 DEF SoundFor
  <2>2. Len(words) > 0
    BY <1>1 DEF SoundFor
  <2> QED
    BY <2>1, <2>2
<1>3. Sized(words, k, w)
  BY DEF Sized
<1> HIDE DEF k, w
<1>4. w \in Nat /\ words[k].bits \in Words(w, Len(ds)) /\ \A v : Holds(v, ds, words[k], n, w)
  BY <1>1, <1>2, <1>3, OperandMeans
<1>5. ds \in Vectors /\ Len(ds) \in Nat /\ InputsFirst(ds, n)
  BY <1>1, SoundVector DEF SoundFor
<1>6. Fixes(val, e, n) /\ Respects(val, ds)
  BY <1>5, SettledRuns
<1>7. Len(holds) = Len(ds)
  <2>1. OverInputs(ds)
    BY <1>5 DEF InputsFirst, OverInputs
  <2> QED
    BY <1>5, <2>1, SettledSettles
<1>8. e \in Until(n)
  BY DEF Until, Assignments
<1> HIDE DEF holds
<1>9. ValueIn(holds, words[k].bits, e) = Low(val, words[k].bits, w)
  BY <1>4, <1>5, <1>7, ValueInIs
<1> HIDE DEF val, n
<1>10. Low(val, words[k].bits, w) = words[k].means[e]
  BY <1>4, <1>6, <1>8 DEF Holds
<1> QED
  BY <1>9, <1>10 DEF LastWord, k, holds

(* The gates of every CIRCT operation, and of what FsmOps offers besides,   *)
(* compute what it means, whatever was built before it.                     *)
THEOREM OperationsMeanNumbers == Spec => []CirctMeans
<1>1. Init => OpsInv
  BY InitSound DEF OpsInv
<1>2. OpsInv /\ [Next]_vars => OpsInv'
  BY NextKeeps
<1>3. OpsInv => CirctMeans
  BY SoundAgrees DEF OpsInv, CirctMeans
<1> QED
  BY <1>1, <1>2, <1>3, PTL DEF Spec

(* The gates of every expression and assignment of the Verilator path       *)
(* compute what it means, as long as no node lost the amount of a shift.    *)
THEOREM ExpressionsMeanNumbers == Spec => []FormalMeans
<1>1. Init => FormalInv
  BY InitSound DEF FormalInv
<1>2. FormalInv /\ [Next]_vars => FormalInv'
  BY FormalNextKeeps
<1>3. FormalInv => FormalMeans
  BY SoundAgrees DEF FormalInv, FormalMeans
<1> QED
  BY <1>1, <1>2, <1>3, PTL DEF Spec
================================================================================
